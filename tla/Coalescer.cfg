SPECIFICATION LiveSpec
CONSTANTS
  c1 = c1
  c2 = c2
  c3 = c3
  Callers = {c1, c2, c3}
INVARIANTS
  StaysJoinable
  AnswersFresh
PROPERTIES
  NewestPublished
  CallerReturns
CHECK_DEADLOCK FALSE
