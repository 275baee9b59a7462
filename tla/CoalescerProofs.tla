-------------------------- MODULE CoalescerProofs --------------------------
(***************************************************************************)
(* Safety of Coalescer for any number of callers.                          *)
(***************************************************************************)
EXTENDS Coalescer, FiniteSetTheorems, TLAPS

(* The number of callers is a natural number. *)
LEMMA Callers_Nat == Cardinality(Callers) \in Nat
BY CallersFinite, FS_CardinalityType

(* Only the holders of an entry's flight count: with one waiter, there is  *)
(* one holder.                                                             *)
LEMMA LastHolder ==
  ASSUME IndInv, NEW c \in Callers, entry # 0, entry = cell[c], waiters =< 1
  PROVE  Holders(entry) = {c}
<1>1. IsFiniteSet(Holders(entry)) /\ Cardinality(Holders(entry)) \in Nat
  BY CallersFinite, FS_Subset, FS_CardinalityType DEF Holders
<1>2. Cardinality(Holders(entry)) = 1
  BY <1>1, Callers_Nat DEF IndInv, TypeOK, WaitersExact
<1>3. c \in Holders(entry)
  BY DEF Holders
<1>4. PICK x : Holders(entry) = {x}
  BY <1>1, <1>2, FS_Singleton
<1> QED BY <1>3, <1>4

(* A caller that joins is one holder more. *)
LEMMA HoldersJoin ==
  ASSUME IndInv, NEW c \in Callers, NEW f \in Nat, f # 0, cell[c] # f,
         cell' = [cell EXCEPT ![c] = f]
  PROVE  /\ Holders(f)' = Holders(f) \cup {c}
         /\ Cardinality(Holders(f)') = Cardinality(Holders(f)) + 1
<1>1. Holders(f)' = Holders(f) \cup {c}
  BY DEF IndInv, TypeOK, Holders
<1>2. IsFiniteSet(Holders(f)) /\ c \notin Holders(f)
  BY CallersFinite, FS_Subset DEF Holders
<1> QED BY <1>1, <1>2, FS_AddElement

(* The initial states. *)
LEMMA Init_Ind == Init => IndInv
<1> SUFFICES ASSUME Init PROVE IndInv
  OBVIOUS
<1>1. TypeOK
  BY Callers_Nat DEF Init, TypeOK, Results
<1>2. Called = {}
  BY DEF Init, Called
<1>3. Consistent
  BY <1>2, FS_EmptySet DEF Init, Consistent, Answered, Flights
<1>4. WaitersExact /\ StaysJoinable /\ AnswersFresh
  BY DEF Init, WaitersExact, StaysJoinable, AnswersFresh
<1> QED BY <1>1, <1>3, <1>4 DEF IndInv

(* A caller that calls leaves "idle", so flights never outnumber callers.  *)
LEMMA Callers_Called ==
  ASSUME IndInv, NEW c \in Callers, pc[c] = "idle", NEW l, l # "idle",
         pc' = [pc EXCEPT ![c] = l]
  PROVE  /\ Cardinality(Called') = Cardinality(Called) + 1
         /\ Cardinality(Called) \in Nat
         /\ Cardinality(Called') =< Cardinality(Callers)
<1>1. Called' = Called \cup {c}
  BY DEF IndInv, TypeOK, Called
<1>2. IsFiniteSet(Called) /\ c \notin Called
  BY CallersFinite, FS_Subset DEF Called
<1>3. Cardinality(Called') = Cardinality(Called) + 1 /\ Cardinality(Called) \in Nat
  BY <1>1, <1>2, FS_AddElement, FS_CardinalityType
<1>4. Called' \subseteq Callers
  BY DEF Called
<1>5. Cardinality(Called') =< Cardinality(Callers)
  BY <1>4, CallersFinite, FS_Subset
<1> QED BY <1>3, <1>5

(* Elsewhere the callers that called stay the same. *)
LEMMA Callers_Same ==
  ASSUME IndInv, NEW c \in Callers, pc[c] # "idle", NEW l, l # "idle",
         pc' = [pc EXCEPT ![c] = l]
  PROVE  Called' = Called
BY DEF IndInv, TypeOK, Called

-----------------------------------------------------------------------------
(* One lemma per action.                                                   *)

LEMMA ReuseFinished_Ind ==
  ASSUME IndInv, NEW c \in Callers, ReuseFinished(c) PROVE IndInv'
<1> USE DEF ReuseFinished, Call, Goto, map
<1>1. TypeOK'
  BY DEF IndInv, TypeOK, Answered, Flights
<1>2. Consistent'
  <2>1. started =< Cardinality(Called')
    <3>1. Cardinality(Called') = Cardinality(Called) + 1 /\ Cardinality(Called) \in Nat
      BY Callers_Called
    <3> QED BY <3>1, Callers_Nat DEF IndInv, Consistent, TypeOK
  <2>2. \A d \in Callers : /\ cell[d] = 0 <=> pc'[d] \in {"idle", "over"}
                           /\ before'[d] \subseteq Answered
                           /\ cell[d] \in before'[d] => reuse /\ result[cell[d]] = "ok"
                           /\ answer'[d] # 0 => pc'[d] # "idle" /\ result[answer'[d]] # "none"
                           /\ pc'[d] = "booking" => result[cell[d]] # "none"
                           /\ pc'[d] = "working" => result[cell[d]] = "none" /\ pc[d] = "working"
    BY DEF IndInv, Consistent, TypeOK, Answered, Flights
  <2> QED BY <2>1, <2>2 DEF IndInv, Consistent, TypeOK, Answered
<1>3. WaitersExact'
  BY DEF IndInv, WaitersExact, Holders
<1>4. StaysJoinable'
  BY DEF IndInv, TypeOK, Consistent, StaysJoinable, Wanted, Holders
<1>5. AnswersFresh'
  BY DEF IndInv, TypeOK, Consistent, AnswersFresh
<1> QED BY <1>1, <1>2, <1>3, <1>4, <1>5 DEF IndInv

LEMMA Join_Ind ==
  ASSUME IndInv, NEW c \in Callers, Join(c) PROVE IndInv'
<1> USE DEF Join, Call, Goto, map, Holds
<1>0. entry # 0 /\ entry = started /\ entry \in Flights /\ cell[c] # entry /\ cell[c] = 0 /\ entry \in Nat
  BY Callers_Nat DEF IndInv, TypeOK, Consistent, Joinable, Flights
<1>6. Cardinality(Holders(entry)') = Cardinality(Holders(entry)) + 1
  BY <1>0, HoldersJoin
<1>7. Cardinality(Holders(entry)') =< Cardinality(Callers) /\ Cardinality(Holders(entry)') \in Nat
  BY CallersFinite, FS_Subset, FS_CardinalityType DEF Holders
<1>8. waiters' \in 0 .. Cardinality(Callers) /\ waiters' = Cardinality(Holders(entry)')
  BY <1>0, <1>6, <1>7, Callers_Nat DEF IndInv, TypeOK, WaitersExact
<1>1. TypeOK'
  BY <1>0, <1>8 DEF IndInv, TypeOK, Answered, Flights
<1>2. Consistent'
  <2>1. started =< Cardinality(Called')
    <3>1. Cardinality(Called') = Cardinality(Called) + 1 /\ Cardinality(Called) \in Nat
      BY Callers_Called
    <3> QED BY <3>1, Callers_Nat DEF IndInv, Consistent, TypeOK
  <2>2. \A d \in Callers : /\ cell'[d] = 0 <=> pc'[d] \in {"idle", "over"}
                           /\ before'[d] \subseteq Answered
                           /\ cell'[d] \in before'[d] => reuse /\ result[cell'[d]] = "ok"
                           /\ answer[d] # 0 => pc'[d] # "idle" /\ result[answer[d]] # "none"
                           /\ pc'[d] = "booking" => result[cell'[d]] # "none"
                           /\ pc'[d] = "working" => result[cell'[d]] = "none" /\ pc[d] = "working" /\ d # c
    BY <1>0 DEF IndInv, Consistent, TypeOK, Answered, Joinable, Results
  <2> QED BY <2>1, <2>2 DEF IndInv, Consistent, TypeOK, Answered
<1>3. WaitersExact'
  BY <1>0, <1>8, <1>6, <1>7, Callers_Nat DEF IndInv, TypeOK, WaitersExact, Holders
<1>4. StaysJoinable'
  BY <1>0 DEF IndInv, TypeOK, Consistent, StaysJoinable, Wanted, Holders
<1>5. AnswersFresh'
  BY Callers_Nat DEF IndInv, TypeOK, Consistent, AnswersFresh, Answered, Flights
<1> QED BY <1>1, <1>2, <1>3, <1>4, <1>5 DEF IndInv

LEMMA Start_Ind ==
  ASSUME IndInv, NEW c \in Callers, Start(c) PROVE IndInv'
<1> USE DEF Start, Call, Goto, map, Holds
<1> DEFINE new == started + 1
<1>0. started \in Nat /\ cell[c] = 0 /\ answer[c] \in 0 .. started
  BY Callers_Nat DEF IndInv, TypeOK, Consistent
<1>6. new =< Cardinality(Called') /\ new =< Cardinality(Callers)
  <2>1. /\ Cardinality(Called') = Cardinality(Called) + 1 /\ Cardinality(Called) \in Nat
        /\ Cardinality(Called') =< Cardinality(Callers)
    BY Callers_Called
  <2> QED BY <1>0, <2>1, Callers_Nat DEF IndInv, Consistent
<1>7. new \in Flights /\ result[new] = "none" /\ new \notin expired
  BY <1>0, <1>6, Callers_Nat DEF IndInv, Consistent, TypeOK, Flights
<1>8. Holders(entry)' = {c}
  BY <1>0 DEF IndInv, TypeOK, Holders
<1>1. TypeOK'
  BY <1>0, <1>6, <1>7, Callers_Nat DEF IndInv, TypeOK, Answered, Flights
<1>2. Consistent'
  <2>2. \A d \in Callers : /\ cell'[d] = 0 <=> pc'[d] \in {"idle", "over"}
                           /\ before'[d] \subseteq Answered
                           /\ cell'[d] \in before'[d] => reuse /\ result[cell'[d]] = "ok"
                           /\ answer[d] # 0 => pc'[d] # "idle" /\ result[answer[d]] # "none"
                           /\ pc'[d] = "booking" => result[cell'[d]] # "none"
                           /\ pc'[d] = "working" => result[cell'[d]] = "none" /\ pc[d] = "working" /\ d # c
    BY <1>0, <1>7 DEF IndInv, Consistent, TypeOK, Answered
  <2>3. \A f \in Flights : f > new => result[f] = "none"
    BY <1>0 DEF IndInv, Consistent, Flights
  <2>4. \A d, e \in Callers :
          pc'[d] = "working" /\ pc'[e] = "working" /\ cell'[d] = cell'[e] => d = e
    BY <2>2 DEF IndInv, Consistent, TypeOK
  <2> QED BY <1>6, <2>2, <2>3, <2>4 DEF IndInv, Consistent, TypeOK, Answered
<1>3. WaitersExact'
  <2>1. Cardinality(Holders(entry)') = 1
    BY <1>8, FS_Singleton
  <2> QED BY <1>0, <2>1 DEF WaitersExact
<1>4. StaysJoinable'
  <2> SUFFICES ASSUME NEW f \in 1 .. new, Wanted(f)', f \notin expired, f # new PROVE FALSE
    BY <1>0 DEF StaysJoinable
  <2>1. f \in 1 .. started /\ Wanted(f)
    BY <1>0 DEF IndInv, TypeOK, Wanted, Holders
  <2>2. entry = f /\ result[entry] = "none"
    BY <2>1 DEF IndInv, StaysJoinable, Wanted
  <2> QED BY <2>1, <2>2 DEF Joinable
<1>5. AnswersFresh'
  BY <1>0, Callers_Nat DEF IndInv, TypeOK, Consistent, AnswersFresh, Answered, Flights
<1> QED BY <1>1, <1>2, <1>3, <1>4, <1>5 DEF IndInv

LEMMA Work_Ind ==
  ASSUME IndInv, NEW c \in Callers, Work(c) PROVE IndInv'
<1> USE DEF Work, Goto, map
<1>1. TypeOK'
  BY DEF IndInv, TypeOK
<1>2. Consistent'
  <2>1. started =< Cardinality(Called')
    BY Callers_Same DEF IndInv, Consistent
  <2>2. \A d \in Callers : /\ cell[d] = 0 <=> pc'[d] \in {"idle", "over"}
                           /\ pc'[d] = "booking" => result[cell[d]] # "none"
                           /\ pc'[d] = "working" => result[cell[d]] = "none" /\ (d = c \/ pc[d] = "working")
    BY DEF IndInv, Consistent, TypeOK
  <2>3. \A d, e \in Callers :
          pc'[d] = "working" /\ pc'[e] = "working" /\ cell[d] = cell[e] => d = e
    BY <2>2 DEF IndInv, Consistent, TypeOK
  <2> QED BY <2>1, <2>2, <2>3 DEF IndInv, Consistent, TypeOK, Answered
<1>3. WaitersExact'
  BY DEF IndInv, WaitersExact, Holders
<1>4. StaysJoinable'
  BY DEF IndInv, TypeOK, StaysJoinable, Wanted, Holders
<1>5. AnswersFresh'
  BY DEF IndInv, AnswersFresh
<1> QED BY <1>1, <1>2, <1>3, <1>4, <1>5 DEF IndInv

LEMMA Finish_Ind ==
  ASSUME IndInv, NEW c \in Callers, Finish(c) PROVE IndInv'
<1> USE DEF Finish, Goto, map
<1>0. PICK r \in {"ok", "err"} : result' = [result EXCEPT ![cell[c]] = r]
  OBVIOUS
<1>6. cell[c] \in 1 .. started /\ cell[c] \in Flights /\ result[cell[c]] = "none"
  BY Callers_Nat DEF IndInv, TypeOK, Consistent, Flights
<1>7. \A f \in Flights : result[f] # "none" => result'[f] = result[f]
  BY <1>0, <1>6 DEF IndInv, TypeOK
<1>8. \A f \in Flights : f # cell[c] => result'[f] = result[f]
  BY <1>0, <1>6 DEF IndInv, TypeOK
<1>9. result'[cell[c]] # "none"
  BY <1>0, <1>6 DEF IndInv, TypeOK
<1>1. TypeOK'
  BY <1>0, <1>6 DEF IndInv, TypeOK, Results
<1>2. Consistent'
  <2>1. started =< Cardinality(Called')
    BY Callers_Same DEF IndInv, Consistent
  <2>2. \A f \in Flights : f > started => result'[f] = "none"
    BY <1>6, <1>8 DEF IndInv, TypeOK, Consistent
  <2>3. finished # 0 => reuse /\ result'[finished] = "ok"
    BY <1>7, Callers_Nat DEF IndInv, TypeOK, Consistent, Flights
  <2>4. ASSUME NEW d \in Callers
        PROVE  /\ cell[d] = 0 <=> pc'[d] \in {"idle", "over"}
               /\ pc'[d] = "booking" => result'[cell[d]] # "none"
               /\ answer'[d] # 0 => pc'[d] # "idle" /\ result'[answer'[d]] # "none"
    <3>1. CASE d = c
      BY <3>1, <1>6, <1>9 DEF IndInv, TypeOK, Consistent
    <3>2. CASE d # c
      BY <3>2, <1>7, Callers_Nat DEF IndInv, TypeOK, Consistent, Flights
    <3> QED BY <3>1, <3>2
  <2>5. \A d \in Callers : pc'[d] = "working" => d # c /\ pc[d] = "working" /\ cell[d] # cell[c]
    BY DEF IndInv, TypeOK, Consistent
  <2>6. \A d \in Callers : pc'[d] = "working" => result'[cell[d]] = "none"
    BY <2>5, <1>8, Callers_Nat DEF IndInv, TypeOK, Consistent, Flights
  <2>7. \A d \in Callers : before[d] \subseteq Answered'
    BY <1>7 DEF IndInv, Consistent, Answered
  <2>8. \A d \in Callers : cell[d] \in before[d] => reuse /\ result'[cell[d]] = "ok"
    BY <1>7 DEF IndInv, TypeOK, Consistent, Answered
  <2> QED BY <2>1, <2>2, <2>3, <2>4, <2>5, <2>6, <2>7, <2>8 DEF IndInv, Consistent
<1>3. WaitersExact'
  BY DEF IndInv, WaitersExact, Holders
<1>4. StaysJoinable'
  <2> SUFFICES ASSUME NEW f \in 1 .. started, Wanted(f)', f \notin expired PROVE entry = f
    BY DEF StaysJoinable
  <2>1. f # cell[c] /\ f \in Flights
    BY <1>9, Callers_Nat DEF Wanted, IndInv, TypeOK, Flights
  <2>2. Wanted(f)
    BY <2>1, <1>8 DEF Wanted, Holders, IndInv, TypeOK
  <2> QED BY <2>2 DEF IndInv, StaysJoinable
<1>5. AnswersFresh'
  <2> SUFFICES ASSUME NEW d \in Callers, answer'[d] \in before[d]
               PROVE  reuse /\ result'[answer'[d]] = "ok"
    BY DEF AnswersFresh
  <2>1. d # c
    BY <1>6 DEF IndInv, TypeOK, Consistent, Answered
  <2> QED BY <2>1, <1>7 DEF IndInv, TypeOK, Consistent, AnswersFresh, Answered
<1> QED BY <1>1, <1>2, <1>3, <1>4, <1>5 DEF IndInv

LEMMA Book_Ind ==
  ASSUME IndInv, NEW c \in Callers, Book(c) PROVE IndInv'
<1> USE DEF Book, Booked, Publish, Goto, map
<1>0. cell[c] \in 1 .. started /\ result[cell[c]] # "none"
  BY Callers_Nat DEF IndInv, TypeOK, Consistent
<1>6. entry' \in {0, entry} /\ (entry' # 0 => waiters' = waiters) /\ (entry' = 0 => waiters' = 0)
  BY DEF IndInv, WaitersExact
<1>7. finished' \in {finished, cell[c]} /\ (finished' # finished => reuse /\ result[finished'] = "ok")
  OBVIOUS
<1>1. TypeOK'
  BY <1>0, <1>6, <1>7, Callers_Nat DEF IndInv, TypeOK
<1>2. Consistent'
  <2>1. started =< Cardinality(Called')
    BY Callers_Same DEF IndInv, Consistent
  <2>2. \A d \in Callers : /\ cell[d] = 0 <=> pc'[d] \in {"idle", "over"}
                           /\ answer[d] # 0 => pc'[d] # "idle" /\ result[answer[d]] # "none"
                           /\ pc'[d] = "booking" => pc[d] = "booking"
                           /\ pc'[d] = "working" => pc[d] = "working"
    BY DEF IndInv, Consistent, TypeOK
  <2> QED BY <1>6, <1>7, <2>1, <2>2 DEF IndInv, Consistent, TypeOK, Answered
<1>3. WaitersExact'
  BY <1>6 DEF IndInv, WaitersExact, Holders
<1>4. StaysJoinable'
  <2> SUFFICES ASSUME NEW f \in 1 .. started, Wanted(f)', f \notin expired PROVE entry' = f
    BY DEF StaysJoinable
  <2>1. f # cell[c] /\ Wanted(f)
    BY <1>0 DEF Wanted, Holders, IndInv, TypeOK
  <2> QED BY <2>1 DEF IndInv, StaysJoinable
<1>5. AnswersFresh'
  BY DEF IndInv, AnswersFresh
<1> QED BY <1>1, <1>2, <1>3, <1>4, <1>5 DEF IndInv

LEMMA Wake_Ind ==
  ASSUME IndInv, NEW c \in Callers, Wake(c) PROVE IndInv'
<1> USE DEF Wake, Goto, map
<1>1. TypeOK'
  BY DEF IndInv, TypeOK
<1>2. Consistent'
  <2>1. started =< Cardinality(Called')
    BY Callers_Same DEF IndInv, Consistent
  <2>2. \A d \in Callers : /\ cell[d] = 0 <=> pc'[d] \in {"idle", "over"}
                           /\ answer'[d] # 0 => pc'[d] # "idle" /\ result[answer'[d]] # "none"
                           /\ pc'[d] = "booking" => pc[d] = "booking"
                           /\ pc'[d] = "working" => pc[d] = "working"
    BY DEF IndInv, Consistent, TypeOK
  <2> QED BY <2>1, <2>2 DEF IndInv, Consistent, TypeOK, Answered
<1>3. WaitersExact'
  BY DEF IndInv, WaitersExact, Holders
<1>4. StaysJoinable'
  BY DEF IndInv, TypeOK, StaysJoinable, Wanted, Holders
<1>5. AnswersFresh'
  BY DEF IndInv, TypeOK, Consistent, AnswersFresh
<1> QED BY <1>1, <1>2, <1>3, <1>4, <1>5 DEF IndInv

LEMMA Cancel_Ind ==
  ASSUME IndInv, NEW c \in Callers, Cancel(c) PROVE IndInv'
<1> USE DEF Cancel, Goto, map
<1>1. TypeOK'
  BY DEF IndInv, TypeOK
<1>2. Consistent'
  <2>1. started =< Cardinality(Called')
    BY Callers_Same DEF IndInv, Consistent
  <2>2. \A d \in Callers : /\ cell[d] = 0 <=> pc'[d] \in {"idle", "over"}
                           /\ answer[d] # 0 => pc'[d] # "idle" /\ result[answer[d]] # "none"
                           /\ pc'[d] = "booking" => pc[d] = "booking"
                           /\ pc'[d] = "working" => pc[d] = "working"
    BY DEF IndInv, Consistent, TypeOK
  <2> QED BY <2>1, <2>2 DEF IndInv, Consistent, TypeOK, Answered
<1>3. WaitersExact'
  BY DEF IndInv, WaitersExact, Holders
<1>4. StaysJoinable'
  BY DEF IndInv, TypeOK, StaysJoinable, Wanted, Holders
<1>5. AnswersFresh'
  BY DEF IndInv, AnswersFresh
<1> QED BY <1>1, <1>2, <1>3, <1>4, <1>5 DEF IndInv

LEMMA Leave_Ind ==
  ASSUME IndInv, NEW c \in Callers, Leave(c) PROVE IndInv'
<1> USE DEF Leave, Left, Goto, map
<1>0. cell[c] \in 1 .. started /\ entry \in Nat /\ waiters \in Nat
  BY Callers_Nat DEF IndInv, TypeOK, Consistent
<1>6. /\ entry' \in {0, entry} /\ waiters' \in 0 .. Cardinality(Callers)
      /\ entry' = 0 => waiters' = 0
  BY <1>0, Callers_Nat DEF IndInv, TypeOK, WaitersExact
<1>1. TypeOK'
  BY <1>0, <1>6 DEF IndInv, TypeOK
<1>2. Consistent'
  <2>1. started =< Cardinality(Called')
    BY Callers_Same DEF IndInv, Consistent
  <2>2. \A d \in Callers : /\ cell'[d] = 0 <=> pc'[d] \in {"idle", "over"}
                           /\ cell'[d] \in {0, cell[d]}
                           /\ answer[d] # 0 => pc'[d] # "idle" /\ result[answer[d]] # "none"
                           /\ pc'[d] = "booking" => pc[d] = "booking" /\ cell'[d] = cell[d]
                           /\ pc'[d] = "working" => pc[d] = "working" /\ cell'[d] = cell[d]
    BY <1>0 DEF IndInv, Consistent, TypeOK
  <2>3. \A d \in Callers : 0 \notin before[d]
    BY Callers_Nat DEF IndInv, TypeOK, Flights
  <2> QED BY <1>6, <2>1, <2>2, <2>3 DEF IndInv, Consistent, TypeOK, Answered
<1>3. WaitersExact'
  <2>1. CASE entry # cell[c]
    <3>1. entry # 0 => Holders(entry)' = Holders(entry)
      BY <2>1, <1>0 DEF IndInv, TypeOK, Holders
    <3> QED BY <2>1, <3>1 DEF IndInv, WaitersExact
  <2>2. CASE entry = cell[c] /\ waiters > 1
    <3>1. Cardinality(Holders(entry)') = Cardinality(Holders(entry)) - 1
      <4>1. Holders(entry)' = Holders(entry) \ {c}
        BY <2>2, <1>0 DEF IndInv, TypeOK, Holders
      <4>2. IsFiniteSet(Holders(entry)) /\ c \in Holders(entry)
        BY <2>2, CallersFinite, FS_Subset DEF Holders
      <4> QED BY <4>1, <4>2, FS_RemoveElement
    <3> QED BY <2>2, <1>0, <3>1 DEF IndInv, WaitersExact
  <2>3. CASE entry = cell[c] /\ ~(waiters > 1)
    BY <2>3 DEF WaitersExact
  <2> QED BY <2>1, <2>2, <2>3
<1>4. StaysJoinable'
  <2> SUFFICES ASSUME NEW f \in 1 .. started, Wanted(f)', f \notin expired PROVE entry' = f
    BY DEF StaysJoinable
  <2>1. PICK d \in Callers : cell'[d] = f /\ pc'[d] # "leaving"
    BY DEF Wanted, Holders
  <2>2. d # c /\ cell[d] = f /\ pc[d] # "leaving"
    BY <2>1, <1>0 DEF IndInv, TypeOK
  <2>3. entry = f
    BY <2>2 DEF IndInv, StaysJoinable, Wanted, Holders
  <2>4. ~(entry = cell[c] /\ waiters =< 1)
    BY <2>2, <2>3, LastHolder, <1>0 DEF Holders
  <2> QED BY <1>0, <2>3, <2>4
<1>5. AnswersFresh'
  BY DEF IndInv, AnswersFresh
<1> QED BY <1>1, <1>2, <1>3, <1>4, <1>5 DEF IndInv

LEMMA Time_Ind ==
  ASSUME IndInv, Evict \/ \E f \in Flights : Expire(f) PROVE IndInv'
<1>1. CASE Evict
  BY <1>1, Callers_Nat DEF Evict, map, IndInv, TypeOK, Consistent, Answered, Called, WaitersExact,
     Holders, StaysJoinable, Wanted, AnswersFresh
<1>2. ASSUME NEW f \in Flights, Expire(f) PROVE IndInv'
  BY <1>2 DEF Expire, map, IndInv, TypeOK, Consistent, Answered, Called, WaitersExact,
     Holders, StaysJoinable, Wanted, AnswersFresh
<1> QED BY <1>1, <1>2

-----------------------------------------------------------------------------
(* The inductive invariant holds in every reachable state, for any finite  *)
(* set of calls, whatever the interleaving of leaders, joiners,            *)
(* cancellations and expiries that coalescer.rs allows.                    *)
THEOREM CoalescerInvariance == Spec => []IndInv
<1>1. Init => IndInv
  BY Init_Ind
<1>2. IndInv /\ [Next]_vars => IndInv'
  <2> SUFFICES ASSUME IndInv, [Next]_vars PROVE IndInv'
    OBVIOUS
  <2>1. CASE UNCHANGED vars
    BY <2>1 DEF vars, map, IndInv, TypeOK, Consistent, Answered, Called, WaitersExact,
       Holders, StaysJoinable, Wanted, AnswersFresh
  <2>2. CASE Next
    BY <2>2, ReuseFinished_Ind, Join_Ind, Start_Ind, Work_Ind, Finish_Ind, Book_Ind,
       Wake_Ind, Cancel_Ind, Leave_Ind, Time_Ind DEF Next
  <2> QED BY <2>1, <2>2
<1> QED BY <1>1, <1>2, PTL DEF Spec

(* Every state is well typed. *)
THEOREM CoalescerTyped == Spec => []TypeOK
BY CoalescerInvariance, PTL DEF IndInv

(* InFlight.waiters is the number of callers that hold the entry's flight. *)
THEOREM CoalescerCounts == Spec => []WaitersExact
BY CoalescerInvariance, PTL DEF IndInv

(* A wanted flight inside its join window stays the one new callers join.  *)
THEOREM CoalescerJoins == Spec => []StaysJoinable
BY CoalescerInvariance, PTL DEF IndInv

(* Failures, and results that may not be reused, answer only the callers   *)
(* that were there before them.                                            *)
THEOREM CoalescerFresh == Spec => []AnswersFresh
BY CoalescerInvariance, PTL DEF IndInv

(* Only the flight that started last is published for reuse. *)
THEOREM CoalescerPublishes == Spec => NewestPublished
<1>1. IndInv /\ [Next]_vars => [finished' \in {0, finished, started}]_vars
  BY DEF IndInv, Consistent, Next, vars, ReuseFinished, Join, Start, Call, Work, Finish,
     Book, Booked, Publish, Wake, Cancel, Leave, Left, Expire, Evict
<1> QED BY <1>1, CoalescerInvariance, PTL DEF Spec, NewestPublished

=============================================================================
