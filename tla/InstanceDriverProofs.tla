------------------------ MODULE InstanceDriverProofs ------------------------
(* The inductive invariant of InstanceDriver, one lemma per conjunct, and  *)
(* the safety properties that follow from it for any number of callers,    *)
(* any concurrency and any budget.                                         *)
EXTENDS InstanceDriver, FiniteSetTheorems, TLAPS

\* Any set of calls is finite, so it can be counted.
LEMMA CallsFinite ==
  ASSUME NEW S \in SUBSET Calls
  PROVE  IsFiniteSet(S) /\ Cardinality(S) \in Nat
BY DriverConstants, FS_Subset, FS_CardinalityType

\* Counting a set of calls that gains, or loses, one call.
LEMMA CountAdd ==
  ASSUME NEW S \in SUBSET Calls, NEW c \in Calls, c \notin S
  PROVE  Cardinality(S \cup {c}) = Cardinality(S) + 1
BY CallsFinite, FS_AddElement

LEMMA CountDrop ==
  ASSUME NEW S \in SUBSET Calls, NEW c \in S
  PROVE  Cardinality(S \ {c}) = Cardinality(S) - 1 /\ Cardinality(S) >= 1
<1>1. Cardinality(S \ {c}) = Cardinality(S) - 1
  BY CallsFinite, FS_RemoveElement
<1>2. Cardinality(S \ {c}) \in Nat /\ Cardinality(S) \in Nat
  BY CallsFinite
<1> QED BY <1>1, <1>2

\* At the start nobody holds a slot, nothing is queued and nothing is spent.
LEMMA InitIndInv == Init => IndInv
<1> SUFFICES ASSUME Init PROVE IndInv OBVIOUS
<1>1. TypeOK
  <2>1. inFlight \in 0 .. MaxConcurrency /\ chan \in Seq(Calls)
    BY DriverConstants DEF Init
  <2> QED BY <2>1 DEF Init, TypeOK, Admitting
<1>2. Holding = {} /\ At({"queued"}) = {} /\ Counted = {}
  BY DEF Init, Holding, At, Counted
<1>3. SlotsAccounted BY <1>2, FS_EmptySet DEF Init, SlotsAccounted
<1>4. QueueMatches BY <1>2, FS_EmptySet DEF Init, QueueMatches
<1>5. BudgetCounts BY <1>2, FS_EmptySet, DriverConstants DEF Init, BudgetCounts
<1>6. DrainSignalled BY DEF Init, DrainSignalled
<1> QED BY <1>1, <1>3, <1>4, <1>5, <1>6 DEF IndInv

\* What is in the channel are calls.
LEMMA ChanCalls ==
  ASSUME TypeOK
  PROVE  /\ chan \in Seq(Calls) /\ Len(chan) \in Nat
         /\ \A i \in 1 .. Len(chan) : chan[i] \in Calls
BY DEF TypeOK

\* The head of the channel is a queued call.
LEMMA HeadQueued ==
  ASSUME TypeOK, QueueMatches, chan # <<>>
  PROVE  Head(chan) \in Calls /\ pc[Head(chan)] = "queued"
BY DEF TypeOK, QueueMatches

\* A slot is claimed when a guard is made and freed when it is dropped; no
\* other step makes or drops one.
LEMMA SlotsStep ==
  ASSUME TypeOK, SlotsAccounted, QueueMatches, Next
  PROVE  SlotsAccounted'
<1> USE DEF Goto
<1>0. Holding \in SUBSET Calls /\ Holding' \in SUBSET Calls
  BY DEF Holding, At
<1>1. ASSUME NEW c \in Calls, Claim(c) PROVE SlotsAccounted'
  <2>1. CASE inFlight < MaxConcurrency
    <3>1. Holding' = Holding \cup {c} /\ c \notin Holding
      BY <1>1, <2>1 DEF Claim, ClaimIf, Holding, At, TypeOK
    <3> QED BY <1>0, <1>1, <2>1, <3>1, CountAdd DEF Claim, ClaimIf, SlotsAccounted
  <2>2. CASE ~(inFlight < MaxConcurrency)
    <3>1. Holding' = Holding
      BY <1>1, <2>2 DEF Claim, ClaimIf, Holding, At, TypeOK, Settle
    <3> QED BY <1>1, <2>2, <3>1 DEF Claim, ClaimIf, SlotsAccounted
  <2> QED BY <2>1, <2>2
<1>2. ASSUME NEW c \in Calls, Release(c) PROVE SlotsAccounted'
  <2>1. Holding' = Holding \ {c} /\ c \in Holding
    BY <1>2 DEF Release, Holding, At, TypeOK
  <2> QED BY <1>0, <1>2, <2>1, CountDrop DEF Release, SlotsAccounted
<1>3. ASSUME NEW c \in Calls,
             \/ Check(c) \/ Count(c) \/ Spend(c) \/ OverBudget(c) \/ Send(c)
             \/ Finish(c) \/ FailInHost(c) \/ LastOut(c)
      PROVE  SlotsAccounted'
  <2>1. Holding' = Holding /\ inFlight' = inFlight
    BY <1>3 DEF Check, Count, CountIf, Spend, OverBudget, Send, Finish,
         FailInHost, LastOut, LastOutSignal, Holding, At, TypeOK
  <2> QED BY <2>1 DEF SlotsAccounted
<1>4. CASE SweepRetire \/ SweepSignal \/ DropHandle \/ Drained \/ ChannelClosed
           \/ Trap \/ Teardown
  <2>1. Holding' = Holding /\ inFlight' = inFlight
    BY <1>4 DEF SweepRetire, SweepSignal, SweepSignalIf, DropHandle, Drained,
         ChannelClosed, Trap, Teardown, EndLoop, Holding, At, TypeOK
  <2> QED BY <2>1 DEF SlotsAccounted
<1>5. CASE Receive
  <2>1. Holding' = Holding /\ inFlight' = inFlight
    BY <1>5, HeadQueued DEF Receive, Holding, At, TypeOK
  <2> QED BY <2>1 DEF SlotsAccounted
<1> QED BY <1>1, <1>2, <1>3, <1>4, <1>5 DEF Next, CallStep

\* Types are kept; a slot is claimed only below the bound and given back only
\* by a call that holds one.
LEMMA TypeStep ==
  ASSUME TypeOK, SlotsAccounted, QueueMatches, Next
  PROVE  TypeOK'
<1> USE DEF Goto, Settle
<1>1. ASSUME NEW c \in Calls, Claim(c) PROVE TypeOK'
  BY <1>1, DriverConstants DEF Claim, ClaimIf, TypeOK, Admitting
<1>2. ASSUME NEW c \in Calls, Release(c) PROVE TypeOK'
  <2>1. c \in Holding /\ Holding \in SUBSET Calls
    BY <1>2 DEF Release, Holding, At
  <2>2. inFlight >= 1
    BY <2>1, CountDrop DEF SlotsAccounted
  <2> QED BY <1>2, <2>2, DriverConstants DEF Release, TypeOK, Admitting
<1>3. ASSUME NEW c \in Calls, Send(c) PROVE TypeOK'
  BY SMTT(60), <1>3 DEF Send, TypeOK, Admitting
<1>4. ASSUME NEW c \in Calls, Check(c) \/ Count(c) \/ Finish(c) PROVE TypeOK'
  BY <1>4 DEF Check, Count, CountIf, Finish, TypeOK, Admitting
<1>8. ASSUME NEW c \in Calls, Spend(c) \/ OverBudget(c) \/ FailInHost(c)
      PROVE  TypeOK'
  BY <1>8 DEF Spend, OverBudget, FailInHost, RetireHolding, TypeOK, Admitting
<1>9. ASSUME NEW c \in Calls, LastOut(c) PROVE TypeOK'
  BY <1>9 DEF LastOut, LastOutSignal, TypeOK, Admitting
<1>5. CASE SweepRetire \/ SweepSignal \/ DropHandle \/ Drained
           \/ ChannelClosed \/ Trap
  BY <1>5 DEF SweepRetire, SweepSignal, SweepSignalIf, DropHandle, Drained,
       ChannelClosed, Trap, EndLoop, TypeOK, Admitting
<1>6. CASE Teardown
  BY <1>6 DEF Teardown, TypeOK, Admitting
<1>7. CASE Receive
  BY <1>7, HeadQueued DEF Receive, TypeOK, Admitting
<1> QED BY <1>1, <1>2, <1>3, <1>4, <1>5, <1>6, <1>7, <1>8, <1>9
        DEF Next, CallStep

\* The channel is written by a send, a receive and the teardown only.
LEMMA QueueStep ==
  ASSUME TypeOK, QueueMatches, Next
  PROVE  QueueMatches'
<1> DEFINE Q == At({"queued"})
<1> USE DEF Goto
<1>0. Q \in SUBSET Calls
  BY DEF At
<1>1. ASSUME NEW c \in Calls, Send(c) PROVE QueueMatches'
  <2>1. CASE IsGone \/ Len(chan) >= MaxConcurrency
    <3>1. Q' = Q /\ chan' = chan /\ pc' = [pc EXCEPT ![c] = "release"]
          /\ pc[c] = "send"
      BY <1>1, <2>1 DEF Send, At, TypeOK
    <3> QED BY <3>1, ChanCalls DEF QueueMatches, TypeOK
  <2>2. CASE ~(IsGone \/ Len(chan) >= MaxConcurrency)
    <3>1. Q' = Q \cup {c} /\ c \notin Q
      BY <1>1, <2>2 DEF Send, At, TypeOK
    <3>2. Cardinality(Q') = Len(chan) + 1
      BY <1>0, <3>1, CountAdd DEF QueueMatches
    <3>3. chan' = Append(chan, c) /\ pc' = [pc EXCEPT ![c] = "queued"] /\ pc[c] = "send"
      BY <1>1, <2>2 DEF Send
    <3>4. Len(chan') = Len(chan) + 1 /\ chan'[Len(chan) + 1] = c
          /\ \A i \in 1 .. Len(chan) : chan'[i] = chan[i] /\ chan[i] # c
      BY <3>3 DEF TypeOK, QueueMatches
    <3>5. \A i \in 1 .. Len(chan) : chan[i] \in Calls
      BY DEF TypeOK
    <3> QED BY <3>2, <3>3, <3>4, <3>5 DEF QueueMatches, TypeOK
  <2> QED BY <2>1, <2>2
<1>2. CASE Receive
  <2>1. Head(chan) \in Q /\ Q' = Q \ {Head(chan)}
    BY <1>2, HeadQueued DEF Receive, At, TypeOK
  <2>2. Cardinality(Q') = Len(chan) - 1
    BY <1>0, <2>1, CountDrop DEF QueueMatches
  <2>3. Len(chan') = Len(chan) - 1
        /\ \A i \in 1 .. Len(chan') : chan'[i] = chan[i + 1] /\ i + 1 \in 1 .. Len(chan)
    BY <1>2 DEF Receive, TypeOK
  <2>4. Head(chan) = chan[1] /\ 1 \in 1 .. Len(chan)
    BY <1>2 DEF Receive, TypeOK
  <2>5. \A i \in 1 .. Len(chan') : chan'[i] # Head(chan) /\ chan'[i] \in Calls
    BY <2>3, <2>4 DEF QueueMatches, TypeOK
  <2>6. pc' = [pc EXCEPT ![Head(chan)] = "running"]
    BY <1>2 DEF Receive
  <2>7. \A i \in 1 .. Len(chan') : pc'[chan'[i]] = "queued"
    BY <2>3, <2>5, <2>6 DEF QueueMatches, TypeOK
  <2>8. \A i, j \in 1 .. Len(chan') : chan'[i] = chan'[j] => i = j
    <3> SUFFICES ASSUME NEW i \in 1 .. Len(chan'), NEW j \in 1 .. Len(chan'),
                        chan'[i] = chan'[j]
                 PROVE  i = j
      OBVIOUS
    <3>1. chan[i + 1] = chan[j + 1] /\ i + 1 \in 1 .. Len(chan) /\ j + 1 \in 1 .. Len(chan)
      BY <2>3
    <3> QED BY <3>1 DEF QueueMatches
  <2> QED BY <2>2, <2>3, <2>7, <2>8 DEF QueueMatches
<1>3. CASE Teardown
  <2>1. Q' = {}
    BY <1>3 DEF Teardown, At, TypeOK
  <2>2. chan' = <<>> BY <1>3 DEF Teardown
  <2>3. Cardinality(Q') = 0 /\ Len(chan') = 0
    BY <2>1, <2>2, FS_EmptySet
  <2> QED BY <2>3 DEF QueueMatches
<1>4. ASSUME NEW c \in Calls,
             \/ Check(c) \/ Claim(c) \/ Count(c) \/ Spend(c) \/ OverBudget(c)
             \/ Finish(c) \/ FailInHost(c) \/ Release(c) \/ LastOut(c)
      PROVE  QueueMatches'
  <2>1. Q' = Q /\ chan' = chan /\ \A d \in Calls : pc[d] = "queued" => pc'[d] = "queued"
    BY <1>4 DEF Check, Claim, ClaimIf, Count, CountIf, Spend, OverBudget, Finish,
         FailInHost, Release, LastOut, LastOutSignal, At, TypeOK
  <2> QED BY <2>1, ChanCalls DEF QueueMatches
<1>5. CASE SweepRetire \/ SweepSignal \/ DropHandle \/ Drained
           \/ ChannelClosed \/ Trap
  BY <1>5 DEF SweepRetire, SweepSignal, SweepSignalIf, DropHandle, Drained,
       ChannelClosed, Trap, EndLoop, QueueMatches, At
<1> QED BY <1>1, <1>2, <1>3, <1>4, <1>5 DEF Next, CallStep

\* A call is sent only after the budget's counter has counted it.
LEMMA BudgetStep ==
  ASSUME TypeOK, QueueMatches, BudgetCounts, Next
  PROVE  BudgetCounts'
<1> SUFFICES ASSUME MaxInvocations # 0
             PROVE  Cardinality(Counted') =< admitted' /\ admitted' =< MaxInvocations
  BY DEF BudgetCounts
<1> USE DEF Goto, Settle
<1>0. /\ Counted \in SUBSET Calls /\ Counted' \in SUBSET Calls
      /\ Cardinality(Counted) =< admitted /\ admitted =< MaxInvocations
      /\ Cardinality(Counted) \in Nat /\ Cardinality(Counted') \in Nat
  <2>1. Counted \in SUBSET Calls /\ Counted' \in SUBSET Calls
    BY DEF Counted
  <2> QED BY <2>1, CallsFinite DEF BudgetCounts
<1>1. ASSUME NEW c \in Calls, Count(c), admitted < MaxInvocations
      PROVE  Cardinality(Counted') =< admitted' /\ admitted' =< MaxInvocations
  <2>1. admitted' = admitted + 1 /\ Counted' = Counted \cup {c}
    BY <1>1 DEF Count, CountIf, Counted, TypeOK
  <2>2. Cardinality(Counted') =< Cardinality(Counted) + 1
    BY <1>0, <2>1, CallsFinite, FS_AddElement
  <2> QED BY <1>0, <1>1, <2>1, <2>2, DriverConstants DEF TypeOK
<1>2. ASSUME Counted' \subseteq Counted, admitted' = admitted
      PROVE  Cardinality(Counted') =< admitted' /\ admitted' =< MaxInvocations
  <2>1. Cardinality(Counted') =< Cardinality(Counted)
    BY <1>0, <1>2, CallsFinite, FS_Subset
  <2> QED BY <1>0, <1>2, <2>1, DriverConstants DEF TypeOK
<1>3. ASSUME NEW c \in Calls,
             \/ Check(c) \/ Claim(c) \/ Spend(c) \/ OverBudget(c) \/ Send(c)
             \/ Finish(c) \/ FailInHost(c) \/ Release(c) \/ LastOut(c)
      PROVE  Counted' \subseteq Counted /\ admitted' = admitted
  BY <1>3 DEF Check, Claim, ClaimIf, Spend, OverBudget, Send, Finish,
       FailInHost, Release, LastOut, LastOutSignal, Counted, TypeOK
<1>4. ASSUME NEW c \in Calls, Count(c), ~(admitted < MaxInvocations)
      PROVE  Counted' \subseteq Counted /\ admitted' = admitted
  BY <1>4 DEF Count, CountIf, Counted, TypeOK
<1>5. CASE Receive
  <2>1. Counted' \subseteq Counted /\ admitted' = admitted
    BY <1>5, HeadQueued DEF Receive, Counted, TypeOK
  <2> QED BY <1>2, <2>1
<1>6. CASE SweepRetire \/ SweepSignal \/ DropHandle \/ Drained
           \/ ChannelClosed \/ Trap \/ Teardown
  <2>1. Counted' \subseteq Counted /\ admitted' = admitted
    BY <1>6 DEF SweepRetire, SweepSignal, SweepSignalIf, DropHandle, Drained,
         ChannelClosed, Trap, Teardown, EndLoop, Counted, TypeOK
  <2> QED BY <1>2, <2>1
<1> QED BY <1>1, <1>2, <1>3, <1>4, <1>5, <1>6 DEF Next, CallStep

\* The signal is given by whoever makes the second of the two facts true.
LEMMA DrainStep ==
  ASSUME TypeOK, TypeOK', QueueMatches, DrainSignalled, Next
  PROVE  DrainSignalled'
<1> USE DEF Goto
<1>1. ASSUME NEW c \in Calls, Claim(c) PROVE DrainSignalled'
  BY <1>1 DEF Claim, ClaimIf, TypeOK, DrainSignalled
<1>2. ASSUME NEW c \in Calls, Release(c) PROVE DrainSignalled'
  BY <1>2 DEF Release, TypeOK, DrainSignalled
<1>3. ASSUME NEW c \in Calls, LastOut(c) PROVE DrainSignalled'
  BY <1>3 DEF LastOut, LastOutSignal, TypeOK, DrainSignalled
<1>4. ASSUME NEW c \in Calls,
             \/ Check(c) \/ Count(c) \/ Spend(c) \/ OverBudget(c) \/ Send(c)
             \/ Finish(c) \/ FailInHost(c)
      PROVE  DrainSignalled'
  BY ZenonT(60), <1>4 DEF Check, Count, CountIf, Spend, OverBudget, Send, Finish,
       FailInHost, RetireHolding, TypeOK, DrainSignalled
<1>5. CASE Receive
  <2>1. \A c \in Calls : pc[c] = "last" => pc'[c] = "last"
    BY <1>5, HeadQueued DEF Receive, TypeOK
  <2> QED BY <1>5, <2>1 DEF Receive, DrainSignalled
<1>6. CASE SweepRetire \/ SweepSignal \/ DropHandle
  BY <1>6 DEF SweepRetire, SweepSignal, SweepSignalIf, DropHandle, TypeOK, DrainSignalled
<1>7. CASE Drained \/ ChannelClosed \/ Trap \/ Teardown
  BY <1>7 DEF Drained, ChannelClosed, Trap, Teardown, EndLoop, DrainSignalled
<1> QED BY <1>1, <1>2, <1>3, <1>4, <1>5, <1>6, <1>7 DEF Next, CallStep

\* IndInv is an invariant of the instance.
THEOREM DriverInductive == Spec => []IndInv
<1>1. IndInv /\ [Next]_vars => IndInv'
  <2> SUFFICES ASSUME IndInv, [Next]_vars PROVE IndInv' OBVIOUS
  <2>1. CASE Next
    <3>1. TypeOK' BY <2>1, TypeStep DEF IndInv
    <3>2. SlotsAccounted' BY <2>1, SlotsStep DEF IndInv
    <3>3. QueueMatches' BY <2>1, QueueStep DEF IndInv
    <3>4. BudgetCounts' BY <2>1, BudgetStep DEF IndInv
    <3>5. DrainSignalled' BY <2>1, <3>1, DrainStep DEF IndInv
    <3> QED BY <3>1, <3>2, <3>3, <3>4, <3>5 DEF IndInv
  <2>2. CASE UNCHANGED vars
    BY ZenonT(60), <2>2 DEF vars, IndInv, TypeOK, SlotsAccounted, QueueMatches, BudgetCounts,
         DrainSignalled, Holding, At, Counted
  <2> QED BY <2>1, <2>2
<1> QED BY <1>1, InitIndInv, PTL DEF Spec

\* Every reachable state of the driver is well typed: in particular in_flight,
\* an unsigned counter, never underflows and never exceeds MaxConcurrency.
THEOREM DriverTyped == Spec => []TypeOK
BY DriverInductive, PTL DEF IndInv

\* in_flight counts exactly the calls that hold an InFlightGuard.
THEOREM DriverSlots == Spec => []SlotsAccounted
BY DriverInductive, PTL DEF IndInv

\* A retired instance with nothing in flight has been, or is being, told to
\* end: no wake-up is lost between the two atomics.
THEOREM DriverDrains == Spec => []DrainSignalled
BY DriverInductive, PTL DEF IndInv

\* However many callers race past the retired check, no more than
\* MaxInvocations calls are sent.
THEOREM DriverBudget == Spec => []BudgetExact
<1>1. IndInv => BudgetExact
  <2> SUFFICES ASSUME IndInv, MaxInvocations # 0
               PROVE  Cardinality(Counted) =< MaxInvocations
    BY DEF BudgetExact
  <2>1. Counted \in SUBSET Calls BY DEF Counted
  <2>2. Cardinality(Counted) \in Nat BY <2>1, CallsFinite
  <2> QED BY <2>2, DriverConstants DEF IndInv, BudgetCounts, TypeOK
<1> QED BY <1>1, DriverInductive, PTL

\* try_send never finds the channel full: the comment's argument that the
\* capacity equals max_concurrency and a slot was claimed.
THEOREM DriverRoom == Spec => []ChannelHasRoom
<1>1. IndInv => ChannelHasRoom
  <2> SUFFICES ASSUME IndInv, NEW c \in Calls, pc[c] = "send"
               PROVE  Len(chan) < MaxConcurrency
    BY DEF ChannelHasRoom
  <2> DEFINE Q == At({"queued"})
  <2>1. /\ Q \in SUBSET Calls /\ c \notin Q
        /\ Q \cup {c} \subseteq Holding /\ Holding \in SUBSET Calls
    BY DEF At, Holding
  <2>2. Cardinality(Q \cup {c}) = Len(chan) + 1
    BY <2>1, CountAdd DEF IndInv, QueueMatches
  <2>3. Cardinality(Q \cup {c}) =< Cardinality(Holding)
    BY <2>1, CallsFinite, FS_Subset
  <2>4. Cardinality(Holding) =< MaxConcurrency /\ Cardinality(Holding) \in Nat
    BY DriverConstants DEF IndInv, SlotsAccounted, TypeOK
  <2> QED BY <2>2, <2>3, <2>4, DriverConstants DEF IndInv, TypeOK
<1> QED BY <1>1, DriverInductive, PTL

=============================================================================
