------------------------- MODULE InstancePoolProofs -------------------------
(* The inductive invariant of InstancePool, one lemma per part, and the    *)
(* safety properties that follow from it for any number of callers, any    *)
(* pool size, concurrency, budget and floor.                               *)
EXTENDS InstancePool, FiniteSetTheorems, TLAPS

\* Counting a part of a finite set, and a part of it that gained a member.
LEMMA CountSub ==
  ASSUME NEW T, NEW S, IsFiniteSet(T), S \subseteq T
  PROVE  /\ IsFiniteSet(S)
         /\ Cardinality(S) \in Nat /\ Cardinality(T) \in Nat
         /\ Cardinality(S) =< Cardinality(T)
BY FS_Subset, FS_CardinalityType

LEMMA CountSubAdd ==
  ASSUME NEW T, NEW S, NEW x, IsFiniteSet(T), S \subseteq T \cup {x}
  PROVE  Cardinality(S) \in Nat /\ Cardinality(S) =< Cardinality(T) + 1
<1>1. IsFiniteSet(T \cup {x}) /\ Cardinality(T) \in Nat
      /\ Cardinality(T \cup {x}) =< Cardinality(T) + 1
  BY FS_AddElement, FS_CardinalityType
<1>2. Cardinality(S) \in Nat /\ Cardinality(S) =< Cardinality(T \cup {x})
      /\ Cardinality(T \cup {x}) \in Nat
  BY <1>1, CountSub
<1> QED BY <1>1, <1>2

\* The instances of a behaviour, and the calls on them, can be counted.
LEMMA PoolFinite ==
  /\ IsFiniteSet(Instances) /\ 0 \notin Instances
  /\ IsFiniteSet(Calls)
  /\ \A S \in SUBSET Instances : IsFiniteSet(S) /\ Cardinality(S) \in Nat
  /\ \A S \in SUBSET Calls : IsFiniteSet(S) /\ Cardinality(S) \in Nat
<1>1. IsFiniteSet(Instances) /\ 0 \notin Instances
  BY PoolConstants, FS_Interval DEF Instances
<1>2. IsFiniteSet(Calls)
  BY PoolConstants
<1> QED BY <1>1, <1>2, CountSub

LEMMA InFlightNat ==
  /\ \A d : InFlight(d) \in Nat
  /\ \A ds : InFlightTotal(ds) \in Nat
BY PoolFinite DEF InFlight, InFlightTotal

\* The work of a smaller set of instances is no more work.
LEMMA TotalMonotone ==
  ASSUME NEW ds, NEW es, ds \subseteq es
  PROVE  InFlightTotal(ds) =< InFlightTotal(es)
<1>1. {c \in Calls : on[c] \in ds} \subseteq {c \in Calls : on[c] \in es}
  OBVIOUS
<1> QED BY <1>1, PoolFinite, CountSub DEF InFlightTotal

\* What reap keeps was parked.
LEMMA ReapedParked == Reaped \subseteq drivers
BY DEF Reaped

\* A step that parks nothing and admits nothing.
OnlyLess ==
  /\ drivers' \subseteq drivers
  /\ \A c \in Calls : on'[c] = on[c] \/ on'[c] = 0

\* It leaves no more work on an instance, and none more in the pool.
LEMMA OnlyLessCounts ==
  ASSUME TypeOK, OnlyLess
  PROVE  /\ \A d \in Instances : InFlight(d)' =< InFlight(d)
         /\ InFlightTotal(drivers)' =< InFlightTotal(drivers)
         /\ Cardinality(drivers') =< Cardinality(drivers)
<1>1. ASSUME NEW d \in Instances PROVE InFlight(d)' =< InFlight(d)
  <2>1. {c \in Calls : on'[c] = d} \subseteq {c \in Calls : on[c] = d}
    BY <1>1, PoolFinite DEF OnlyLess
  <2> QED BY <2>1, PoolFinite, CountSub DEF InFlight
<1>2. {c \in Calls : on'[c] \in drivers'} \subseteq {c \in Calls : on[c] \in drivers}
  BY PoolFinite DEF OnlyLess, TypeOK
<1>3. InFlightTotal(drivers)' =< InFlightTotal(drivers)
  BY <1>2, PoolFinite, CountSub DEF InFlightTotal
<1>4. Cardinality(drivers') =< Cardinality(drivers)
  BY PoolFinite, CountSub DEF OnlyLess, TypeOK
<1> QED BY <1>1, <1>3, <1>4

\* An admission adds one call to its instance and one to the pool.
LEMMA AdmitCounts ==
  ASSUME TypeOK, NEW c \in Calls, NEW d \in Instances, Admit(c, d)
  PROVE  /\ InFlight(d)' =< InFlight(d) + 1
         /\ \A e \in Instances \ {d} : InFlight(e)' =< InFlight(e)
         /\ \A ds : Cardinality({x \in Calls : on'[x] \in ds}) =< InFlightTotal(ds) + 1
<1>1. on' = [on EXCEPT ![c] = d] /\ on \in [Calls -> 0 .. MaxInstances]
  BY DEF Admit, TypeOK
<1>2. {x \in Calls : on'[x] = d} \subseteq {x \in Calls : on[x] = d} \cup {c}
  BY <1>1
<1>3. ASSUME NEW e \in Instances \ {d} PROVE InFlight(e)' =< InFlight(e)
  <2>1. {x \in Calls : on'[x] = e} \subseteq {x \in Calls : on[x] = e}
    BY <1>1, <1>3
  <2> QED BY <2>1, PoolFinite, CountSub DEF InFlight
<1>4. ASSUME NEW ds
      PROVE  Cardinality({x \in Calls : on'[x] \in ds}) =< InFlightTotal(ds) + 1
  <2>1. {x \in Calls : on'[x] \in ds} \subseteq {x \in Calls : on[x] \in ds} \cup {c}
    BY <1>1
  <2> QED BY <2>1, PoolFinite, CountSubAdd DEF InFlightTotal
<1>5. InFlight(d)' =< InFlight(d) + 1
  BY <1>2, PoolFinite, CountSubAdd DEF InFlight
<1> QED BY <1>3, <1>4, <1>5

-----------------------------------------------------------------------------
(* The steps, grouped by what they do to the warm set.                     *)

\* The steps that park nothing and admit nothing.
Quiet ==
  \/ \E c \in Calls :
       \/ TryDispatchClosed(c) \/ TryDispatch(c) \/ BuildFails(c) \/ Install(c)
       \/ Sample(c) \/ Arm(c) \/ Spawn(c) \/ Tick(c) \/ TaskDropped(c)
       \/ SweepDisarm(c) \/ Return(c) \/ Sweep(c) \/ CallEnds(c) \/ CallFails(c)
  \/ \E d \in Instances : Trap(d) \/ Drained(d)
  \/ Close

LEMMA NextIs == Next <=> Quiet \/ \E c \in Calls : Offer(c) \/ Place(c)
BY DEF Next, Quiet, CallStep, SweepStep

LEMMA QuietOnlyLess ==
  ASSUME TypeOK, Quiet
  PROVE  OnlyLess
<1> USE DEF OnlyLess, TypeOK
<1>1. ASSUME NEW c \in Calls,
             TryDispatchClosed(c) \/ BuildFails(c) \/ Sample(c) \/ Arm(c)
             \/ Spawn(c) \/ Tick(c) \/ TaskDropped(c) \/ Return(c)
      PROVE  OnlyLess
  BY <1>1 DEF TryDispatchClosed, BuildFails, Sample, ReleasePlaced, Arm, Spawn,
       SpawnFrom, Tick, TaskDropped, Return, SweepReturn, pool, inst, OwnStore
<1>2. ASSUME NEW c \in Calls,
             TryDispatch(c) \/ Install(c) \/ SweepDisarm(c) \/ Sweep(c)
      PROVE  OnlyLess
  BY <1>2, ReapedParked DEF TryDispatch, Install, SweepDisarm, Sweep, SweepTo
<1>3. ASSUME NEW c \in Calls, CallEnds(c) \/ CallFails(c) PROVE OnlyLess
  BY <1>3 DEF CallEnds, CallFails, Leave, pool
<1>4. CASE (\E d \in Instances : Trap(d) \/ Drained(d)) \/ Close
  BY <1>4 DEF Trap, Drained, Close, InstanceEnds, pool
<1> QED BY <1>1, <1>2, <1>3, <1>4 DEF Quiet

\* An offer is taken by a parked instance that has a free slot, or not at all.
LEMMA OfferCases ==
  ASSUME TypeOK, NEW c \in Calls, Offer(c)
  PROVE  /\ pc[c] = "offer" /\ ~lock' /\ UNCHANGED <<drivers, peak, closed, sweeping, task>>
         /\ \/ /\ \E d \in drivers : Admits(d) /\ Admit(c, d)
               /\ Goto(c, "end")
            \/ UNCHANGED <<admitted, state, on>> /\ (Goto(c, "build") \/ Goto(c, "end"))
BY DEF Offer, LeastBusy, OwnStore, pool, inst

\* A placed call is on a parked instance, on a new one parked with it while
\* the pool is open and has room, or on none.
LEMMA PlaceCases ==
  ASSUME TypeOK, NEW c \in Calls, Place(c)
  PROVE  /\ pc[c] = "place" /\ Goto(c, "sample")
         /\ UNCHANGED <<peak, closed, lock, sweeping, task>>
         /\ \/ UNCHANGED <<drivers, admitted, state, on>>
            \/ /\ UNCHANGED drivers
               /\ \E d \in drivers : Admits(d) /\ Admit(c, d)
            \/ /\ ~closed /\ Cardinality(drivers) < PoolSize
               /\ \E d \in Instances :
                    IsNext(d) /\ drivers' = drivers \cup {d} /\ Admit(c, d)
BY DEF Place, PlaceIn, OwnStore, inst

\* A new instance has served nobody.
LEMMA NewIsIdle ==
  ASSUME TypeOK, ServedByStore, NEW d \in Instances, IsNext(d)
  PROVE  InFlight(d) = 0
<1>1. {c \in Calls : on[c] = d} = {}
  BY PoolFinite DEF ServedByStore, IsNext
<1> QED BY <1>1, FS_EmptySet DEF InFlight

-----------------------------------------------------------------------------
(* The parts of the inductive invariant, each kept by every step.          *)

LEMMA InitIndInv == Init => IndInv
<1> SUFFICES ASSUME Init PROVE IndInv OBVIOUS
<1>1. /\ drivers = {} /\ Holders = {} /\ Owners = {} /\ ~lock /\ ~sweeping /\ ~closed
      /\ {c \in Calls : on[c] \in drivers} = {}
      /\ \A d \in Instances : {c \in Calls : on[c] = d} = {}
  BY PoolFinite DEF Init, Holders, Owners
<1>2. Cardinality(drivers) = 0 /\ Cardinality(Owners) = 0
      /\ InFlightTotal(drivers) = 0 /\ \A d \in Instances : InFlight(d) = 0
  BY <1>1, FS_EmptySet DEF InFlight, InFlightTotal
<1>3. TypeOK
  <2>1. 0 \in 0 .. MaxInstances /\ \A d \in Instances : InFlight(d) =< MaxConcurrency
    BY <1>2, PoolConstants
  <2>2. {closed, lock, sweeping} \subseteq BOOLEAN
    BY DEF Init
  <2> QED BY <2>1, <2>2 DEF Init, TypeOK
<1>4. LockExclusive /\ SpawnsLast /\ ServedByStore /\ OfferCounted
  BY <1>1 DEF Init, LockExclusive, SpawnsLast, ServedByStore, OfferCounted
<1>5. WithinPoolSize /\ SurplusIsSwept
  BY <1>2, PoolConstants DEF WithinPoolSize, SurplusIsSwept
<1>6. ClosedStaysEmpty /\ OneSweeper
  BY <1>1, <1>2 DEF ClosedStaysEmpty, OneSweeper
<1>7. PeakCovers
  BY <1>2 DEF Init, PeakCovers
<1> QED BY <1>3, <1>4, <1>5, <1>6, <1>7 DEF IndInv

\* The counters, flags and tables, without the bound on an instance's calls.
Typed ==
  /\ drivers \subseteq Instances
  /\ peak \in Nat
  /\ closed \in BOOLEAN /\ lock \in BOOLEAN /\ sweeping \in BOOLEAN
  /\ admitted \in [Instances -> Nat]
  /\ state \in [Instances -> {"unbuilt", "live", "retired", "gone"}]
  /\ pc \in [Calls -> {"new", "offer", "build", "place", "sample", "arm",
                       "reset", "end"}]
  /\ on \in [Calls -> 0 .. MaxInstances]
  /\ task \in [Calls -> {"none", "armed", "awake", "disarmed", "ended",
                         "dropped"}]

LEMMA TypeParts ==
  TypeOK <=> Typed /\ \A d \in Instances : InFlight(d) =< MaxConcurrency
BY DEF TypeOK, Typed

LEMMA TypedPrime ==
  (Typed /\ \A d \in Instances : InFlight(d) =< MaxConcurrency)' => TypeOK'
BY DEF TypeOK, Typed

LEMMA AdmitTyped ==
  ASSUME Typed, NEW c \in Calls, NEW d \in Instances, Admit(c, d)
  PROVE  /\ admitted' \in [Instances -> Nat]
         /\ state' \in [Instances -> {"unbuilt", "live", "retired", "gone"}]
         /\ on' \in [Calls -> 0 .. MaxInstances]
<1>1. d \in 0 .. MaxInstances
  BY PoolConstants DEF Instances
<1> QED BY <1>1 DEF Typed, Admit

LEMMA TypedStep ==
  ASSUME TypeOK, Next
  PROVE  Typed'
<1>0. Typed
  BY TypeParts
<1>1. ASSUME NEW c \in Calls,
             TryDispatchClosed(c) \/ BuildFails(c) \/ Arm(c) \/ Tick(c)
             \/ TaskDropped(c) \/ Return(c)
      PROVE  Typed'
  BY <1>0, <1>1 DEF Typed, TryDispatchClosed, BuildFails, Arm, Tick, TaskDropped,
       Return, SweepReturn, Goto, OwnStore, pool, inst
<1>2. ASSUME NEW c \in Calls, Sample(c) \/ Spawn(c) PROVE Typed'
  <2>1. peak' \in Nat
    BY <1>0, <1>2, InFlightNat DEF Typed, Sample, ReleasePlaced, Spawn, SpawnFrom,
       Larger
  <2>2. CASE Sample(c)
    BY <1>0, <2>1, <2>2 DEF Typed, Sample, ReleasePlaced, Goto, inst
  <2>3. CASE Spawn(c)
    BY <1>0, <2>1, <2>3 DEF Typed, Spawn, SpawnFrom, Goto, inst
  <2> QED BY <1>2, <2>2, <2>3
<1>3. ASSUME NEW c \in Calls, TryDispatch(c) \/ Install(c) \/ SweepDisarm(c)
      PROVE  Typed'
  <2>1. InFlightTotal(Reaped) + 1 \in Nat /\ peak \in Nat
    BY <1>0, InFlightNat DEF Typed
  <2>2. peak' \in Nat
    BY <1>3, <2>1 DEF TryDispatch, Install, SweepDisarm, Larger
  <2>3. drivers' \subseteq Instances
    BY <1>0, <1>3, ReapedParked DEF Typed, TryDispatch, Install, SweepDisarm
  <2> QED BY <1>0, <1>3, <2>2, <2>3 DEF Typed, TryDispatch, Install, SweepDisarm,
            Goto, inst
<1>4. ASSUME NEW c \in Calls, Sweep(c) PROVE Typed'
  BY <1>0, <1>4, InFlightNat, ReapedParked DEF Typed, Sweep, SweepTo
<1>5. ASSUME NEW c \in Calls, CallEnds(c) \/ CallFails(c) PROVE Typed'
  <2>1. 0 \in 0 .. MaxInstances
    BY PoolConstants
  <2> QED BY <1>0, <1>5, <2>1 DEF Typed, CallEnds, CallFails, Leave, pool
<1>6. CASE (\E d \in Instances : Trap(d) \/ Drained(d)) \/ Close
  <2>1. 0 \in 0 .. MaxInstances
    BY PoolConstants
  <2>2. ASSUME NEW ds, InstanceEnds(ds)
        PROVE  /\ state' \in [Instances -> {"unbuilt", "live", "retired", "gone"}]
               /\ on' \in [Calls -> 0 .. MaxInstances]
               /\ UNCHANGED <<admitted, pc, task, sweeping>>
    BY <1>0, <2>1, <2>2 DEF Typed, InstanceEnds
  <2>3. CASE \E d \in Instances : Trap(d) \/ Drained(d)
    BY <1>0, <2>2, <2>3 DEF Typed, Trap, Drained, pool
  <2>4. CASE Close
    BY <1>0, <2>2, <2>4 DEF Typed, Close
  <2> QED BY <1>6, <2>3, <2>4
<1>7. ASSUME NEW c \in Calls, Offer(c) PROVE Typed'
  <2>1. UNCHANGED <<drivers, peak, closed, sweeping, task>> /\ ~lock'
        /\ lock' \in BOOLEAN
        /\ (Goto(c, "build") \/ Goto(c, "end"))
    BY <1>7, OfferCases DEF Offer
  <2>2. \/ \E d \in Instances : Admit(c, d)
        \/ UNCHANGED <<admitted, state, on>>
    BY <1>0, <1>7, OfferCases DEF Typed
  <2> QED BY <1>0, <2>1, <2>2, AdmitTyped DEF Typed, Goto
<1>8. ASSUME NEW c \in Calls, Place(c) PROVE Typed'
  <2>1. UNCHANGED <<peak, closed, lock, sweeping, task>> /\ Goto(c, "sample")
        /\ drivers' \subseteq Instances
    BY <1>0, <1>8, PlaceCases DEF Typed
  <2>2. \/ \E d \in Instances : Admit(c, d)
        \/ UNCHANGED <<admitted, state, on>>
    BY <1>0, <1>8, PlaceCases DEF Typed
  <2> QED BY <1>0, <2>1, <2>2, AdmitTyped DEF Typed, Goto
<1> QED BY <1>1, <1>2, <1>3, <1>4, <1>5, <1>6, <1>7, <1>8, NextIs DEF Quiet

\* An instance is given a call only below its concurrency, or when it is new.
LEMMA TypeStep ==
  ASSUME TypeOK, ServedByStore, Next
  PROVE  TypeOK'
<1>1. ASSUME NEW d \in Instances PROVE InFlight(d)' =< MaxConcurrency
  <2>0. InFlight(d) =< MaxConcurrency /\ InFlight(d) \in Nat /\ InFlight(d)' \in Nat
        /\ MaxConcurrency \in Nat \ {0}
    BY PoolConstants, PoolFinite DEF TypeOK, InFlight
  <2>1. CASE OnlyLess
    BY <2>0, <2>1, OnlyLessCounts
  <2>2. ASSUME NEW c \in Calls, NEW e \in Instances, Admit(c, e),
               Admits(e) \/ IsNext(e)
        PROVE  InFlight(d)' =< MaxConcurrency
    <3>1. CASE d # e
      BY <2>0, <2>2, <3>1, AdmitCounts
    <3>2. CASE d = e
      <4>1. InFlight(d) < MaxConcurrency
        BY <2>0, <2>2, <3>2, NewIsIdle DEF Admits
      <4> QED BY <2>0, <2>2, <3>2, <4>1, AdmitCounts
    <3> QED BY <3>1, <3>2
  <2>3. ASSUME NEW c \in Calls, Offer(c) \/ Place(c)
        PROVE  OnlyLess \/ \E e \in Instances :
                             Admit(c, e) /\ (Admits(e) \/ IsNext(e))
    <3>0. drivers \subseteq Instances
      BY DEF TypeOK
    <3>1. CASE Offer(c)
      BY <3>0, <3>1, OfferCases DEF OnlyLess
    <3>2. CASE Place(c)
      BY <3>0, <3>2, PlaceCases DEF OnlyLess
    <3> QED BY <2>3, <3>1, <3>2
  <2> QED BY <2>1, <2>2, <2>3, QuietOnlyLess, NextIs
<1> QED BY <1>1, TypedStep, TypedPrime

\* The lock is taken only when it is free, and given up by its holder.
LEMMA LockStep ==
  ASSUME TypeOK, LockExclusive, Next
  PROVE  LockExclusive'
<1> USE DEF Goto
<1>0. pc \in [Calls -> {"new", "offer", "build", "place", "sample", "arm",
                        "reset", "end"}]
  BY DEF TypeOK
<1>1. ASSUME NEW c \in Calls, TryDispatch(c) \/ Install(c) PROVE LockExclusive'
  <2>1. Holders = {} /\ lock'
    BY <1>1 DEF LockExclusive, TryDispatch, Install
  <2>2. Holders' = {c}
    BY <1>0, <1>1, <2>1 DEF Holders, TryDispatch, Install
  <2> QED BY <2>1, <2>2 DEF LockExclusive
<1>2. ASSUME NEW c \in Calls, Offer(c) \/ Sample(c) PROVE LockExclusive'
  <2>1. Holders = {c}
    BY <1>2 DEF LockExclusive, Holders, Offer, Sample, ReleasePlaced
  <2>2. pc' \in {[pc EXCEPT ![c] = l] : l \in {"build", "arm", "end"}}
    BY <1>2, OfferCases DEF Sample, ReleasePlaced
  <2>3. Holders' = {}
    BY <1>0, <2>1, <2>2 DEF Holders
  <2> QED BY <2>3 DEF LockExclusive
<1>3. ASSUME NEW c \in Calls, Place(c) PROVE LockExclusive'
  <2>1. Holders' = Holders /\ lock' = lock
    BY <1>0, <1>3, PlaceCases DEF Holders
  <2> QED BY <2>1 DEF LockExclusive
<1>4. ASSUME NEW c \in Calls,
             TryDispatchClosed(c) \/ BuildFails(c) \/ Arm(c) \/ Spawn(c)
      PROVE  LockExclusive'
  <2>1. Holders' = Holders /\ lock' = lock
    BY <1>0, <1>4 DEF Holders, TryDispatchClosed, BuildFails, Arm, Spawn, SpawnFrom
  <2> QED BY <2>1 DEF LockExclusive
<1>5. CASE UNCHANGED <<pc, lock>>
  BY <1>5 DEF LockExclusive, Holders
<1>6. ASSUME NEW c \in Calls,
             Tick(c) \/ TaskDropped(c) \/ SweepDisarm(c) \/ Return(c)
             \/ Sweep(c) \/ CallEnds(c) \/ CallFails(c)
      PROVE  UNCHANGED <<pc, lock>>
  BY <1>6 DEF Tick, TaskDropped, SweepDisarm, Return, SweepReturn, Sweep, SweepTo,
       CallEnds, CallFails
<1>7. CASE (\E d \in Instances : Trap(d) \/ Drained(d)) \/ Close
  BY <1>5, <1>7 DEF Trap, Drained, Close, InstanceEnds
<1> QED BY <1>1, <1>2, <1>3, <1>4, <1>5, <1>6, <1>7, NextIs DEF Quiet

\* A sweep task is spawned by a thread that has none, as its last step.
LEMMA SpawnsStep ==
  ASSUME TypeOK, SpawnsLast, Next
  PROVE  SpawnsLast'
<1> USE DEF Goto, SpawnsLast
<1>0. pc \in [Calls -> {"new", "offer", "build", "place", "sample", "arm",
                        "reset", "end"}]
      /\ task \in [Calls -> {"none", "armed", "awake", "disarmed", "ended",
                             "dropped"}]
  BY DEF TypeOK
<1>1. ASSUME NEW c \in Calls, pc[c] # "end", task' = task,
             NEW l, pc' = [pc EXCEPT ![c] = l]
      PROVE  SpawnsLast'
  BY <1>0, <1>1
<1>2. ASSUME NEW c \in Calls, Spawn(c) PROVE SpawnsLast'
  BY <1>0, <1>2 DEF Spawn, SpawnFrom
<1>3. ASSUME NEW c \in Calls, task[c] # "none", pc' = pc,
             NEW l, task' = [task EXCEPT ![c] = l]
      PROVE  SpawnsLast'
  BY <1>0, <1>3
<1>4. CASE UNCHANGED <<pc, task>>
  BY <1>4
<1>5. ASSUME NEW c \in Calls,
             TryDispatchClosed(c) \/ TryDispatch(c) \/ BuildFails(c) \/ Install(c)
             \/ Sample(c) \/ Arm(c)
      PROVE  SpawnsLast'
  BY <1>1, <1>5 DEF TryDispatchClosed, TryDispatch, BuildFails, Install, Sample,
       ReleasePlaced, Arm
<1>6. ASSUME NEW c \in Calls, Offer(c) \/ Place(c) PROVE SpawnsLast'
  BY <1>1, <1>6, OfferCases, PlaceCases
<1>7. ASSUME NEW c \in Calls,
             Tick(c) \/ TaskDropped(c) \/ SweepDisarm(c) \/ Return(c) \/ Sweep(c)
      PROVE  SpawnsLast'
  BY <1>3, <1>7 DEF Tick, TaskDropped, SweepDisarm, Return, SweepReturn, Sweep,
       SweepTo
<1>8. ASSUME NEW c \in Calls, CallEnds(c) \/ CallFails(c) PROVE SpawnsLast'
  BY <1>4, <1>8 DEF CallEnds, CallFails
<1>9. CASE (\E d \in Instances : Trap(d) \/ Drained(d)) \/ Close
  BY <1>4, <1>9 DEF Trap, Drained, Close, InstanceEnds
<1> QED BY <1>2, <1>5, <1>6, <1>7, <1>8, <1>9, NextIs DEF Quiet

\* A store goes only with its calls; a retired instance keeps its store.
LEMMA ServedStep ==
  ASSUME TypeOK, ServedByStore, Next
  PROVE  ServedByStore'
<1> USE DEF ServedByStore
<1>0. /\ on \in [Calls -> 0 .. MaxInstances] /\ 0 \notin Instances
      /\ state \in [Instances -> {"unbuilt", "live", "retired", "gone"}]
      /\ \A c \in Calls : on[c] # 0 => on[c] \in Instances
  BY PoolConstants DEF TypeOK, Instances
<1>1. CASE UNCHANGED <<on, state>>
  BY <1>1
<1>2. ASSUME NEW c \in Calls, NEW d \in Instances, Admit(c, d) PROVE ServedByStore'
  BY <1>0, <1>2 DEF Admit
<1>3. ASSUME NEW c \in Calls, Offer(c) \/ Place(c) PROVE ServedByStore'
  <2>1. drivers \subseteq Instances
    BY DEF TypeOK
  <2> QED BY <1>1, <1>2, <1>3, <2>1, OfferCases, PlaceCases
<1>4. ASSUME NEW c \in Calls,
             TryDispatchClosed(c) \/ TryDispatch(c) \/ BuildFails(c) \/ Install(c)
             \/ Sample(c) \/ Arm(c) \/ Spawn(c) \/ Tick(c) \/ TaskDropped(c)
             \/ SweepDisarm(c) \/ Return(c)
      PROVE  ServedByStore'
  BY <1>1, <1>4 DEF TryDispatchClosed, TryDispatch, BuildFails, Install, Sample,
       ReleasePlaced, Arm, Spawn, SpawnFrom, Tick, TaskDropped, SweepDisarm, Return,
       SweepReturn, OwnStore, inst
<1>5. ASSUME NEW c \in Calls, Sweep(c) PROVE ServedByStore'
  <2>1. on' = on /\ \A d \in Instances : state'[d] \in {"retired", state[d]}
    BY <1>5 DEF Sweep, SweepTo
  <2> QED BY <1>0, <2>1
<1>6. ASSUME NEW c \in Calls, CallEnds(c) \/ CallFails(c) PROVE ServedByStore'
  BY <1>0, <1>6 DEF CallEnds, CallFails, Leave
<1>7. ASSUME NEW ds, InstanceEnds(ds) PROVE ServedByStore'
  BY <1>0, <1>7 DEF InstanceEnds
<1>8. CASE (\E d \in Instances : Trap(d) \/ Drained(d)) \/ Close
  BY <1>7, <1>8 DEF Trap, Drained, Close
<1> QED BY <1>3, <1>4, <1>5, <1>6, <1>8, NextIs DEF Quiet

\* Room is checked under the lock that parks, and nothing else parks.
LEMMA PoolSizeStep ==
  ASSUME TypeOK, WithinPoolSize, Next
  PROVE  WithinPoolSize'
<1> USE DEF WithinPoolSize
<1>0. IsFiniteSet(drivers) /\ Cardinality(drivers) \in Nat /\ PoolSize \in Nat
  BY PoolFinite, PoolConstants DEF TypeOK
<1>1. CASE drivers' \subseteq drivers
  BY <1>0, <1>1, CountSub
<1>2. ASSUME NEW c \in Calls, Place(c) PROVE WithinPoolSize'
  <2>1. CASE drivers' = drivers
    BY <2>1
  <2>2. ASSUME NEW d, drivers' = drivers \cup {d}, Cardinality(drivers) < PoolSize
        PROVE  WithinPoolSize'
    <3>1. drivers' \subseteq drivers \cup {d}
      BY <2>2
    <3>2. Cardinality(drivers') \in Nat
          /\ Cardinality(drivers') =< Cardinality(drivers) + 1
      BY <1>0, <3>1, CountSubAdd
    <3> QED BY <1>0, <2>2, <3>2
  <2> QED BY <1>2, <2>1, <2>2, PlaceCases
<1>3. ASSUME NEW c \in Calls, Offer(c) PROVE WithinPoolSize'
  BY <1>1, <1>3, OfferCases
<1> QED BY <1>1, <1>2, <1>3, QuietOnlyLess, NextIs DEF OnlyLess

\* The closed flag is read again under the lock that parks.
LEMMA ClosedStep ==
  ASSUME TypeOK, ClosedStaysEmpty, Next
  PROVE  ClosedStaysEmpty'
<1> USE DEF ClosedStaysEmpty
<1>1. ASSUME NEW c \in Calls, Offer(c) \/ Place(c) PROVE ClosedStaysEmpty'
  BY <1>1, OfferCases, PlaceCases
<1>2. CASE Close
  BY <1>2 DEF Close
<1>3. CASE Quiet /\ ~Close
  <2>1. closed' = closed
    BY <1>3 DEF Quiet, TryDispatchClosed, TryDispatch, BuildFails, Install, Sample,
       ReleasePlaced, Arm, Spawn, SpawnFrom, Tick, TaskDropped, SweepDisarm, Return,
       SweepReturn, Sweep, SweepTo, CallEnds, CallFails, Trap, Drained, pool
  <2>2. drivers' \subseteq drivers
    BY <1>3, QuietOnlyLess DEF OnlyLess
  <2> QED BY <2>1, <2>2
<1> QED BY <1>1, <1>2, <1>3, NextIs


\* The peak is measured under the lock, with the offered call counted before
\* it is offered, and is reset only to what is in flight.
LEMMA PeakStep ==
  ASSUME TypeOK, LockExclusive, OfferCounted, PeakCovers, Next
  PROVE  OfferCounted' /\ PeakCovers'
<1> DEFINE total == InFlightTotal(drivers)
<1>0. total \in Nat /\ total' \in Nat /\ InFlightTotal(Reaped) \in Nat /\ peak \in Nat
  BY InFlightNat, PoolFinite DEF TypeOK, InFlightTotal
<1>01. pc \in [Calls -> {"new", "offer", "build", "place", "sample", "arm",
                         "reset", "end"}]
  BY DEF TypeOK
<1> HIDE DEF total
<1>1. ASSUME total' =< total, peak' = peak, lock => lock',
             \A x \in Calls : pc'[x] = "offer" => pc[x] = "offer"
      PROVE  OfferCounted' /\ PeakCovers'
  BY <1>0, <1>1 DEF OfferCounted, PeakCovers, total
<1>2. ASSUME NEW c \in Calls,
             TryDispatchClosed(c) \/ BuildFails(c) \/ Install(c) \/ Arm(c)
             \/ Tick(c) \/ TaskDropped(c) \/ Return(c)
      PROVE  OfferCounted' /\ PeakCovers'
  <2>1. total' =< total
    BY <1>2, QuietOnlyLess, OnlyLessCounts DEF Quiet, total
  <2>2. peak' = peak /\ (lock => lock')
    BY <1>2 DEF TryDispatchClosed, BuildFails, Install, Arm, Tick, TaskDropped,
         Return, SweepReturn, pool
  <2>3. \A x \in Calls : pc'[x] = "offer" => pc[x] = "offer"
    BY <1>01, <1>2 DEF TryDispatchClosed, BuildFails, Install, Arm, Tick,
         TaskDropped, Return, SweepReturn, Goto
  <2> QED BY <1>1, <2>1, <2>2, <2>3
<1>3. ASSUME \/ \E c \in Calls : CallEnds(c) \/ CallFails(c)
             \/ \E d \in Instances : Trap(d) \/ Drained(d)
             \/ Close
      PROVE  OfferCounted' /\ PeakCovers'
  <2>1. total' =< total
    BY <1>3, QuietOnlyLess, OnlyLessCounts DEF Quiet, total
  <2>2. peak' = peak /\ (lock => lock') /\ pc' = pc
    BY <1>3 DEF CallEnds, CallFails, Trap, Drained, Close, InstanceEnds, pool
  <2> QED BY <1>1, <2>1, <2>2
<1>4. ASSUME NEW c \in Calls, TryDispatch(c) PROVE OfferCounted' /\ PeakCovers'
  <2>1. total' = InFlightTotal(Reaped)
    BY <1>4 DEF TryDispatch, InFlightTotal, total
  <2>2. peak' >= total' + 1 /\ lock'
    BY <1>0, <1>4, <2>1 DEF TryDispatch, Larger
  <2> QED BY <2>2 DEF OfferCounted, PeakCovers, total
<1>5. ASSUME NEW c \in Calls, Sample(c) PROVE OfferCounted' /\ PeakCovers'
  <2>1. total' = total /\ peak' = Larger(peak, total)
    BY <1>5 DEF Sample, ReleasePlaced, InFlightTotal, total
  <2>2. peak' >= total' /\ peak' >= peak
    BY <1>0, <2>1 DEF Larger
  <2>3. \A x \in Calls : pc'[x] = "offer" => pc[x] = "offer"
    BY <1>01, <1>5 DEF Sample, ReleasePlaced, Goto
  <2>4. \A x \in Calls : pc[x] = "offer" => peak >= total + 1
    BY DEF OfferCounted, total
  <2>5. peak' \in Nat
    BY <1>0, <2>1 DEF Larger
  <2> QED BY <1>0, <2>1, <2>2, <2>3, <2>4, <2>5 DEF OfferCounted, PeakCovers, total
<1>6. ASSUME NEW c \in Calls, Spawn(c) \/ SweepDisarm(c) \/ Sweep(c)
      PROVE  OfferCounted' /\ PeakCovers'
  <2>1. Holders = {}
    BY <1>6 DEF LockExclusive, Spawn, SpawnFrom, SweepDisarm, Sweep, SweepTo
  <2>2. \A x \in Calls : pc'[x] # "offer"
    BY <1>01, <1>6, <2>1 DEF Spawn, SpawnFrom, SweepDisarm, Sweep, SweepTo, Goto,
         Holders
  <2>3. peak' >= total'
    <3>1. CASE Spawn(c)
      <4>1. total' = total /\ peak' = total
        BY <3>1 DEF Spawn, SpawnFrom, InFlightTotal, total
      <4> QED BY <1>0, <4>1
    <3>2. CASE SweepDisarm(c) \/ Sweep(c)
      <4>1. total' = InFlightTotal(Reaped)
        BY <3>2 DEF SweepDisarm, Sweep, SweepTo, InFlightTotal, total
      <4>2. peak' = InFlightTotal(Reaped)
        BY <3>2 DEF SweepDisarm, NothingToReclaim, Sweep, SweepTo
      <4> QED BY <1>0, <4>1, <4>2
    <3> QED BY <1>6, <3>1, <3>2
  <2> QED BY <2>2, <2>3 DEF OfferCounted, PeakCovers, total
<1>7. ASSUME NEW c \in Calls, Offer(c) \/ Place(c)
      PROVE  OfferCounted' /\ PeakCovers'
  <2>1. Holders = {c} /\ lock
    BY <1>7, OfferCases, PlaceCases DEF LockExclusive, Holders
  <2>2. \A x \in Calls : pc'[x] # "offer"
    BY <1>01, <1>7, <2>1, OfferCases, PlaceCases DEF Goto, Holders
  <2>3. CASE Place(c)
    BY <2>1, <2>2, <2>3, PlaceCases DEF OfferCounted, PeakCovers
  <2>4. CASE Offer(c)
    <3>1. peak >= total + 1 /\ peak' = peak /\ drivers' = drivers
      BY <2>4, OfferCases DEF OfferCounted, total
    <3>2. total' =< total + 1
      <4>1. CASE on' = on
        <5>1. total' = total
          BY <3>1, <4>1 DEF InFlightTotal, total
        <5> QED BY <1>0, <5>1
      <4>2. ASSUME NEW d \in drivers, Admit(c, d) PROVE total' =< total + 1
        <5>1. d \in Instances
          BY DEF TypeOK
        <5>2. Cardinality({x \in Calls : on'[x] \in drivers}) =< InFlightTotal(drivers) + 1
          BY <4>2, <5>1, AdmitCounts
        <5> QED BY <3>1, <5>2 DEF InFlightTotal, total
      <4> QED BY <2>4, <4>1, <4>2, OfferCases
    <3> QED BY <1>0, <2>2, <3>1, <3>2 DEF OfferCounted, PeakCovers, total
  <2> QED BY <1>7, <2>3, <2>4
<1> QED BY <1>2, <1>3, <1>4, <1>5, <1>6, <1>7, NextIs DEF Quiet

\* The bit is set by the thread that becomes its owner and cleared by its
\* owner: a disarmed task no longer owns it.
LEMMA SweeperStep ==
  ASSUME TypeOK, SpawnsLast, OneSweeper, Next
  PROVE  OneSweeper'
<1> USE DEF Goto
<1>0. /\ pc \in [Calls -> {"new", "offer", "build", "place", "sample", "arm",
                           "reset", "end"}]
      /\ task \in [Calls -> {"none", "armed", "awake", "disarmed", "ended",
                             "dropped"}]
  BY DEF TypeOK
<1>01. Owners \in SUBSET Calls /\ IsFiniteSet(Owners) /\ Cardinality(Owners) \in Nat
  BY PoolFinite DEF Owners
<1>1. CASE Owners' = Owners /\ sweeping' = sweeping
  BY <1>1 DEF OneSweeper
<1>2. ASSUME NEW c \in Owners, Owners' = Owners \ {c}, ~sweeping' PROVE OneSweeper'
  <2>1. Cardinality(Owners') = Cardinality(Owners) - 1
    BY <1>01, <1>2, FS_RemoveElement
  <2>2. Cardinality(Owners') \in Nat
    BY <1>01, <1>2, CountSub
  <2>3. Cardinality(Owners') = 0
    BY <1>01, <2>1, <2>2 DEF OneSweeper
  <2> QED BY <1>2, <2>3 DEF OneSweeper
<1>3. ASSUME NEW c \in Calls, Arm(c) PROVE OneSweeper'
  <2>1. c \notin Owners
    BY <1>3 DEF Owners, Arm, SpawnsLast
  <2>2. CASE sweeping
    <3>1. Owners' = Owners /\ sweeping'
      BY <1>0, <1>3, <2>1, <2>2 DEF Arm, Owners
    <3> QED BY <2>2, <3>1 DEF OneSweeper
  <2>3. CASE ~sweeping
    <3>1. Owners' = Owners \cup {c} /\ sweeping'
      BY <1>0, <1>3, <2>1, <2>3 DEF Arm, Owners
    <3>2. Cardinality(Owners') = 1
      BY <1>01, <2>1, <2>3, <3>1, FS_AddElement DEF OneSweeper
    <3> QED BY <3>1, <3>2 DEF OneSweeper
  <2> QED BY <2>2, <2>3
<1>4. ASSUME NEW c \in Calls, TaskDropped(c) \/ SweepDisarm(c) PROVE OneSweeper'
  <2>1. c \in Owners /\ ~sweeping'
    BY <1>4 DEF TaskDropped, SweepDisarm, Owners
  <2>2. Owners' = Owners \ {c}
    <3>1. pc[c] = "end" /\ pc' = pc
      BY <1>4 DEF TaskDropped, SweepDisarm, SpawnsLast
    <3> QED BY <1>0, <1>4, <3>1 DEF TaskDropped, SweepDisarm, Owners
  <2> QED BY <1>2, <2>1, <2>2
<1>5. ASSUME NEW c \in Calls, Tick(c) PROVE OneSweeper'
  <2>1. c \in Owners /\ pc[c] = "end" /\ pc' = pc
    BY <1>5 DEF Tick, Owners, SpawnsLast
  <2>2. CASE closed
    <3>1. ~sweeping'
      BY <1>5, <2>2 DEF Tick
    <3>2. Owners' = Owners \ {c}
      BY <1>0, <1>5, <2>1, <2>2 DEF Tick, Owners
    <3> QED BY <1>2, <2>1, <3>1, <3>2
  <2>3. CASE ~closed
    <3>1. sweeping' = sweeping
      BY <1>5, <2>3 DEF Tick, TypeOK
    <3>2. Owners' = Owners
      BY <1>0, <1>5, <2>1, <2>3 DEF Tick, Owners
    <3> QED BY <1>1, <3>1, <3>2
  <2> QED BY <2>2, <2>3
<1>6. ASSUME NEW c \in Calls, Spawn(c) \/ Return(c) \/ Sweep(c) PROVE OneSweeper'
  <2>1. Owners' = Owners /\ sweeping' = sweeping
    <3>1. CASE Spawn(c)
      BY <1>0, <3>1 DEF Spawn, SpawnFrom, Owners
    <3>2. CASE Return(c)
      BY <1>0, <3>2 DEF Return, SweepReturn, Owners
    <3>3. CASE Sweep(c)
      BY <1>0, <3>3 DEF Sweep, SweepTo, Owners
    <3> QED BY <1>6, <3>1, <3>2, <3>3
  <2> QED BY <1>1, <2>1
<1>7. ASSUME NEW c \in Calls, pc[c] # "reset", task' = task, sweeping' = sweeping,
             NEW l \in {"offer", "build", "place", "sample", "arm", "end"},
             Goto(c, l)
      PROVE  OneSweeper'
  <2>1. Owners' = Owners
    BY <1>0, <1>7 DEF Owners
  <2> QED BY <1>1, <1>7, <2>1
<1>8. ASSUME NEW c \in Calls,
             TryDispatchClosed(c) \/ TryDispatch(c) \/ BuildFails(c) \/ Install(c)
             \/ Sample(c)
      PROVE  OneSweeper'
  BY <1>7, <1>8 DEF TryDispatchClosed, TryDispatch, BuildFails, Install, Sample,
       ReleasePlaced
<1>9. ASSUME NEW c \in Calls, Offer(c) \/ Place(c) PROVE OneSweeper'
  BY <1>7, <1>9, OfferCases, PlaceCases
<1>10. ASSUME \/ \E c \in Calls : CallEnds(c) \/ CallFails(c)
              \/ \E d \in Instances : Trap(d) \/ Drained(d)
              \/ Close
       PROVE  OneSweeper'
  <2>1. UNCHANGED <<pc, task, sweeping>>
    BY <1>10 DEF CallEnds, CallFails, Trap, Drained, Close, InstanceEnds
  <2> QED BY <1>1, <2>1 DEF Owners
<1> QED BY <1>3, <1>4, <1>5, <1>6, <1>8, <1>9, <1>10, NextIs DEF Quiet

\* Every parking is followed by an arming, and the bit is given up only over
\* a pool with nothing to reclaim, a closed pool, or with a dropped task.
LEMMA SurplusStep ==
  ASSUME TypeOK, SpawnsLast, ClosedStaysEmpty, SurplusIsSwept, Next
  PROVE  SurplusIsSwept'
<1> USE DEF Goto
<1>0. /\ pc \in [Calls -> {"new", "offer", "build", "place", "sample", "arm",
                           "reset", "end"}]
      /\ task \in [Calls -> {"none", "armed", "awake", "disarmed", "ended",
                             "dropped"}]
      /\ Cardinality(drivers) \in Nat /\ MinInstances \in Nat
  BY PoolFinite, PoolConstants DEF TypeOK
<1>1. ASSUME NEW n, Cardinality(drivers') = n, n \in Nat, n =< MinInstances
      PROVE  SurplusIsSwept'
  BY <1>0, <1>1 DEF SurplusIsSwept
<1>2. CASE drivers' = {}
  BY <1>0, <1>1, <1>2, FS_EmptySet
<1>3. ASSUME OnlyLess, sweeping => sweeping', Dropped => Dropped',
             \A x \in Calls : pc[x] \in {"sample", "arm"} => pc'[x] \in {"sample", "arm"}
      PROVE  SurplusIsSwept'
  <2>1. Cardinality(drivers') =< Cardinality(drivers) /\ Cardinality(drivers') \in Nat
    BY <1>3, OnlyLessCounts, PoolFinite DEF OnlyLess, TypeOK
  <2>2. Cardinality(drivers') > MinInstances => Cardinality(drivers) > MinInstances
    BY <1>0, <2>1
  <2> QED BY <1>3, <2>2 DEF SurplusIsSwept
<1>4. ASSUME NEW c \in Calls, Place(c) PROVE SurplusIsSwept'
  <2>1. pc'[c] = "sample"
    BY <1>0, <1>4, PlaceCases
  <2> QED BY <2>1 DEF SurplusIsSwept
<1>5. ASSUME NEW c \in Calls, Sample(c) PROVE SurplusIsSwept'
  <2>1. CASE drivers = {}
    BY <1>2, <1>5, <2>1 DEF Sample, ReleasePlaced
  <2>2. CASE drivers # {}
    <3>1. pc'[c] = "arm"
      BY <1>0, <1>5, <2>2 DEF Sample, ReleasePlaced
    <3> QED BY <3>1 DEF SurplusIsSwept
  <2> QED BY <2>1, <2>2
<1>6. ASSUME NEW c \in Calls, Arm(c) PROVE SurplusIsSwept'
  <2>1. sweeping'
    BY <1>6 DEF Arm
  <2> QED BY <2>1 DEF SurplusIsSwept
<1>7. ASSUME NEW c \in Calls, TaskDropped(c) PROVE SurplusIsSwept'
  <2>1. Dropped'
    BY <1>0, <1>7 DEF TaskDropped, Dropped
  <2> QED BY <2>1 DEF SurplusIsSwept
<1>8. ASSUME NEW c \in Calls, SweepDisarm(c) PROVE SurplusIsSwept'
  <2>1. Cardinality(drivers') =< MinInstances
    BY <1>8 DEF SweepDisarm, NothingToReclaim
  <2>2. Cardinality(drivers') \in Nat
    BY <1>8, ReapedParked, PoolFinite DEF SweepDisarm, TypeOK
  <2> QED BY <1>1, <2>1, <2>2
<1>9. ASSUME NEW c \in Calls,
             TryDispatchClosed(c) \/ TryDispatch(c) \/ BuildFails(c) \/ Install(c)
             \/ Spawn(c) \/ Return(c) \/ Sweep(c)
      PROVE  SurplusIsSwept'
  <2>1. OnlyLess
    BY <1>9, QuietOnlyLess DEF Quiet
  <2>2. sweeping => sweeping'
    BY <1>9 DEF TryDispatchClosed, TryDispatch, BuildFails, Install, Spawn, SpawnFrom,
         Return, SweepReturn, Sweep, SweepTo
  <2>3. \A x \in Calls : pc[x] \in {"sample", "arm"} => pc'[x] \in {"sample", "arm"}
    BY <1>0, <1>9 DEF TryDispatchClosed, TryDispatch, BuildFails, Install, Spawn,
         SpawnFrom, Return, SweepReturn, Sweep, SweepTo
  <2>4. task' = task \/ (task[c] # "dropped" /\ \E l : task' = [task EXCEPT ![c] = l])
    BY <1>9 DEF TryDispatchClosed, TryDispatch, BuildFails, Install, Spawn,
         SpawnFrom, Return, SweepReturn, Sweep, SweepTo, SpawnsLast
  <2>5. Dropped => Dropped'
    BY <1>0, <2>4 DEF Dropped
  <2> QED BY <1>3, <2>1, <2>2, <2>3, <2>5
<1>10. ASSUME NEW c \in Calls, Tick(c) PROVE SurplusIsSwept'
  <2>1. CASE closed
    BY <1>2, <1>10, <2>1 DEF ClosedStaysEmpty, Tick, pool
  <2>2. CASE ~closed
    <3>1. OnlyLess /\ pc' = pc
      BY <1>10, QuietOnlyLess DEF Quiet, Tick
    <3>2. sweeping => sweeping'
      BY <1>10, <2>2 DEF Tick
    <3>3. Dropped => Dropped'
      BY <1>0, <1>10 DEF Tick, Dropped
    <3> QED BY <1>3, <3>1, <3>2, <3>3
  <2> QED BY <2>1, <2>2
<1>11. ASSUME \/ \E c \in Calls : CallEnds(c) \/ CallFails(c)
              \/ \E d \in Instances : Trap(d) \/ Drained(d)
              \/ Close
       PROVE  SurplusIsSwept'
  <2>1. OnlyLess
    BY <1>11, QuietOnlyLess DEF Quiet
  <2>2. UNCHANGED <<pc, task, sweeping>>
    BY <1>11 DEF CallEnds, CallFails, Trap, Drained, Close, InstanceEnds
  <2> QED BY <1>3, <2>1, <2>2 DEF Dropped
<1>12. ASSUME NEW c \in Calls, Offer(c) PROVE SurplusIsSwept'
  <2>1. drivers' = drivers /\ UNCHANGED <<sweeping, task>>
    BY <1>12, OfferCases
  <2>2. \A x \in Calls : pc[x] \in {"sample", "arm"} => pc'[x] \in {"sample", "arm"}
    BY <1>0, <1>12, OfferCases
  <2> QED BY <2>1, <2>2 DEF SurplusIsSwept, Dropped
<1> QED BY <1>4, <1>5, <1>6, <1>7, <1>8, <1>9, <1>10, <1>11, <1>12, NextIs DEF Quiet

-----------------------------------------------------------------------------
(* The theorems.                                                           *)

\* The inductive invariant of the pool holds in every reachable state.
THEOREM PoolInductive == Spec => []IndInv
<1>1. IndInv /\ [Next]_vars => IndInv'
  <2> SUFFICES ASSUME IndInv, [Next]_vars PROVE IndInv' OBVIOUS
  <2>1. CASE Next
    <3>1. TypeOK' /\ LockExclusive' /\ SpawnsLast' /\ ServedByStore'
      BY <2>1, TypeStep, LockStep, SpawnsStep, ServedStep DEF IndInv
    <3>2. OfferCounted' /\ PeakCovers' /\ WithinPoolSize' /\ ClosedStaysEmpty'
      BY <2>1, PeakStep, PoolSizeStep, ClosedStep DEF IndInv
    <3>3. OneSweeper' /\ SurplusIsSwept'
      BY <2>1, SweeperStep, SurplusStep DEF IndInv
    <3> QED BY <3>1, <3>2, <3>3 DEF IndInv
  <2>2. CASE UNCHANGED vars
    BY <2>2 DEF vars, pool, inst, IndInv, TypeOK, LockExclusive, SpawnsLast,
         ServedByStore, OfferCounted, PeakCovers, WithinPoolSize, ClosedStaysEmpty,
         OneSweeper, SurplusIsSwept, Owners, Holders, Dropped, InFlight, InFlightTotal
  <2> QED BY <2>1, <2>2
<1> QED BY <1>1, InitIndInv, PTL DEF Spec

\* Every reachable state of the pool is well typed: no instance serves more
\* calls than its concurrency.
THEOREM PoolTyped == Spec => []TypeOK
BY PoolInductive, PTL DEF IndInv

\* Callers told to build at the same time never park more than pool_size
\* instances between them.
THEOREM PoolBounded == Spec => []WithinPoolSize
BY PoolInductive, PTL DEF IndInv

\* No instance is parked into a closed pool, whenever its build began.
THEOREM PoolStaysClosed == Spec => []ClosedStaysEmpty
BY PoolInductive, PTL DEF IndInv

\* The armed bit has one owner while it is set and none while it is clear.
THEOREM PoolOneSweeper == Spec => []OneSweeper
BY PoolInductive, PTL DEF IndInv

\* A pool above its floor has a sweep armed or about to be armed.
THEOREM PoolSwept == Spec => []SurplusIsSwept
BY PoolInductive, PTL DEF IndInv

\* Outside the lock the measured peak covers the calls in flight.
THEOREM PoolPeak == Spec => []PeakCovers
BY PoolInductive, PTL DEF IndInv

=============================================================================
