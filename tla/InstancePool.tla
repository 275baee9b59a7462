---------------------------- MODULE InstancePool ----------------------------
(***************************************************************************)
(* The warm instances of one component (engine/instance_pool.rs): calls    *)
(* are offered to the parked instances, a caller that finds them busy      *)
(* builds one more outside the pool's lock, and a sweep task gives back    *)
(* what the pool's recent peak did not need.                               *)
(*                                                                         *)
(* Everything under the pool's lock is serialised by `lock`; calls end,    *)
(* fail and trap on other threads while it is held.  An instance's own     *)
(* admission and drain are InstanceDriver.tla; here an admission is one    *)
(* step and a drained instance simply ends.                                *)
(***************************************************************************)
EXTENDS Integers, FiniteSets

CONSTANTS
  Calls,           \* calls, each made by a thread of its own
  MaxInstances,    \* bound on the instances a behaviour parks
  PoolSize, MaxConcurrency,
  MaxInvocations,  \* 0 is None
  MinInstances,    \* ReclaimPolicy.min_instances
  RuntimeStops     \* may the sweep's task be dropped with its runtime?

ASSUME PoolConstants ==
  /\ IsFiniteSet(Calls)
  /\ MaxInstances \in Nat \ {0}
  /\ PoolSize \in Nat \ {0} /\ MaxConcurrency \in Nat \ {0}
  /\ MaxInvocations \in Nat
  /\ MinInstances \in 0 .. PoolSize - 1
  /\ RuntimeStops \in BOOLEAN

(* Instances are numbered in the order they are parked. *)
Instances == 1 .. MaxInstances

VARIABLES
  drivers,   \* PoolState.drivers
  peak,      \* PoolState.peak_in_flight
  closed,    \* PoolState.closed
  lock,      \* is the pool's lock held across a step?
  sweeping,  \* InstancePool.sweeping
  admitted,  \* Instances -> calls it ever admitted
  state,     \* Instances -> "unbuilt", "live", "retired", "gone"
  pc,        \* Calls -> where the calling thread is
  on,        \* Calls -> the instance that is serving it, or 0
  task       \* Calls -> the sweep task that thread spawned

pool == <<drivers, peak, closed>>
inst == <<admitted, state>>
vars == <<pool, lock, sweeping, inst, pc, on, task>>

(* A guard is held for every call an instance serves and for no other      *)
(* (SlotsAccounted in InstanceDriver.tla), so in_flight counts those calls. *)
InFlight(d) == Cardinality({c \in Calls : on[c] = d})
InFlightTotal(ds) == Cardinality({c \in Calls : on[c] \in ds})

TypeOK ==
  /\ drivers \subseteq Instances
  /\ peak \in Nat
  /\ {closed, lock, sweeping} \subseteq BOOLEAN
  /\ admitted \in [Instances -> Nat]
  /\ state \in [Instances -> {"unbuilt", "live", "retired", "gone"}]
  /\ pc \in [Calls -> {"new", "offer", "build", "place", "sample", "arm",
                       "reset", "end"}]
  /\ on \in [Calls -> 0 .. MaxInstances]
  /\ \A d \in Instances : InFlight(d) =< MaxConcurrency
  /\ task \in [Calls -> {"none", "armed", "awake", "disarmed", "ended",
                         "dropped"}]

Init ==
  /\ drivers = {} /\ peak = 0 /\ closed = FALSE
  /\ lock = FALSE /\ sweeping = FALSE
  /\ admitted = [d \in Instances |-> 0]
  /\ state = [d \in Instances |-> "unbuilt"]
  /\ pc = [c \in Calls |-> "new"]
  /\ on = [c \in Calls |-> 0]
  /\ task = [c \in Calls |-> "none"]

Goto(c, l) == pc' = [pc EXCEPT ![c] = l]
Larger(a, b) == IF a >= b THEN a ELSE b
Smaller(a, b) == IF a =< b THEN a ELSE b

(* What reap keeps: gone handles and drained retired ones are dropped. *)
Reaped ==
  {d \in drivers : /\ state[d] # "gone"
                   /\ state[d] = "retired" => InFlight(d) > 0}

\* Mutant: one call more than max_concurrency.
AdmitsOneMore(d) == state[d] = "live" /\ InFlight(d) =< MaxConcurrency

(* try_admit on one instance. *)
Admits(d) == state[d] = "live" /\ InFlight(d) < MaxConcurrency

Admit(c, d) ==
  /\ admitted' = [admitted EXCEPT ![d] = @ + 1]
  /\ state' = [state EXCEPT ![d] =
       IF MaxInvocations # 0 /\ admitted[d] + 1 >= MaxInvocations
         THEN "retired" ELSE "live"]
  /\ on' = [on EXCEPT ![c] = d]

(* The caller runs the call in a store of its own, outside the pool. *)
OwnStore == UNCHANGED <<inst, on>>

-----------------------------------------------------------------------------
(* try_dispatch: under the lock, reap and sample the peak, then offer.     *)

TryDispatchClosed(c) ==
  /\ pc[c] = "new" /\ ~lock /\ closed
  /\ Goto(c, "end") /\ OwnStore
  /\ UNCHANGED <<pool, lock, sweeping, task>>

TryDispatch(c) ==
  /\ pc[c] = "new" /\ ~lock /\ ~closed
  /\ lock' = TRUE
  /\ drivers' = Reaped
  /\ peak' = Larger(peak, InFlightTotal(Reaped) + 1)
  /\ Goto(c, "offer")
  /\ UNCHANGED <<closed, sweeping, inst, on, task>>

LeastBusy(ds) == {d \in ds : \A e \in ds : InFlight(d) =< InFlight(e)}

Offer(c) ==
  /\ pc[c] = "offer"
  /\ lock' = FALSE
  /\ LET takers == {d \in drivers : Admits(d)}
     IN  \/ /\ \E d \in LeastBusy(takers) : Admit(c, d)
            /\ Goto(c, "end")
         \/ /\ takers = {}
            /\ IF Cardinality(drivers) < PoolSize
                 THEN Goto(c, "build") /\ UNCHANGED <<inst, on>>
                 ELSE Goto(c, "end") /\ OwnStore
  /\ UNCHANGED <<pool, sweeping, task>>

(* offer_or_install: the store would not build. *)
BuildFails(c) ==
  /\ pc[c] = "build"
  /\ Goto(c, "end")
  /\ UNCHANGED <<pool, lock, sweeping, inst, on, task>>

-----------------------------------------------------------------------------
(* dispatch_on_new.                                                        *)

Install(c) ==
  /\ pc[c] = "build" /\ ~lock
  /\ lock' = TRUE
  /\ drivers' = Reaped
  /\ Goto(c, "place")
  /\ UNCHANGED <<peak, closed, sweeping, inst, on, task>>

IsNext(d) ==
  state[d] = "unbuilt" /\ \A e \in Instances : e < d => state[e] # "unbuilt"

(* A parked instance takes the call and the new one is dropped, or the new *)
(* one is parked with it, or the call comes back with its instance.        *)
PlaceIn(c, shut, room) ==
  /\ pc[c] = "place"
  /\ LET takers == {d \in drivers : Admits(d)}
     IN  \/ /\ shut
            /\ OwnStore /\ UNCHANGED drivers
         \/ /\ ~shut
            /\ \E d \in takers : Admit(c, d)
            /\ UNCHANGED drivers
         \/ /\ ~shut /\ takers = {}  \* no room, or it lacks the export
            /\ OwnStore /\ UNCHANGED drivers
         \/ /\ ~shut /\ takers = {} /\ room
            /\ \E d \in Instances :
                 /\ IsNext(d)
                 /\ drivers' = drivers \cup {d}
                 /\ Admit(c, d)
  /\ Goto(c, "sample")
  /\ UNCHANGED <<peak, closed, lock, sweeping, task>>

\* Mutant: the closed flag is not read again after the build.
PlaceAfterClose(c) == PlaceIn(c, FALSE, Cardinality(drivers) < PoolSize)

\* Mutant: the room found before the build is taken for granted.
PlaceUnchecked(c) == PlaceIn(c, closed, TRUE)

Place(c) == PlaceIn(c, closed, Cardinality(drivers) < PoolSize)

ReleasePlaced(c, seen, arm) ==
  /\ pc[c] = "sample"
  /\ lock' = FALSE
  /\ peak' = Larger(peak, seen)
  /\ Goto(c, IF arm THEN "arm" ELSE "end")
  /\ UNCHANGED <<drivers, closed, sweeping, inst, on, task>>

\* Mutant: only the first instance of a pool arms the sweep.
SampleArmsFirst(c) ==
  ReleasePlaced(c, InFlightTotal(drivers), Cardinality(drivers) = 1)

Sample(c) == ReleasePlaced(c, InFlightTotal(drivers), drivers # {})

-----------------------------------------------------------------------------
(* start_sweeping, in the thread that placed the call.                     *)

(* The load and the swap of the armed bit. *)
Arm(c) ==
  /\ pc[c] = "arm"
  /\ sweeping' = TRUE
  /\ Goto(c, IF sweeping THEN "end" ELSE "reset")
  /\ UNCHANGED <<pool, lock, inst, on, task>>

SpawnFrom(c, start) ==
  /\ pc[c] = "reset" /\ ~lock
  /\ peak' = start
  /\ task' = [task EXCEPT ![c] = "armed"]
  /\ Goto(c, "end")
  /\ UNCHANGED <<drivers, closed, lock, sweeping, inst, on>>

\* Mutant: the first window starts from zero.
SpawnFromZero(c) == SpawnFrom(c, 0)

(* The first window starts from the work in flight now; the task is spawned. *)
Spawn(c) == SpawnFrom(c, InFlightTotal(drivers))

(* A window passed; is_closed under the lock. A SweepOwner that still owns *)
(* the armed bit clears it.                                                *)
Tick(c) ==
  /\ task[c] = "armed" /\ ~lock
  /\ task' = [task EXCEPT ![c] = IF closed THEN "ended" ELSE "awake"]
  /\ sweeping' = (sweeping /\ ~closed)
  /\ UNCHANGED <<pool, lock, inst, pc, on>>

(* The runtime drops the task, and its SweepOwner gives the bit back. *)
TaskDropped(c) ==
  /\ RuntimeStops
  /\ task[c] = "armed" /\ ~lock
  /\ task' = [task EXCEPT ![c] = "dropped"]
  /\ sweeping' = FALSE
  /\ UNCHANGED <<pool, lock, inst, pc, on>>

\* Mutant: an idle pool counts as swept, whatever it still holds.
IdleIsEnough(ds) == InFlightTotal(ds) = 0

(* sweep, with nothing left that a later sweep could retire. *)
NothingToReclaim(ds) ==
  /\ InFlightTotal(ds) = 0
  /\ Cardinality(ds) =< MinInstances
  /\ \A d \in ds : state[d] # "retired"

SweepDisarm(c) ==
  /\ task[c] = "awake" /\ ~lock
  /\ NothingToReclaim(Reaped)
  /\ drivers' = Reaped /\ peak' = 0
  /\ sweeping' = FALSE
  /\ task' = [task EXCEPT ![c] = "disarmed"]
  /\ UNCHANGED <<closed, lock, inst, pc, on>>

SweepReturn(c, bit) ==
  /\ task[c] = "disarmed" /\ ~lock
  /\ task' = [task EXCEPT ![c] = "ended"]
  /\ sweeping' = bit
  /\ UNCHANGED <<pool, lock, inst, pc, on>>

\* Mutant: the owner that swept last clears a bit that is another's by now.
ReturnClearsBit(c) == SweepReturn(c, FALSE)

(* The task's SweepOwner was disarmed, so its drop leaves the bit alone. *)
Return(c) == SweepReturn(c, sweeping)

CeilDiv(a, b) == (a + b - 1) \div b

Needed(p) == Larger(Smaller(CeilDiv(p, MaxConcurrency), PoolSize), MinInstances)

(* sweep retires up to `surplus` idle instances, all under the lock: calls *)
(* only end meanwhile, so an instance seen idle stays idle.                *)
SweepTo(c, idle) ==
  /\ task[c] = "awake" /\ ~lock
  /\ ~NothingToReclaim(Reaped)
  /\ drivers' = Reaped
  /\ peak' = InFlightTotal(Reaped)
  /\ LET live == {d \in Reaped : state[d] = "live"}
         surplus == Larger(Cardinality(live) - Needed(peak), 0)
     IN  \E ds \in SUBSET (live \cap idle) :
           /\ Cardinality(ds) = Smaller(surplus, Cardinality(live \cap idle))
           /\ state' = [d \in Instances |-> IF d \in ds THEN "retired" ELSE state[d]]
  /\ task' = [task EXCEPT ![c] = "armed"]
  /\ UNCHANGED <<closed, lock, sweeping, admitted, pc, on>>

Sweep(c) == SweepTo(c, {d \in Instances : InFlight(d) = 0})

-----------------------------------------------------------------------------
(* Calls end and instances go away, on their own threads.                  *)

Leave(c) ==
  /\ on[c] # 0
  /\ on' = [on EXCEPT ![c] = 0]

CallEnds(c) ==
  /\ Leave(c)
  /\ UNCHANGED <<pool, lock, sweeping, admitted, state, pc, task>>

(* A timeout or a host error retires the instance. *)
CallFails(c) ==
  /\ Leave(c)
  /\ state' = [state EXCEPT ![on[c]] = IF @ = "live" THEN "retired" ELSE @]
  /\ UNCHANGED <<pool, lock, sweeping, admitted, pc, task>>

(* A store goes: its calls end with it. *)
InstanceEnds(ds) ==
  /\ state' = [d \in Instances |-> IF d \in ds THEN "gone" ELSE state[d]]
  /\ on' = [c \in Calls |-> IF on[c] \in ds THEN 0 ELSE on[c]]
  /\ UNCHANGED <<admitted, pc, task, sweeping>>

Trap(d) ==
  /\ state[d] \in {"live", "retired"} /\ InFlight(d) > 0
  /\ InstanceEnds({d})
  /\ UNCHANGED <<pool, lock>>

Drained(d) ==
  /\ state[d] = "retired" /\ InFlight(d) = 0
  /\ InstanceEnds({d})
  /\ UNCHANGED <<pool, lock>>

Close ==
  /\ ~lock /\ ~closed
  /\ closed' = TRUE
  /\ drivers' = {}
  /\ InstanceEnds(drivers)
  /\ UNCHANGED <<peak, lock>>

CallStep(c) ==
  \/ TryDispatchClosed(c) \/ TryDispatch(c) \/ Offer(c)
  \/ Install(c) \/ Place(c) \/ Sample(c) \/ Arm(c) \/ Spawn(c)

SweepStep(c) == Tick(c) \/ SweepDisarm(c) \/ Return(c) \/ Sweep(c)

Next ==
  \/ \E c \in Calls :
       \/ CallStep(c) \/ BuildFails(c) \/ SweepStep(c) \/ TaskDropped(c)
       \/ CallEnds(c) \/ CallFails(c)
  \/ \E d \in Instances : Trap(d) \/ Drained(d)
  \/ Close

Spec == Init /\ [][Next]_vars

LiveSpec ==
  /\ Spec
  /\ \A c \in Calls :
       /\ WF_vars(CallStep(c)) /\ WF_vars(SweepStep(c))
       /\ WF_vars(CallEnds(c) \/ CallFails(c))
  /\ \A d \in Instances : WF_vars(Drained(d))

-----------------------------------------------------------------------------
(* Properties.                                                             *)

(* However many callers were told to build, no more than pool_size         *)
(* instances are parked, draining ones included.                           *)
WithinPoolSize == Cardinality(drivers) =< PoolSize

(* "A closed pool stays closed": an instance that was being built when the *)
(* workload was let go is not parked into a pool nothing empties again.    *)
ClosedStaysEmpty == closed => drivers = {}

(* The armed bit has exactly one owner, a task or the thread about to      *)
(* spawn one, whatever way the previous owner ended.                       *)
Owners == {c \in Calls : pc[c] = "reset" \/ task[c] \in {"armed", "awake"}}

OneSweeper == Cardinality(Owners) = IF sweeping THEN 1 ELSE 0

(* An open pool that holds more than its floor has a sweep coming: the     *)
(* disarm under the lock cannot miss an instance parked around it. Only a  *)
(* task dropped with its runtime leaves a surplus to the next build.       *)
Dropped == \E c \in Calls : task[c] = "dropped"

SurplusIsSwept ==
  Cardinality(drivers) > MinInstances /\ ~Dropped =>
    sweeping \/ \E c \in Calls : pc[c] \in {"sample", "arm"}

(* The measured peak never falls below the calls the warm set holds, so a  *)
(* window of calls that outlive it does not read as idle.                  *)
PeakCovers == ~lock => peak >= InFlightTotal(drivers)

(* Once traffic stops, an open pool gives back all but its floor, and its  *)
(* timer stops too, unless the runtime that ran the timer is gone.         *)
QuietPoolShrinks ==
  <>[](closed \/ Dropped \/ (Cardinality(drivers) =< MinInstances /\ ~sweeping))

(* The inductive invariant of the safety properties above, in parts.       *)

(* The lock is held by the one thread that is between its acquisition and  *)
(* its release.                                                            *)
Holders == {c \in Calls : pc[c] \in {"offer", "place", "sample"}}

LockExclusive ==
  /\ Holders # {} => lock
  /\ \A c, d \in Holders : c = d

(* A thread spawns at most one sweep task, as the last thing it does.      *)
SpawnsLast == \A c \in Calls : pc[c] # "end" => task[c] = "none"

(* Calls are served by instances whose store is there.                     *)
ServedByStore ==
  \A c \in Calls : on[c] # 0 => state[on[c]] \in {"live", "retired"}

(* The peak sampled under the lock has room for the call that is offered.  *)
OfferCounted ==
  \A c \in Calls : pc[c] = "offer" => peak >= InFlightTotal(drivers) + 1

IndInv ==
  /\ TypeOK /\ LockExclusive /\ SpawnsLast /\ ServedByStore /\ OfferCounted
  /\ WithinPoolSize /\ ClosedStaysEmpty /\ OneSweeper
  /\ SurplusIsSwept /\ PeakCovers

=============================================================================
