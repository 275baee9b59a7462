----------------------------- MODULE Coalescer -----------------------------
(***************************************************************************)
(* Identical OCI requests folded into one (oci/coalescer.rs): the entry    *)
(* of one key in `in_flight`, the flights it named in turn, the callers    *)
(* that hold a flight's cell, and the finished success kept for reuse.     *)
(*                                                                         *)
(* A flight is a OnceCell; flights are numbered as they start and stand    *)
(* for the value they produce.  Time is what it decides: Expire ends a     *)
(* flight's join window, Evict the reuse of a result (by age or weight).   *)
(* Whether finished results may be reused is fixed by the key (oci.rs:     *)
(* the pull policy is part of it).  A caller is one call.                  *)
(***************************************************************************)
EXTENDS Integers, FiniteSets

CONSTANT Callers

ASSUME CallersFinite == IsFiniteSet(Callers)

VARIABLES
  reuse,     \* reuse_finished, for every call with this key
  started,   \* how many flights were started; they are 1 .. started
  entry,     \* the flight in_flight names for the key, 0 for none
  waiters,   \* InFlight.waiters of that entry
  finished,  \* the flight whose value `finished` holds, 0 for none
  result,    \* flights -> what their cell holds
  expired,   \* flights past their join window
  pc,        \* Callers -> where the call is
  cell,      \* Callers -> the flight whose cell its guard holds
  answer,    \* Callers -> the flight that answered it
  before     \* Callers -> the flights that had a result when it called

map == <<entry, waiters>>
vars == <<reuse, started, map, finished, result, expired, pc, cell, answer, before>>

Flights == 1 .. Cardinality(Callers)
Results == {"none", "ok", "err"}

TypeOK ==
  /\ reuse \in BOOLEAN
  /\ started \in 0 .. Cardinality(Callers)
  /\ entry \in 0 .. started /\ finished \in 0 .. started
  /\ waiters \in 0 .. Cardinality(Callers)
  /\ result \in [Flights -> Results]
  /\ expired \subseteq 1 .. started
  /\ pc \in [Callers -> {"idle", "waiting", "working", "booking", "leaving", "over"}]
  /\ cell \in [Callers -> 0 .. started]
  /\ answer \in [Callers -> 0 .. started]
  /\ before \in [Callers -> SUBSET Flights]

Init ==
  /\ reuse \in BOOLEAN
  /\ started = 0 /\ entry = 0 /\ waiters = 0 /\ finished = 0
  /\ result = [f \in Flights |-> "none"]
  /\ expired = {}
  /\ pc = [c \in Callers |-> "idle"]
  /\ cell = [c \in Callers |-> 0]
  /\ answer = [c \in Callers |-> 0]
  /\ before = [c \in Callers |-> {}]

Goto(c, l) == pc' = [pc EXCEPT ![c] = l]

Answered == {f \in Flights : result[f] # "none"}

-----------------------------------------------------------------------------
(* join_or_start, under the lock.                                          *)

Call(c) ==
  /\ pc[c] = "idle"
  /\ before' = [before EXCEPT ![c] = Answered]
  /\ UNCHANGED <<reuse, finished, result, expired>>

(* The guard of a reused value holds a cell of its own that is in no map. *)
ReuseFinished(c) ==
  /\ Call(c)
  /\ reuse /\ finished # 0
  /\ answer' = [answer EXCEPT ![c] = finished]
  /\ Goto(c, "over")
  /\ UNCHANGED <<started, map, cell>>

\* Mutant: a failed flight is joined until its leader has removed it.
JoinableFailed == entry # 0 /\ entry \notin expired

\* Mutant: a flight that just succeeded is joined by callers that may not reuse it.
JoinableDone == entry # 0 /\ entry \notin expired /\ result[entry] # "err"

(* The entry's cell always upgrades: a guard leaves the map before its Arc. *)
Joinable ==
  /\ entry # 0 /\ entry \notin expired
  /\ result[entry] # "err"
  /\ result[entry] = "ok" => reuse

Holds(c, f) == cell' = [cell EXCEPT ![c] = f] /\ Goto(c, "waiting")

Join(c) ==
  /\ Call(c)
  /\ ~(reuse /\ finished # 0) /\ Joinable
  /\ waiters' = waiters + 1
  /\ Holds(c, entry)
  /\ UNCHANGED <<started, entry, answer>>

(* The entry of an expired or answered flight is replaced. *)
Start(c) ==
  /\ Call(c)
  /\ ~(reuse /\ finished # 0) /\ ~Joinable
  /\ started' = started + 1
  /\ entry' = started + 1 /\ waiters' = 1
  /\ Holds(c, started + 1)
  /\ UNCHANGED answer

-----------------------------------------------------------------------------
(* run_with_reuse, with the guard held.                                    *)

(* get_or_init: one caller runs its work; the next takes over when the     *)
(* one before it is cancelled or panics.                                   *)
Work(c) ==
  /\ pc[c] = "waiting" /\ result[cell[c]] = "none"
  /\ \A d \in Callers : cell[d] = cell[c] => pc[d] # "working"
  /\ Goto(c, "working")
  /\ UNCHANGED <<reuse, started, map, finished, result, expired, cell, answer, before>>

(* The work returns; nothing is awaited from here on. *)
Finish(c) ==
  /\ pc[c] = "working"
  /\ \E r \in {"ok", "err"} : result' = [result EXCEPT ![cell[c]] = r]
  /\ answer' = [answer EXCEPT ![c] = cell[c]]
  /\ Goto(c, "booking")
  /\ UNCHANGED <<reuse, started, map, finished, expired, cell, before>>

Publish(c) ==
  finished' = IF reuse /\ result[cell[c]] = "ok" THEN cell[c] ELSE finished

Booked(c) ==
  /\ pc[c] = "booking"
  /\ Goto(c, "leaving")
  /\ UNCHANGED <<reuse, started, result, expired, cell, answer, before>>

\* Mutant: the leader publishes without asking whose entry it finds.
BookAlways(c) ==
  /\ Booked(c)
  /\ entry' = 0 /\ waiters' = 0 /\ Publish(c)

Book(c) ==
  /\ Booked(c)
  /\ IF entry = cell[c]
       THEN entry' = 0 /\ waiters' = 0 /\ Publish(c)
       ELSE UNCHANGED <<map, finished>>

\* Mutant: a waiter finds its flight through the map rather than by its cell.
WakeByEntry(c) ==
  /\ pc[c] = "waiting" /\ result[cell[c]] # "none" /\ entry = cell[c]
  /\ answer' = [answer EXCEPT ![c] = cell[c]]
  /\ Goto(c, "leaving")
  /\ UNCHANGED <<reuse, started, map, finished, result, expired, cell, before>>

(* A caller that waited takes the result. *)
Wake(c) ==
  /\ pc[c] = "waiting" /\ result[cell[c]] # "none"
  /\ answer' = [answer EXCEPT ![c] = cell[c]]
  /\ Goto(c, "leaving")
  /\ UNCHANGED <<reuse, started, map, finished, result, expired, cell, before>>

(* The caller's deadline passes, its future is dropped, or the work panics: *)
(* the cell's turn goes to the next caller, then the guard is dropped.      *)
Cancel(c) ==
  /\ pc[c] \in {"waiting", "working"}
  /\ Goto(c, "leaving")
  /\ UNCHANGED <<reuse, started, map, finished, result, expired, cell, answer, before>>

Left(c) ==
  /\ pc[c] = "leaving"
  /\ Goto(c, "over")
  /\ cell' = [cell EXCEPT ![c] = 0]
  /\ UNCHANGED <<reuse, started, finished, result, expired, answer, before>>

\* Mutant: whoever leaves takes the flight with it.
LeaveRemoves(c) ==
  /\ Left(c)
  /\ IF entry = cell[c] THEN entry' = 0 /\ waiters' = 0 ELSE UNCHANGED map

(* InFlightGuard::drop. *)
Leave(c) ==
  /\ Left(c)
  /\ IF entry # cell[c] THEN UNCHANGED map
     ELSE IF waiters > 1 THEN waiters' = waiters - 1 /\ UNCHANGED entry
     ELSE entry' = 0 /\ waiters' = 0

-----------------------------------------------------------------------------
(* Time and space.                                                         *)

(* Flights start one after the other, so they expire in that order. *)
Expire(f) ==
  /\ f \in 1 .. started /\ expired = 1 .. f - 1
  /\ expired' = expired \cup {f}
  /\ UNCHANGED <<reuse, started, map, finished, result, pc, cell, answer, before>>

Evict ==
  /\ finished # 0
  /\ finished' = 0
  /\ UNCHANGED <<reuse, started, map, result, expired, pc, cell, answer, before>>

Next ==
  \/ \E c \in Callers :
       \/ ReuseFinished(c) \/ Join(c) \/ Start(c) \/ Work(c) \/ Finish(c)
       \/ Book(c) \/ Wake(c) \/ Cancel(c) \/ Leave(c)
  \/ \E f \in Flights : Expire(f)
  \/ Evict

Spec == Init /\ [][Next]_vars

(* Callers are scheduled, and work ends: a pull by its timeout, a helper   *)
(* lookup by DOCKER_HELPER_TIMEOUT.                                        *)
LiveSpec ==
  /\ Spec
  /\ \A c \in Callers :
       WF_vars(Work(c) \/ Finish(c) \/ Book(c) \/ Wake(c) \/ Leave(c))

-----------------------------------------------------------------------------
(* Properties.                                                             *)

(* "Count owners under the same lock as registration": the entry counts    *)
(* exactly the callers that hold its flight, so it neither outlives them   *)
(* nor is taken from under one.                                            *)
Holders(f) == {c \in Callers : cell[c] = f}

WaitersExact ==
  /\ entry # 0 => waiters = Cardinality(Holders(entry)) /\ waiters > 0
  /\ entry = 0 => waiters = 0

(* Coalescing is never lost: inside its join window, a flight whose work   *)
(* is still wanted is the one the key names, however its leaders were      *)
(* cancelled. So the same work runs twice only past the window.            *)
Wanted(f) == result[f] = "none" /\ \E c \in Holders(f) : pc[c] # "leaving"

StaysJoinable == \A f \in 1 .. started : Wanted(f) /\ f \notin expired => entry = f

(* "A failure answers only callers that joined while the work ran", and a  *)
(* caller that may not reuse finished results is answered only by one that *)
(* finished after it asked.                                                *)
AnswersFresh ==
  \A c \in Callers :
    answer[c] \in before[c] => reuse /\ result[answer[c]] = "ok"

(* The inductive invariant behind them. *)
Called == {c \in Callers : pc[c] # "idle"}

Consistent ==
  /\ entry \in {0, started}
  /\ started =< Cardinality(Called)
  /\ \A f \in Flights : f > started => result[f] = "none"
  /\ finished # 0 => reuse /\ result[finished] = "ok"
  /\ \A c \in Callers :
       /\ cell[c] = 0 <=> pc[c] \in {"idle", "over"}
       /\ before[c] \subseteq Answered
       /\ cell[c] \in before[c] => reuse /\ result[cell[c]] = "ok"
       /\ answer[c] # 0 => pc[c] # "idle" /\ result[answer[c]] # "none"
       /\ pc[c] = "booking" => result[cell[c]] # "none"
       /\ pc[c] = "working" => result[cell[c]] = "none"
  /\ \A c, d \in Callers :
       pc[c] = "working" /\ pc[d] = "working" /\ cell[c] = cell[d] => c = d

IndInv == TypeOK /\ Consistent /\ WaitersExact /\ StaysJoinable /\ AnswersFresh

(* "Do not overwrite its work with an older result": what is kept for      *)
(* reuse is only ever replaced by the flight that started last.            *)
NewestPublished == [][finished' \in {0, finished, started}]_vars

(* A caller returns although leaders before it are cancelled, panic or     *)
(* fail: its turn at the work comes, or the result does.                   *)
CallerReturns == \A c \in Callers : pc[c] = "waiting" ~> pc[c] = "over"

=============================================================================
