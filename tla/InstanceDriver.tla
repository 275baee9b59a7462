--------------------------- MODULE InstanceDriver ---------------------------
(***************************************************************************)
(* One warm instance that serves several calls at once                     *)
(* (engine/instance_driver.rs): admission in front of a bounded channel,   *)
(* the run loop that owns the store, and the retirement that lets the      *)
(* instance drain before its store is dropped.                             *)
(*                                                                         *)
(* Admission, the release of a call's slot and retirement are sequences of *)
(* separate atomic operations in the code, run by different threads, so    *)
(* each atomic operation is an action of its own here.                     *)
(***************************************************************************)
EXTENDS Integers, Sequences, FiniteSets

CONSTANTS
  Calls,           \* the calls offered to this instance
  MaxConcurrency,  \* calls it may have in flight, and the channel's capacity
  MaxInvocations,  \* its budget of calls; 0 is None, no limit
  PoolLock         \* are admissions serialised by the pool's lock?

ASSUME DriverConstants ==
  /\ IsFiniteSet(Calls)
  /\ MaxConcurrency \in Nat \ {0}
  /\ MaxInvocations \in Nat
  /\ PoolLock \in BOOLEAN

VARIABLES
  inFlight,  \* DriverState.in_flight
  retired,   \* DriverState.retired
  permit,    \* the permit DriverState.drained (a Notify) may hold
  admitted,  \* calls counted against MaxInvocations
  chan,      \* the calls in the channel, each with its InFlightGuard
  loop,      \* the instance's task: "run", "ended" (run loop over), "gone"
  why,       \* what ended the run loop
  handle,    \* does the pool still keep the InstanceDriver?
  pc,        \* Calls -> where the call, or the thread that owns it, is
  outcome,   \* Calls -> what became of it
  sweep      \* the pool's idle sweep: "no", or "load" between retire's steps

vars == <<inFlight, retired, permit, admitted, chan, loop, why, handle, pc,
          outcome, sweep>>

Admitting == {"checked", "claimed", "spent", "over", "send"}

At(S) == {c \in Calls : pc[c] \in S}

(* Calls whose InFlightGuard exists. *)
Holding == At({"claimed", "spent", "over", "send", "queued", "running",
               "release"})

TypeOK ==
  /\ inFlight \in 0 .. MaxConcurrency
  /\ retired \in BOOLEAN /\ permit \in BOOLEAN /\ handle \in BOOLEAN
  /\ admitted \in Nat
  /\ chan \in Seq(Calls)
  /\ loop \in {"run", "ended", "gone"}
  /\ why \in {"none", "drained", "closed", "fault"}
  /\ pc \in [Calls -> Admitting \cup
               {"new", "queued", "running", "release", "last", "end"}]
  /\ outcome \in [Calls -> {"none", "refused", "served", "failed", "lost"}]
  /\ sweep \in {"no", "load"}

Init ==
  /\ inFlight = 0
  /\ retired = FALSE
  /\ permit = FALSE
  /\ admitted = 0
  /\ chan = <<>>
  /\ loop = "run"
  /\ why = "none"
  /\ handle = TRUE
  /\ pc = [c \in Calls |-> "new"]
  /\ outcome = [c \in Calls |-> "none"]
  /\ sweep = "no"

Goto(c, l) == pc' = [pc EXCEPT ![c] = l]
Settle(c, o) == outcome' = [outcome EXCEPT ![c] = o]

-----------------------------------------------------------------------------
(* Admission: try_send and try_admit.                                      *)

(* Nobody else is in the middle of an admission, when the pool's lock is   *)
(* what callers come through.                                              *)
MayEnter ==
  \/ ~PoolLock
  \/ sweep = "no" /\ \A c \in Calls : pc[c] \notin Admitting

(* Whether a finished task has dropped the channel's receiver. *)
IsGone == loop = "gone"

Check(c) ==
  /\ pc[c] = "new" /\ handle /\ MayEnter
  /\ \/ Goto(c, "end") /\ Settle(c, "refused")  \* also: it lacks the export
     \/ ~retired /\ ~IsGone /\ Goto(c, "checked") /\ UNCHANGED outcome
  /\ UNCHANGED <<inFlight, retired, permit, admitted, chan, loop, why, handle,
                 sweep>>

ClaimIf(c, free) ==
  /\ pc[c] = "checked"
  /\ IF free
       THEN /\ inFlight' = inFlight + 1
            /\ Goto(c, IF MaxInvocations = 0 THEN "send" ELSE "claimed")
            /\ UNCHANGED outcome
       ELSE Goto(c, "end") /\ Settle(c, "refused") /\ UNCHANGED inFlight
  /\ UNCHANGED <<retired, permit, admitted, chan, loop, why, handle, sweep>>

\* Mutant: the bound on the slots is off by one.
ClaimOffByOne(c) == ClaimIf(c, inFlight =< MaxConcurrency)

Claim(c) == ClaimIf(c, inFlight < MaxConcurrency)

(* The compare-and-swap on the budget. *)
CountIf(c, left) ==
  /\ pc[c] = "claimed"
  /\ IF left
       THEN /\ admitted' = admitted + 1
            /\ Goto(c, IF admitted + 1 >= MaxInvocations THEN "spent"
                                                         ELSE "send")
       ELSE Goto(c, "over") /\ UNCHANGED admitted
  /\ UNCHANGED <<inFlight, retired, permit, chan, loop, why, handle, outcome,
                 sweep>>

\* Mutant: the budget is noted, and refused to nobody.
CountOnlyNotes(c) == CountIf(c, TRUE)

Count(c) == CountIf(c, admitted < MaxInvocations)

(* retire by a thread that holds a slot itself: its load cannot see zero. *)
RetireHolding ==
  /\ retired' = TRUE
  /\ permit' = (permit \/ inFlight = 0)

(* The call that spends the budget retires the instance and goes on. *)
Spend(c) ==
  /\ pc[c] = "spent"
  /\ RetireHolding
  /\ Goto(c, "send")
  /\ UNCHANGED <<inFlight, admitted, chan, loop, why, handle, outcome, sweep>>

(* A racing admission found the budget spent: retire, drop the guard. *)
OverBudget(c) ==
  /\ pc[c] = "over"
  /\ RetireHolding
  /\ Goto(c, "release") /\ Settle(c, "refused")
  /\ UNCHANGED <<inFlight, admitted, chan, loop, why, handle, sweep>>

\* Mutant: a send the channel refuses leaves its slot claimed.
SendLeaksGuard(c) ==
  /\ pc[c] = "send"
  /\ IF IsGone
       THEN Goto(c, "end") /\ Settle(c, "refused") /\ UNCHANGED chan
       ELSE chan' = Append(chan, c) /\ Goto(c, "queued") /\ UNCHANGED outcome
  /\ UNCHANGED <<inFlight, retired, permit, admitted, loop, why, handle, sweep>>

(* Sender::try_send: Full and Closed hand the job back and drop the guard. *)
Send(c) ==
  /\ pc[c] = "send"
  /\ IF IsGone \/ Len(chan) >= MaxConcurrency
       THEN Goto(c, "release") /\ Settle(c, "refused") /\ UNCHANGED chan
       ELSE chan' = Append(chan, c) /\ Goto(c, "queued") /\ UNCHANGED outcome
  /\ UNCHANGED <<inFlight, retired, permit, admitted, loop, why, handle, sweep>>

-----------------------------------------------------------------------------
(* The end of a call: its task answers, then drops its InFlightGuard.  A   *)
(* job the store refuses to spawn is dropped with its guard: for the       *)
(* counters that is a call that ended.                                     *)

Finish(c) ==
  /\ pc[c] = "running" /\ loop = "run"
  /\ Goto(c, "release") /\ Settle(c, "served")
  /\ UNCHANGED <<inFlight, retired, permit, admitted, chan, loop, why, handle,
                 sweep>>

(* A timeout or a failure in the host: PoolSlot::retire_instance. *)
FailInHost(c) ==
  /\ pc[c] = "running" /\ loop = "run"
  /\ RetireHolding
  /\ Goto(c, "release") /\ Settle(c, "failed")
  /\ UNCHANGED <<inFlight, admitted, chan, loop, why, handle, sweep>>

(* InFlightGuard::drop, its fetch_sub. *)
Release(c) ==
  /\ pc[c] = "release"
  /\ inFlight' = inFlight - 1
  /\ Goto(c, IF inFlight = 1 THEN "last" ELSE "end")
  /\ UNCHANGED <<retired, permit, admitted, chan, loop, why, handle, outcome,
                 sweep>>

LastOutSignal(c, signal) ==
  /\ pc[c] = "last"
  /\ permit' = (permit \/ signal)
  /\ Goto(c, "end")
  /\ UNCHANGED <<inFlight, retired, admitted, chan, loop, why, handle, outcome,
                 sweep>>

\* Mutant: the signal is left to the pool's next dispatch.
LastOutSilent(c) == LastOutSignal(c, FALSE)

(* InFlightGuard::drop, the last call's load of `retired`. *)
LastOut(c) == LastOutSignal(c, retired)

-----------------------------------------------------------------------------
(* The sweep's InstanceDriver::retire: a store, then a load.               *)

SweepRetire ==
  /\ sweep = "no" /\ handle /\ ~retired /\ inFlight = 0
  /\ MayEnter
  /\ retired' = TRUE /\ sweep' = "load"
  /\ UNCHANGED <<inFlight, permit, admitted, chan, loop, why, handle, pc,
                 outcome>>

SweepSignalIf(signal) ==
  /\ sweep = "load"
  /\ permit' = (permit \/ signal)
  /\ sweep' = "no"
  /\ UNCHANGED <<inFlight, retired, admitted, chan, loop, why, handle, pc,
                 outcome>>

\* Mutant: retire leaves the signal to a call that may never come.
SweepSignalForgotten == SweepSignalIf(FALSE)

SweepSignal == SweepSignalIf(inFlight = 0)

(* The pool drops its handle, by a reap or because it was closed. *)
DropHandle ==
  /\ handle /\ sweep = "no"
  /\ \A c \in Calls : pc[c] \notin Admitting
  /\ handle' = FALSE
  /\ UNCHANGED <<inFlight, retired, permit, admitted, chan, loop, why, pc,
                 outcome, sweep>>

-----------------------------------------------------------------------------
(* The instance's task.                                                    *)

Receive ==
  /\ loop = "run" /\ chan # <<>>
  /\ chan' = Tail(chan)
  /\ Goto(Head(chan), "running")
  /\ UNCHANGED <<inFlight, retired, permit, admitted, loop, why, handle,
                 outcome, sweep>>

EndLoop(reason) ==
  /\ loop = "run"
  /\ loop' = "ended" /\ why' = reason
  /\ UNCHANGED <<inFlight, retired, admitted, chan, handle, pc, outcome, sweep>>

(* The select arm of `drained`. *)
Drained == permit /\ permit' = FALSE /\ EndLoop("drained")

\* Mutant: a closed channel ends only a retired instance.
ChannelClosedIfRetired ==
  ~handle /\ chan = <<>> /\ retired /\ EndLoop("closed") /\ UNCHANGED permit

(* The channel's sender is dropped and the channel empty. *)
ChannelClosed == ~handle /\ chan = <<>> /\ EndLoop("closed") /\ UNCHANGED permit

(* A guest trap, or the epoch callback's, while some call runs. *)
Trap ==
  /\ \E c \in Calls : pc[c] = "running"
  /\ EndLoop("fault") /\ UNCHANGED permit

(* The task drops its store and its receiver: every call still on the      *)
(* instance or in the channel ends there.                                  *)
Teardown ==
  /\ loop = "ended"
  /\ loop' = "gone"
  /\ chan' = <<>>
  /\ LET on == {c \in Calls : pc[c] \in {"queued", "running"}}
     IN  /\ pc' = [c \in Calls |-> IF c \in on THEN "release" ELSE pc[c]]
         /\ outcome' = [c \in Calls |-> IF c \in on THEN "lost" ELSE outcome[c]]
  /\ UNCHANGED <<inFlight, retired, permit, admitted, why, handle, sweep>>

CallStep(c) ==
  \/ Check(c) \/ Claim(c) \/ Count(c) \/ Spend(c) \/ OverBudget(c) \/ Send(c)
  \/ Finish(c) \/ FailInHost(c) \/ Release(c) \/ LastOut(c)

Next ==
  \/ \E c \in Calls : CallStep(c)
  \/ SweepRetire \/ SweepSignal \/ DropHandle
  \/ Receive \/ Drained \/ ChannelClosed \/ Trap \/ Teardown

Spec == Init /\ [][Next]_vars

(* Threads inside an admission, a release or the sweep keep going; the     *)
(* task polls its select; every call ends, at the latest by its timeout.   *)
LiveSpec ==
  /\ Spec
  /\ \A c \in Calls :
       /\ WF_vars(Claim(c) \/ Count(c) \/ Spend(c) \/ OverBudget(c) \/ Send(c))
       /\ WF_vars(Finish(c) \/ FailInHost(c))
       /\ WF_vars(Release(c) \/ LastOut(c))
  /\ WF_vars(SweepSignal)
  /\ WF_vars(Receive) /\ WF_vars(Drained) /\ WF_vars(ChannelClosed)
  /\ WF_vars(Teardown)

-----------------------------------------------------------------------------
(* Properties.                                                             *)

(* `in_flight` counts exactly the calls that hold a guard, through every   *)
(* path that ends one: a refused send, a timeout, a trap, a dropped store. *)
SlotsAccounted == inFlight = Cardinality(Holding)

(* "Capacity equals max_concurrency and admission already claimed a slot,  *)
(* so this only fails if the driver task has gone": a call about to be     *)
(* sent always finds room in the channel.                                  *)
ChannelHasRoom ==
  \A c \in Calls : pc[c] = "send" => Len(chan) < MaxConcurrency

(* "try_update is what keeps the budget exact under that race": however    *)
(* many callers race, no more than MaxInvocations calls are ever sent.     *)
Counted ==
  {c \in Calls : \/ pc[c] \in {"spent", "send", "queued", "running"}
                 \/ outcome[c] \in {"served", "failed", "lost"}}

BudgetExact == MaxInvocations # 0 => Cardinality(Counted) =< MaxInvocations

(* No lost wake-up: a retired instance with nothing in flight has its run  *)
(* loop's permit, or some thread is still on its way to give it.           *)
DrainSignalled ==
  retired /\ inFlight = 0 /\ loop = "run" =>
    permit \/ sweep = "load" \/ \E c \in Calls : pc[c] = "last"

(* A retired instance ends its own run loop and drops its store, without   *)
(* waiting for the pool to notice; and so does one whose handle the pool   *)
(* dropped.                                                                *)
RetiredEnds == (retired \/ ~handle) ~> (loop = "gone")

(* retire_instance "stops admissions and drops the store after active      *)
(* calls drain": a drain ends no call the instance had taken.              *)
DrainsWhatItTook ==
  why = "drained" => \A c \in Calls : outcome[c] # "lost"

(* The inductive invariant: the channel holds each queued call once, and   *)
(* the budget's counter has counted every call that was sent.              *)
QueueMatches ==
  /\ \A i \in 1 .. Len(chan) : pc[chan[i]] = "queued"
  /\ \A i, j \in 1 .. Len(chan) : chan[i] = chan[j] => i = j
  /\ Len(chan) = Cardinality(At({"queued"}))

BudgetCounts ==
  MaxInvocations # 0 =>
    Cardinality(Counted) =< admitted /\ admitted =< MaxInvocations

IndInv ==
  TypeOK /\ SlotsAccounted /\ QueueMatches /\ BudgetCounts /\ DrainSignalled

=============================================================================
