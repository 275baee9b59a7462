---------------------------- MODULE ControlLoop ----------------------------
(***************************************************************************)
(* The washlet's control loop (washlet/mod.rs, spawn_control_loop): one    *)
(* task admits NATS commands into tasks of their own, a single publisher   *)
(* sends their replies, and a shutdown drains, aborts and waits for them   *)
(* before the host may stop.  A lease (host/mod.rs, acquire_control) keeps *)
(* a second loop off a host whose last one still has work running.         *)
(*                                                                         *)
(* What a command does to the host is WorkloadLifecycle.tla; here it runs, *)
(* ends, fails, panics or is cancelled.  The subscription is modelled from *)
(* how the loop uses it: messages may be taken in any order.               *)
(***************************************************************************)
EXTENDS Integers, Sequences, FiniteSets

CONSTANTS
  Starts, Stops, Queries, Heartbeats,  \* the commands callers may send
  MaxPendingStarts, MaxPendingQueries,
  MaxConcurrentStarts,                 \* permits of the starts semaphore
  MaxAttachments                       \* bound on the loops ever attached

ASSUME ControlConstants ==
  /\ \A S \in {Starts, Stops, Queries, Heartbeats} : IsFiniteSet(S)
  /\ {MaxPendingStarts, MaxPendingQueries, MaxConcurrentStarts,
      MaxAttachments} \subseteq Nat \ {0}

Cmds == Starts \cup Stops \cup Queries \cup Heartbeats
MaxPendingReplies == MaxPendingStarts + MaxPendingQueries

VARIABLES
  phase,      \* where the control loop is
  gen,        \* which attachment it is
  ended,      \* why it left its select loop
  failed,     \* what its shutdown has to report as unfinished
  stopHost,   \* the loop owns its host (ClusterHost) or is attached to one
  host,       \* "up", "stopped"
  lease,      \* strong references to the HostControlLease
  admits,     \* the `starts` semaphore is open
  cmd,        \* Cmds -> where the command is
  slot,       \* Cmds -> its slot: "start", "query" or "none"
  by,         \* Cmds -> the attachment that accepted it
  owed,       \* commands whose cleanup guard left a cleanup running
  replies,    \* the bounded reply queue
  publisher   \* "up", "gone"

loop == <<phase, gen, ended, failed>>
tasks == <<cmd, slot, by, owed>>
vars == <<loop, stopHost, host, lease, admits, tasks, replies, publisher>>

Phases == {"detached", "registering", "running", "unsubscribing", "draining",
           "unwinding", "recovering", "flushing", "stopping", "exited"}

(* A command's task exists. An aborted one is there until it is dropped:    *)
(* unwinding out of its operation, or, already handled, out of its reply.  *)
Running == {"waiting", "working", "handled"}
Aborted == {"unwinding", "dropping"}
Live == Running \cup Aborted

TypeOK ==
  /\ phase \in Phases
  /\ gen \in 0 .. MaxAttachments
  /\ ended \in {"none", "requested", "ingress", "panicked", "publisher", "closed"}
  /\ failed \subseteq {"aborted", "running", "panic", "cleanup", "io"}
  /\ stopHost \in BOOLEAN /\ host \in {"up", "stopped"}
  /\ lease \in 0 .. 1 + 2 * Cardinality(Cmds)
  /\ admits \in BOOLEAN
  /\ cmd \in [Cmds -> Live \cup {"unsent", "sent", "dropped", "shed", "panicked", "over"}]
  /\ slot \in [Cmds -> {"start", "query", "none"}]
  /\ by \in [Cmds -> 0 .. MaxAttachments]
  /\ owed \subseteq Starts \cup Stops
  /\ replies \in Seq(Cmds) /\ Len(replies) =< MaxPendingReplies
  /\ publisher \in {"up", "gone"}

Init ==
  /\ phase = "detached" /\ gen = 0 /\ ended = "none" /\ failed = {}
  /\ stopHost \in BOOLEAN
  /\ host = "up" /\ lease = 0 /\ admits = FALSE
  /\ cmd = [c \in Cmds |-> "unsent"]
  /\ slot = [c \in Cmds |-> "none"]
  /\ by = [c \in Cmds |-> 0]
  /\ owed = {}
  /\ replies = <<>> /\ publisher = "gone"

Become(c, s) == cmd' = [cmd EXCEPT ![c] = s]

-----------------------------------------------------------------------------
(* Attachment: acquire_control, then a subscription verified by a marker.  *)

Attach ==
  /\ phase \in {"detached", "exited"}
  /\ gen < MaxAttachments
  /\ host = "up" /\ lease = 0
  /\ phase' = "registering" /\ gen' = gen + 1
  /\ ended' = "none" /\ failed' = {}
  /\ lease' = 1
  /\ UNCHANGED <<host, admits, tasks, replies, publisher>>

Registered ==
  /\ phase = "registering"
  /\ phase' = "running"
  /\ admits' = TRUE /\ publisher' = "up" /\ replies' = <<>>
  /\ UNCHANGED <<gen, ended, failed, host, lease, tasks>>

(* The marker never came back: an owned host is stopped. *)
RegistrationFails ==
  /\ phase = "registering"
  /\ phase' = "exited"
  /\ host' = IF stopHost THEN "stopped" ELSE host
  /\ lease' = lease - 1
  /\ cmd' = [c \in Cmds |-> IF cmd[c] = "sent" THEN "over" ELSE cmd[c]]
  /\ UNCHANGED <<gen, ended, failed, admits, slot, by, owed, replies, publisher>>

\* Mutant: a stop is dropped like any other message past the bound.
KeptInRoom(c) ==
  phase = "running" \/ Cardinality({d \in Cmds : cmd[d] = "sent"}) < MaxPendingReplies

(* While registering, verify_subscription keeps a bounded number of        *)
(* messages and every stop.                                                *)
Kept(c) ==
  \/ phase = "running"
  \/ Cardinality({d \in Cmds : cmd[d] = "sent"}) < MaxPendingReplies
  \/ c \in Stops

Send(c) ==
  /\ cmd[c] = "unsent" /\ phase \in {"registering", "running"}
  /\ Become(c, IF Kept(c) THEN "sent" ELSE "dropped")
  /\ UNCHANGED <<loop, host, lease, admits, slot, by, owed, replies, publisher>>

-----------------------------------------------------------------------------
(* The select loop takes a command.                                        *)

SlotOf(c) == IF c \in Starts THEN "start" ELSE "query"
Capacity(k) == IF k = "start" THEN MaxPendingStarts ELSE MaxPendingQueries
Taken(k) == Cardinality({c \in Cmds : slot[c] = k})

(* A task is spawned with a clone of HostControlDefaults, lease included. *)
Spawn(c, k, ref) ==
  /\ Become(c, IF c \in Starts THEN "waiting" ELSE "working")
  /\ slot' = [slot EXCEPT ![c] = k]
  /\ by' = [by EXCEPT ![c] = gen]
  /\ lease' = lease + ref

\* Mutant: only a heartbeat runs without a slot.
UnslottedNoStop(c) == c \in Heartbeats

(* What is spawned without a slot when there is none. *)
Unslotted(c) == c \in Stops \cup Heartbeats

AcceptWith(c, ref) ==
  /\ phase = "running" /\ cmd[c] = "sent"
  /\ \/ Taken(SlotOf(c)) < Capacity(SlotOf(c)) /\ Spawn(c, SlotOf(c), ref)
     \/ /\ Taken(SlotOf(c)) >= Capacity(SlotOf(c))
        /\ IF Unslotted(c)
             THEN Spawn(c, "none", ref)
             ELSE Become(c, "shed") /\ UNCHANGED <<slot, by, lease>>
  /\ UNCHANGED <<loop, host, admits, owed, replies, publisher>>

\* Mutant: a command's task does not keep the lease alive.
AcceptUnleased(c) == AcceptWith(c, 0)

Accept(c) == AcceptWith(c, 1)

-----------------------------------------------------------------------------
(* A command's task.                                                       *)

Permits == Cardinality({c \in Starts : cmd[c] = "working"})

AcquirePermit(c) ==
  /\ cmd[c] = "waiting" /\ admits /\ Permits < MaxConcurrentStarts
  /\ Become(c, "working")
  /\ UNCHANGED <<loop, host, lease, admits, slot, by, owed, replies, publisher>>

(* The semaphore was closed: the start releases its id and says so. *)
StartRefused(c) ==
  /\ cmd[c] = "waiting" /\ ~admits
  /\ Become(c, "handled")
  /\ UNCHANGED <<loop, host, lease, admits, slot, by, owed, replies, publisher>>

(* A start or a stop works under a WorkloadCleanupGuard. Dropped while it  *)
(* is armed, because the operation failed, panicked or was cancelled, the  *)
(* guard leaves a cleanup, and the cleanup holds the lease.                *)
Guards(c) == IF c \in Starts \cup Stops THEN {{}, {c}} ELSE {{}}

Leave(left, ref) ==
  /\ owed' = owed \cup left
  /\ lease' = lease + Cardinality(left) - ref

(* handle_command returns the reply's bytes. *)
HandleWhen(c, turn) ==
  /\ cmd[c] = "working" /\ turn
  /\ Become(c, "handled")
  /\ \E left \in Guards(c) : Leave(left, 0)
  /\ UNCHANGED <<loop, host, admits, slot, by, replies, publisher>>

\* Mutant: a stop is handled only when no start is running.
HandleInTurn(c) == HandleWhen(c, c \in Starts \/ Permits = 0)

Handle(c) == HandleWhen(c, TRUE)

(* The task ends: its slot and its lease go with it. *)
EndTask(c, s, left) ==
  /\ Become(c, s)
  /\ slot' = [slot EXCEPT ![c] = "none"]
  /\ Leave(left, 1)
  /\ UNCHANGED <<loop, host, admits, by, publisher>>

(* A heartbeat that could not be built is not answered. *)
HandleFails(c) ==
  /\ c \in Heartbeats /\ cmd[c] = "working"
  /\ EndTask(c, "over", {}) /\ UNCHANGED replies

Panic(c) ==
  /\ cmd[c] = "working"
  /\ \E left \in Guards(c) : EndTask(c, "panicked", left)
  /\ UNCHANGED replies

\* Mutant: a reply is queued whether or not there is room for it.
ReplyUnbounded(c) ==
  /\ cmd[c] = "handled"
  /\ replies' = IF publisher = "up" THEN Append(replies, c) ELSE replies
  /\ EndTask(c, "over", {})

(* With a slot the reply waits for room; without one it goes out now or    *)
(* not at all. Nobody receives once the publisher is gone.                 *)
Reply(c) ==
  /\ cmd[c] = "handled"
  /\ \/ /\ publisher = "up" /\ Len(replies) < MaxPendingReplies
        /\ replies' = Append(replies, c)
     \/ /\ \/ publisher = "gone"
           \/ slot[c] = "none" /\ Len(replies) >= MaxPendingReplies
        /\ UNCHANGED replies
  /\ EndTask(c, "over", {})

(* The publisher sends one reply, or gives up on it. *)
Publish ==
  /\ publisher = "up" /\ replies # <<>>
  /\ replies' = Tail(replies)
  /\ UNCHANGED <<loop, host, lease, admits, tasks, publisher>>

-----------------------------------------------------------------------------
(* The loop ends. Shutdown closes admission and lets the replies drain.    *)

LeaveLoop(why) ==
  /\ phase = "running"
  /\ phase' = "unsubscribing" /\ ended' = why
  /\ admits' = FALSE
  /\ UNCHANGED <<gen, failed, host, lease, slot, by, owed>>

Requested == LeaveLoop("requested") /\ UNCHANGED <<cmd, replies, publisher>>
IngressStopped == LeaveLoop("ingress") /\ UNCHANGED <<cmd, replies, publisher>>
SubscriptionClosed == LeaveLoop("closed") /\ UNCHANGED <<cmd, replies, publisher>>

CommandPanicked(c) ==
  /\ cmd[c] = "panicked" /\ by[c] = gen
  /\ LeaveLoop("panicked") /\ Become(c, "over")
  /\ UNCHANGED <<replies, publisher>>

(* The publisher's task ends under the loop: it panicked, or stopped. The  *)
(* replies it had not sent go with it.                                     *)
PublisherStops ==
  /\ publisher = "up" /\ publisher' = "gone" /\ replies' = <<>>
  /\ \E why \in {"panicked", "publisher"} : LeaveLoop(why)
  /\ UNCHANGED cmd

(* Bounded by CONTROL_IO_TIMEOUT; what was not taken is never answered. *)
Unsubscribe ==
  /\ phase = "unsubscribing"
  /\ phase' = "draining"
  /\ failed' \in {failed, failed \cup {"io"}}
  /\ cmd' = [c \in Cmds |-> IF cmd[c] = "sent" THEN "over" ELSE cmd[c]]
  /\ UNCHANGED <<gen, ended, host, lease, admits, slot, by, owed, replies, publisher>>

Mine(S) == {c \in Cmds : by[c] = gen /\ cmd[c] \in S}

(* A failed task found by the drain, or by the wait after the abort. *)
CollectPanic(c) ==
  /\ phase \in {"draining", "unwinding"}
  /\ cmd[c] = "panicked" /\ by[c] = gen
  /\ Become(c, "over")
  /\ failed' = failed \cup {"panic"}
  /\ UNCHANGED <<phase, gen, ended, host, lease, admits, slot, by, owed, replies, publisher>>

(* Every sender is gone and the queue empty: the publisher returns. *)
PublisherReturns ==
  /\ phase = "draining" /\ publisher = "up"
  /\ replies = <<>> /\ Mine(Running) = {}
  /\ publisher' = "gone"
  /\ UNCHANGED <<loop, host, lease, admits, tasks, replies>>

(* It panics while the loop waits for it. *)
PublisherPanics ==
  /\ phase = "draining" /\ publisher = "up"
  /\ publisher' = "gone" /\ replies' = <<>>
  /\ failed' = failed \cup {"panic"}
  /\ UNCHANGED <<phase, gen, ended, host, lease, admits, tasks>>

Drained ==
  /\ phase = "draining"
  /\ publisher = "gone" /\ Mine(Running \cup {"panicked"}) = {}
  /\ phase' = "recovering"
  /\ UNCHANGED <<gen, ended, failed, host, lease, admits, tasks, replies, publisher>>

AbortTask(c) == IF cmd[c] = "handled" THEN "dropping" ELSE "unwinding"

AbortAll(next) ==
  /\ phase' = next
  /\ cmd' = [c \in Cmds |-> IF c \in Mine(Running) THEN AbortTask(c) ELSE cmd[c]]
  /\ publisher' = "gone" /\ replies' = <<>>
  /\ UNCHANGED <<gen, ended, host, admits, slot, by, owed>>

\* Mutant: a drain without a budget.
DrainTimeoutNever ==
  /\ phase = "draining" /\ Mine(Running) = {}
  /\ AbortAll("unwinding") /\ UNCHANGED <<failed, lease>>

(* COMMAND_DRAIN_TIMEOUT: the tasks are aborted. *)
DrainTimeout ==
  /\ phase = "draining"
  /\ AbortAll("unwinding") /\ UNCHANGED <<failed, lease>>

(* A cancelled task is dropped at its next await, or panics on the way;    *)
(* one that was handled has no guard left to drop.                         *)
Unwind(c) ==
  /\ cmd[c] \in Aborted
  /\ \E left \in IF cmd[c] = "unwinding" THEN Guards(c) ELSE {{}},
        s \in {"over", "panicked"} : EndTask(c, s, left)
  /\ UNCHANGED replies

(* The retries of a WorkloadRecovery end once it succeeds. *)
CleanupDone(c) ==
  /\ c \in owed
  /\ owed' = owed \ {c} /\ lease' = lease - 1
  /\ UNCHANGED <<loop, host, admits, cmd, slot, by, replies, publisher>>

Unwound ==
  /\ phase = "unwinding" /\ Mine(Aborted \cup {"panicked"}) = {}
  /\ phase' = "recovering"
  /\ failed' = failed \cup {"aborted"}
  /\ UNCHANGED <<gen, ended, host, lease, admits, tasks, replies, publisher>>

\* Mutant: tasks that outlive their abort are not reported.
UnwindTimeoutSilent ==
  /\ phase = "unwinding"
  /\ phase' = "recovering"
  /\ UNCHANGED <<gen, ended, failed, host, lease, admits, tasks, replies, publisher>>

(* COMMAND_ABORT_TIMEOUT: some task has still not unwound. *)
UnwindTimeout ==
  /\ phase = "unwinding"
  /\ phase' = "recovering"
  /\ failed' = failed \cup {"running"}
  /\ UNCHANGED <<gen, ended, host, lease, admits, tasks, replies, publisher>>

(* wait_for_workload_cleanup: done, or its budget is spent. *)
WaitForCleanup ==
  /\ phase = "recovering"
  /\ phase' = "flushing"
  /\ \/ owed = {} /\ UNCHANGED failed
     \/ failed' = failed \cup {"cleanup"}
  /\ UNCHANGED <<gen, ended, host, lease, admits, tasks, replies, publisher>>

Flush ==
  /\ phase = "flushing"
  /\ phase' = "stopping"
  /\ failed' \in {failed, failed \cup {"io"}}
  /\ UNCHANGED <<gen, ended, host, lease, admits, tasks, replies, publisher>>

Exit ==
  /\ phase = "stopping"
  /\ phase' = "exited"
  /\ host' = IF stopHost THEN "stopped" ELSE host
  /\ lease' = lease - 1
  /\ UNCHANGED <<gen, ended, failed, admits, tasks, replies, publisher>>

(* An AttachedHostControl is dropped, or its shutdown outlasts its budget: *)
(* the loop's task is aborted where it is, and its tasks with it.          *)
AbortLoop ==
  /\ ~stopHost
  /\ phase \notin {"detached", "registering", "exited"}
  /\ admits' = FALSE /\ failed' = failed \cup {"running"}
  /\ lease' = lease - 1
  /\ phase' = "exited" /\ ended' = "requested"
  /\ cmd' = [c \in Cmds |->
       CASE c \in Mine(Running) -> AbortTask(c)
         [] cmd[c] = "sent"     -> "over"
         [] OTHER               -> cmd[c]]
  /\ publisher' = "gone" /\ replies' = <<>>
  /\ UNCHANGED <<gen, host, slot, by, owed>>

CmdStep(c) ==
  \/ Send(c) \/ Accept(c) \/ AcquirePermit(c) \/ StartRefused(c) \/ Handle(c)
  \/ HandleFails(c) \/ Panic(c) \/ Reply(c) \/ CommandPanicked(c)
  \/ CollectPanic(c) \/ Unwind(c) \/ CleanupDone(c)

Shutdown ==
  \/ Unsubscribe \/ Drained \/ DrainTimeout \/ Unwound \/ UnwindTimeout
  \/ WaitForCleanup \/ Flush \/ Exit

Next ==
  /\ \/ \E c \in Cmds : CmdStep(c)
     \/ Attach \/ Registered \/ RegistrationFails \/ Publish
     \/ PublisherStops \/ PublisherReturns \/ PublisherPanics
     \/ Requested \/ IngressStopped \/ SubscriptionClosed
     \/ Shutdown \/ AbortLoop
  /\ UNCHANGED stopHost

Spec == Init /\ [][Next]_vars

(* The loop's branches are chosen fairly (a command's task that panicked   *)
(* is one of them), and every shutdown step is under a timeout, as is      *)
(* registration. Stops and queries finish; nothing is assumed of starts,   *)
(* of NATS, or of how long a cancelled task or a cleanup takes.            *)
LiveSpec ==
  /\ Spec
  /\ WF_vars(Shutdown /\ UNCHANGED stopHost)
  /\ WF_vars((Registered \/ RegistrationFails) /\ UNCHANGED stopHost)
  /\ \A c \in Cmds : /\ WF_vars(Accept(c) /\ UNCHANGED stopHost)
                     /\ WF_vars(CommandPanicked(c) /\ UNCHANGED stopHost)
  /\ \A c \in Cmds \ Starts : WF_vars(Handle(c) /\ UNCHANGED stopHost)

-----------------------------------------------------------------------------
(* Properties.                                                             *)

(* The lease: while one loop is attached, no command of an earlier one is  *)
(* running, unwinding or being cleaned up on the same host.                *)
OneController ==
  phase # "exited" =>
    \A c \in Cmds : cmd[c] \in Live \/ c \in owed => by[c] = gen

(* "Shutdown has to wait for them before this loop stops the host": the    *)
(* loop exits (and stops a host it owns) over a command that still runs,   *)
(* or over a cleanup one left, only if its shutdown reports that.          *)
ShutdownHonest ==
  phase = "exited" /\ gen > 0 /\ failed \cap {"running", "cleanup"} = {} =>
    Mine(Live) \cup owed = {}

(* A stop is never turned away: not by the bound on what is kept while the *)
(* loop registers, nor for want of a slot. It is handled unless the loop   *)
(* ends first, although every start may hang and no reply may drain.       *)
StopsServed ==
  \A c \in Stops :
    /\ [](cmd[c] \notin {"shed", "dropped"})
    /\ (cmd[c] = "sent") ~>
         (cmd[c] \in {"handled", "over"} \/ phase \notin {"registering", "running"})

(* However the loop ended, and whatever its commands and NATS do, its      *)
(* shutdown finishes.                                                      *)
ShutdownEnds == (phase = "unsubscribing") ~> (phase = "exited")

(* The inductive invariant of the safety properties above, in parts.       *)

(* The lease counts the loop, the tasks it spawned and the cleanups they   *)
(* left, so it is free only when all of them are gone.                     *)
Held == IF phase \in {"detached", "exited"} THEN 0 ELSE 1
LiveCmds == {c \in Cmds : cmd[c] \in Live}

LeaseCounts == lease = Held + Cardinality(LiveCmds) + Cardinality(owed)

(* A task leaves its cleanup when its operation is over, and leaves one.   *)
OwedOnce == \A c \in owed : cmd[c] \in {"handled", "dropping", "over", "panicked"}

(* Work on the host is the latest loop's, after that loop ended too.       *)
LatestOnly == \A c \in Cmds : cmd[c] \in Live \/ c \in owed => by[c] = gen

(* What a loop may have running where it is.                               *)
BeforeRunning == {"detached", "registering"}
BeforeAbort == {"running", "unsubscribing", "draining"}
AfterWait == {"recovering", "flushing", "stopping", "exited"}
AfterCleanup == AfterWait \ {"recovering"}

PhaseWork ==
  /\ phase \in BeforeRunning => LiveCmds = {} /\ owed = {}
  /\ phase \in BeforeAbort => \A c \in Cmds : cmd[c] \notin Aborted
  /\ phase \notin BeforeAbort => \A c \in Cmds : cmd[c] \notin Running
  /\ phase \in AfterWait /\ "running" \notin failed => LiveCmds = {}
  /\ phase \in AfterCleanup /\ failed \cap {"running", "cleanup"} = {} => owed = {}

IndInv == TypeOK /\ LeaseCounts /\ OwedOnce /\ LatestOnly /\ PhaseWork

=============================================================================
