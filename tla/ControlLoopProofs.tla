------------------------- MODULE ControlLoopProofs --------------------------
(* The inductive invariant of ControlLoop, one lemma per part, and the     *)
(* safety properties that follow from it for any set of commands, any      *)
(* capacities and any number of attachments.                               *)
EXTENDS ControlLoop, FiniteSetTheorems, TLAPS

\* The commands can be counted, and so can any part of them.
LEMMA CmdsFinite ==
  ASSUME NEW S \in SUBSET Cmds
  PROVE  /\ IsFiniteSet(S) /\ Cardinality(S) \in Nat
         /\ Cardinality(Cmds) \in Nat /\ Cardinality(S) =< Cardinality(Cmds)
<1>1. IsFiniteSet(Starts) /\ IsFiniteSet(Stops) /\ IsFiniteSet(Queries)
      /\ IsFiniteSet(Heartbeats)
  BY ControlConstants
<1>2. IsFiniteSet(Starts \cup Stops) /\ IsFiniteSet(Queries \cup Heartbeats)
  BY <1>1, FS_Union
<1>3. Cmds = (Starts \cup Stops) \cup (Queries \cup Heartbeats)
  BY DEF Cmds
<1>4. IsFiniteSet(Cmds)
  BY <1>2, <1>3, FS_Union
<1> QED BY <1>4, FS_Subset, FS_CardinalityType

\* A set of commands that gains, or loses, one.
LEMMA CountAdd ==
  ASSUME NEW S \in SUBSET Cmds, NEW c \in Cmds, c \notin S
  PROVE  Cardinality(S \cup {c}) = Cardinality(S) + 1
BY CmdsFinite, FS_AddElement

LEMMA CountDrop ==
  ASSUME NEW S \in SUBSET Cmds, NEW c \in S
  PROVE  Cardinality(S \ {c}) = Cardinality(S) - 1
BY CmdsFinite, FS_RemoveElement

LEMMA CountNone == Cardinality({}) = 0
BY FS_EmptySet

-----------------------------------------------------------------------------
(* Types, without the bound on the lease, which follows from what it counts. *)

CmdStates == {"waiting", "working", "handled", "unwinding", "dropping", "unsent",
              "sent", "dropped", "shed", "panicked", "over"}

Typed ==
  /\ phase \in Phases
  /\ gen \in 0 .. MaxAttachments
  /\ ended \in {"none", "requested", "ingress", "panicked", "publisher", "closed"}
  /\ failed \subseteq {"aborted", "running", "panic", "cleanup", "io"}
  /\ stopHost \in BOOLEAN /\ host \in {"up", "stopped"}
  /\ admits \in BOOLEAN
  /\ cmd \in [Cmds -> CmdStates]
  /\ slot \in [Cmds -> {"start", "query", "none"}]
  /\ by \in [Cmds -> 0 .. MaxAttachments]
  /\ owed \subseteq Starts \cup Stops
  /\ replies \in Seq(Cmds) /\ Len(replies) =< MaxPendingReplies
  /\ publisher \in {"up", "gone"}

LEMMA TypeParts ==
  TypeOK <=> Typed /\ lease \in 0 .. 1 + 2 * Cardinality(Cmds)
<1>1. Live \cup {"unsent", "sent", "dropped", "shed", "panicked", "over"} = CmdStates
  BY DEF Live, Running, Aborted, CmdStates
<1> QED BY <1>1 DEF TypeOK, Typed

\* What the lease counts bounds it.
LEMMA LeaseBound ==
  ASSUME Typed, LeaseCounts
  PROVE  TypeOK
<1>1. LiveCmds \in SUBSET Cmds /\ owed \in SUBSET Cmds
  BY DEF LiveCmds, Typed, Cmds
<1>2. /\ Cardinality(Cmds) \in Nat
      /\ Cardinality(LiveCmds) \in Nat /\ Cardinality(LiveCmds) =< Cardinality(Cmds)
      /\ Cardinality(owed) \in Nat /\ Cardinality(owed) =< Cardinality(Cmds)
  BY <1>1, CmdsFinite
<1>3. Held \in {0, 1}
  BY DEF Held
<1> QED BY <1>2, <1>3, TypeParts DEF LeaseCounts

\* A command that becomes something, and the tables kept for commands.
LEMMA BecomeTyped ==
  ASSUME Typed, NEW c \in Cmds, NEW s \in CmdStates, Become(c, s)
  PROVE  cmd' \in [Cmds -> CmdStates]
BY DEF Typed, Become

LEMMA RepliesTyped ==
  ASSUME Typed
  PROVE  /\ <<>> \in Seq(Cmds) /\ Len(<<>>) =< MaxPendingReplies
         /\ replies # <<>> => Tail(replies) \in Seq(Cmds)
                              /\ Len(Tail(replies)) =< MaxPendingReplies
         /\ \A c \in Cmds : Len(replies) < MaxPendingReplies =>
              Append(replies, c) \in Seq(Cmds)
              /\ Len(Append(replies, c)) =< MaxPendingReplies
<1>1. MaxPendingReplies \in Nat
  BY ControlConstants DEF MaxPendingReplies
<1>2. replies \in Seq(Cmds) /\ Len(replies) \in Nat /\ Len(replies) =< MaxPendingReplies
  BY DEF Typed
<1> QED BY <1>1, <1>2

LEMMA EndTyped ==
  ASSUME Typed, NEW c \in Cmds, NEW s \in {"over", "panicked"},
         NEW left \in Guards(c) \cup {{}}, EndTask(c, s, left),
         replies' \in Seq(Cmds), Len(replies') =< MaxPendingReplies,
         UNCHANGED stopHost
  PROVE  Typed'
<1>1. cmd' \in [Cmds -> CmdStates]
  BY BecomeTyped DEF EndTask, CmdStates
<1>2. owed' \subseteq Starts \cup Stops
  BY DEF Typed, EndTask, Leave, Guards
<1>3. slot' \in [Cmds -> {"start", "query", "none"}]
  BY DEF Typed, EndTask
<1> QED BY <1>1, <1>2, <1>3 DEF Typed, EndTask, loop

-----------------------------------------------------------------------------
(* The steps that end a task, whichever way it ends.                       *)

Ends(c) == HandleFails(c) \/ Panic(c) \/ Reply(c) \/ Unwind(c)

LEMMA EndsCases ==
  ASSUME NEW c \in Cmds, Ends(c)
  PROVE  /\ cmd[c] \in Live
         /\ \E s \in {"over", "panicked"}, left \in {{}, {c}} :
              /\ EndTask(c, s, left)
              /\ left \in Guards(c) \cup {{}}
              /\ left = {c} => cmd[c] \in {"working", "unwinding"}
<1>1. CASE HandleFails(c) \/ Reply(c)
  <2>1. EndTask(c, "over", {}) /\ cmd[c] \in Live
    BY <1>1 DEF HandleFails, Reply, Live, Running
  <2> QED BY <2>1
<1>2. CASE Panic(c)
  <2>1. PICK left \in Guards(c) : EndTask(c, "panicked", left)
    BY <1>2 DEF Panic
  <2>2. left \in {{}, {c}} /\ cmd[c] = "working"
    BY <1>2, <2>1 DEF Panic, Guards
  <2> QED BY <2>1, <2>2 DEF Live, Running
<1>3. CASE Unwind(c)
  <2>1. PICK left \in IF cmd[c] = "unwinding" THEN Guards(c) ELSE {{}},
             s \in {"over", "panicked"} : EndTask(c, s, left)
    BY <1>3 DEF Unwind
  <2>2. left \in {{}, {c}} /\ left \in Guards(c) \cup {{}}
        /\ (left = {c} => cmd[c] = "unwinding")
    BY <2>1 DEF Guards
  <2>3. cmd[c] \in Live
    BY <1>3 DEF Unwind, Live
  <2> QED BY <2>1, <2>2, <2>3
<1> QED BY <1>1, <1>2, <1>3 DEF Ends

-----------------------------------------------------------------------------
(* The parts of the inductive invariant, each kept by every step.          *)

LEMMA InitIndInv == Init => IndInv
<1> SUFFICES ASSUME Init PROVE IndInv OBVIOUS
<1>1. LiveCmds = {} /\ owed = {} /\ Held = 0 /\ lease = 0
  BY DEF Init, LiveCmds, Live, Running, Aborted, Held
<1>2. LeaseCounts
  BY <1>1, CountNone DEF LeaseCounts
<1>3. Typed
  <2>1. 0 \in 0 .. MaxAttachments /\ MaxPendingReplies \in Nat
    BY ControlConstants DEF MaxPendingReplies
  <2>2. replies \in Seq(Cmds) /\ Len(replies) =< MaxPendingReplies
    BY <2>1 DEF Init
  <2>3. admits \in BOOLEAN /\ stopHost \in BOOLEAN
    BY DEF Init
  <2> QED BY <2>1, <2>2, <2>3 DEF Init, Typed, Phases, CmdStates
<1>4. TypeOK
  BY <1>2, <1>3, LeaseBound
<1>5. OwedOnce /\ LatestOnly
  BY <1>1 DEF OwedOnce, LatestOnly, LiveCmds
<1>6. PhaseWork
  BY <1>1 DEF Init, PhaseWork, LiveCmds, Live, Running, BeforeRunning, BeforeAbort,
       AfterWait, AfterCleanup
<1> QED BY <1>2, <1>4, <1>5, <1>6 DEF IndInv

LEMMA TypedStep ==
  ASSUME TypeOK, Next
  PROVE  Typed'
<1> USE DEF loop, tasks
<1>0. Typed /\ UNCHANGED stopHost
  BY TypeParts DEF Next
<1>01. MaxAttachments \in Nat /\ MaxPendingReplies \in Nat
  BY ControlConstants DEF MaxPendingReplies
<1>1. ASSUME NEW c \in Cmds, Ends(c) PROVE Typed'
  <2>1. replies' \in Seq(Cmds) /\ Len(replies') =< MaxPendingReplies
    <3>1. \/ replies' = replies
          \/ Len(replies) < MaxPendingReplies /\ replies' = Append(replies, c)
      BY <1>1 DEF Ends, HandleFails, Panic, Reply, Unwind
    <3> QED BY <1>0, <3>1, RepliesTyped DEF Typed
  <2> QED BY <1>0, <1>1, <2>1, EndsCases, EndTyped
<1>2. ASSUME NEW c \in Cmds,
             \/ Send(c) \/ AcquirePermit(c) \/ StartRefused(c)
      PROVE  Typed'
  <2>1. cmd' \in [Cmds -> CmdStates]
    BY <1>0, <1>2, BecomeTyped DEF Send, AcquirePermit, StartRefused, CmdStates
  <2> QED BY <1>0, <1>2, <2>1 DEF Typed, Send, AcquirePermit, StartRefused
<1>3. ASSUME NEW c \in Cmds, Handle(c) PROVE Typed'
  <2>1. cmd' \in [Cmds -> CmdStates]
    BY <1>0, <1>3, BecomeTyped DEF Handle, HandleWhen, CmdStates
  <2>2. owed' \subseteq Starts \cup Stops
    BY <1>0, <1>3 DEF Typed, Handle, HandleWhen, Leave, Guards
  <2> QED BY <1>0, <1>3, <2>1, <2>2 DEF Typed, Handle, HandleWhen
<1>4. ASSUME NEW c \in Cmds, Accept(c) PROVE Typed'
  <2>1. cmd' \in [Cmds -> CmdStates]
    BY <1>0, <1>4, BecomeTyped DEF Accept, AcceptWith, Spawn, CmdStates
  <2>2. /\ slot' \in [Cmds -> {"start", "query", "none"}]
        /\ by' \in [Cmds -> 0 .. MaxAttachments]
    BY <1>0, <1>4 DEF Typed, Accept, AcceptWith, Spawn, SlotOf
  <2> QED BY <1>0, <1>4, <2>1, <2>2 DEF Typed, Accept, AcceptWith
<1>5. ASSUME NEW c \in Cmds, CommandPanicked(c) \/ CollectPanic(c) PROVE Typed'
  <2>1. cmd' \in [Cmds -> CmdStates]
    BY <1>0, <1>5, BecomeTyped DEF CommandPanicked, CollectPanic, CmdStates
  <2> QED BY <1>0, <1>5, <2>1 DEF Typed, CommandPanicked, CollectPanic, LeaveLoop,
            Phases
<1>6. ASSUME NEW c \in Cmds, CleanupDone(c) PROVE Typed'
  BY <1>0, <1>6 DEF Typed, CleanupDone
<1>7. CASE Attach
  BY <1>0, <1>01, <1>7 DEF Typed, Attach, Phases
<1>8. CASE Registered
  BY <1>0, <1>8, RepliesTyped DEF Typed, Registered, Phases
<1>9. CASE RegistrationFails
  <2>1. cmd' \in [Cmds -> CmdStates]
    BY <1>0, <1>9 DEF Typed, RegistrationFails, CmdStates
  <2> QED BY <1>0, <1>9, <2>1 DEF Typed, RegistrationFails, Phases
<1>10. CASE Publish
  BY <1>0, <1>10, RepliesTyped DEF Typed, Publish
<1>11. CASE \/ PublisherStops \/ PublisherReturns \/ PublisherPanics
            \/ Requested \/ IngressStopped \/ SubscriptionClosed
  BY <1>0, <1>11, RepliesTyped DEF Typed, PublisherStops, PublisherReturns, PublisherPanics, Requested, IngressStopped,
       SubscriptionClosed, LeaveLoop, Phases
<1>12. CASE Unsubscribe
  <2>1. cmd' \in [Cmds -> CmdStates]
    BY <1>0, <1>12 DEF Typed, Unsubscribe, CmdStates
  <2> QED BY <1>0, <1>12, <2>1 DEF Typed, Unsubscribe, Phases
<1>13. CASE Drained \/ Unwound \/ UnwindTimeout \/ WaitForCleanup \/ Flush \/ Exit
  <2>1. CASE Drained \/ Unwound \/ UnwindTimeout
    BY <1>0, <2>1 DEF Typed, Drained, Unwound, UnwindTimeout, Phases
  <2>2. CASE WaitForCleanup
    BY <1>0, <2>2 DEF Typed, WaitForCleanup, Phases
  <2>3. CASE Flush \/ Exit
    BY <1>0, <2>3 DEF Typed, Flush, Exit, Phases
  <2> QED BY <1>13, <2>1, <2>2, <2>3
<1>14. CASE DrainTimeout
  <2>1. cmd' \in [Cmds -> CmdStates]
    BY <1>0, <1>14 DEF Typed, DrainTimeout, AbortAll, AbortTask, CmdStates
  <2> QED BY <1>0, <1>14, <2>1, RepliesTyped DEF Typed, DrainTimeout, AbortAll, Phases
<1>15. CASE AbortLoop
  <2>1. cmd' \in [Cmds -> CmdStates]
    BY <1>0, <1>15 DEF Typed, AbortLoop, AbortTask, CmdStates
  <2> QED BY <1>0, <1>15, <2>1, RepliesTyped DEF Typed, AbortLoop, Phases
<1> QED BY <1>1, <1>2, <1>3, <1>4, <1>5, <1>6, <1>7, <1>8, <1>9, <1>10, <1>11,
           <1>12, <1>13, <1>14, <1>15 DEF Next, CmdStep, Shutdown, Ends

\* The steps that neither start, end nor owe work, and do not attach or leave.
Steady ==
  \/ \E c \in Cmds : Send(c) \/ AcquirePermit(c) \/ StartRefused(c)
                     \/ CommandPanicked(c) \/ CollectPanic(c)
  \/ Registered \/ Publish \/ PublisherStops \/ PublisherReturns \/ PublisherPanics
  \/ Requested \/ IngressStopped \/ SubscriptionClosed
  \/ Unsubscribe \/ Drained \/ DrainTimeout \/ Unwound \/ UnwindTimeout
  \/ WaitForCleanup \/ Flush

LEMMA SteadyWork ==
  ASSUME TypeOK, Steady
  PROVE  LiveCmds' = LiveCmds /\ UNCHANGED <<lease, owed, by, gen>> /\ Held' = Held
<1> USE DEF loop, tasks
<1>0. Typed
  BY TypeParts
<1>1. UNCHANGED <<lease, owed, by, gen>>
  BY DEF Steady, Send, AcquirePermit, StartRefused, CommandPanicked, CollectPanic,
     LeaveLoop, Registered, Publish, PublisherStops, PublisherReturns, PublisherPanics, Requested, IngressStopped,
     SubscriptionClosed, Unsubscribe, Drained, DrainTimeout, AbortAll, Unwound,
     UnwindTimeout, WaitForCleanup, Flush
<1>2. Held' = Held
  BY DEF Steady, Send, AcquirePermit, StartRefused, CommandPanicked, CollectPanic,
     LeaveLoop, Registered, Publish, PublisherStops, PublisherReturns, PublisherPanics, Requested, IngressStopped,
     SubscriptionClosed, Unsubscribe, Drained, DrainTimeout, AbortAll, Unwound,
     UnwindTimeout, WaitForCleanup, Flush, Held
<1>3. LiveCmds' = LiveCmds
  <2>1. CASE cmd' = cmd
    BY <2>1 DEF LiveCmds
  <2>2. ASSUME NEW c \in Cmds, NEW s, Become(c, s),
               cmd[c] \in Live <=> s \in Live
        PROVE  LiveCmds' = LiveCmds
    BY <1>0, <2>2 DEF LiveCmds, Become, Typed
  <2>3. ASSUME NEW c \in Cmds,
               \/ Send(c) \/ AcquirePermit(c) \/ StartRefused(c)
               \/ CommandPanicked(c) \/ CollectPanic(c)
        PROVE  LiveCmds' = LiveCmds
    BY <2>2, <2>3 DEF Send, AcquirePermit, StartRefused, CommandPanicked,
         CollectPanic, Live, Running, Aborted
  <2>4. CASE Unsubscribe
    BY <1>0, <2>4 DEF Unsubscribe, LiveCmds, Live, Running, Aborted, Typed
  <2>5. CASE DrainTimeout
    BY <1>0, <2>5 DEF DrainTimeout, AbortAll, AbortTask, Mine, LiveCmds, Live, Running,
         Aborted, Typed
  <2>6. CASE Registered \/ Publish \/ PublisherStops \/ PublisherReturns \/ PublisherPanics
             \/ Requested \/ IngressStopped \/ SubscriptionClosed
             \/ Drained \/ Unwound \/ UnwindTimeout \/ WaitForCleanup \/ Flush
    BY <2>1, <2>6 DEF Registered, Publish, PublisherStops, PublisherReturns, PublisherPanics, Requested,
         IngressStopped, SubscriptionClosed, Drained, Unwound, UnwindTimeout,
         WaitForCleanup, Flush
  <2> QED BY <2>3, <2>4, <2>5, <2>6 DEF Steady
<1> QED BY <1>1, <1>2, <1>3

LEMMA NextIs ==
  ASSUME Next
  PROVE  \/ Steady
         \/ \E c \in Cmds : Accept(c) \/ Handle(c) \/ Ends(c) \/ CleanupDone(c)
         \/ Attach \/ RegistrationFails \/ Exit \/ AbortLoop
BY DEF Next, CmdStep, Shutdown, Steady, Ends

\* What is live or owed are commands, and can be counted.
LEMMA WorkCounts ==
  ASSUME TypeOK
  PROVE  /\ LiveCmds \in SUBSET Cmds /\ owed \in SUBSET Cmds
         /\ Cardinality(LiveCmds) \in Nat /\ Cardinality(owed) \in Nat
<1>1. LiveCmds \in SUBSET Cmds /\ owed \in SUBSET Cmds
  BY DEF LiveCmds, TypeOK, Cmds
<1> QED BY <1>1, CmdsFinite

\* A task that ends takes its reference with it, and the cleanup it leaves
\* takes one of its own.
LEMMA EndWork ==
  ASSUME TypeOK, OwedOnce, NEW c \in Cmds, Ends(c)
  PROVE  /\ LiveCmds' = LiveCmds \ {c} /\ c \in LiveCmds
         /\ cmd'[c] \in {"over", "panicked"}
         /\ \A x \in Cmds \ {c} : cmd'[x] = cmd[x]
         /\ UNCHANGED <<phase, gen, failed, by>> /\ Held' = Held
         /\ \/ owed' = owed /\ lease' = lease - 1
            \/ owed' = owed \cup {c} /\ c \notin owed /\ lease' = lease
<1>0. Typed /\ lease \in Nat
  BY TypeParts DEF TypeOK
<1>1. PICK s \in {"over", "panicked"}, left \in {{}, {c}} :
        /\ cmd[c] \in Live
        /\ EndTask(c, s, left)
        /\ left = {c} => cmd[c] \in {"working", "unwinding"}
  BY EndsCases
<1>2. cmd' = [cmd EXCEPT ![c] = s] /\ cmd \in [Cmds -> CmdStates]
  BY <1>0, <1>1 DEF EndTask, Become, Typed
<1>3. LiveCmds' = LiveCmds \ {c} /\ c \in LiveCmds
  BY <1>1, <1>2 DEF LiveCmds, Live, Running, Aborted
<1>4. UNCHANGED <<phase, gen, failed, by>> /\ Held' = Held
  BY <1>1 DEF EndTask, loop, Held
<1>5. owed' = owed \cup left /\ lease' = lease + Cardinality(left) - 1
  BY <1>1 DEF EndTask, Leave
<1>6. CASE left = {}
  BY <1>0, <1>2, <1>3, <1>4, <1>5, <1>6, CountNone
<1>7. CASE left = {c}
  <2>1. c \notin owed
    BY <1>1, <1>7 DEF OwedOnce
  <2>2. lease' = lease
    <3>1. Cardinality(left) = 1
      BY <1>7, FS_Singleton
    <3> QED BY <1>0, <1>5, <3>1
  <2> QED BY <1>2, <1>3, <1>4, <1>5, <1>7, <2>1, <2>2
<1> QED BY <1>6, <1>7

\* A command taken by the loop is its own, or is shed.
LEMMA AcceptWork ==
  ASSUME TypeOK, NEW c \in Cmds, Accept(c)
  PROVE  /\ phase = "running" /\ c \notin LiveCmds
         /\ UNCHANGED <<phase, gen, failed, owed>> /\ Held' = Held
         /\ \A x \in Cmds \ {c} : cmd'[x] = cmd[x] /\ by'[x] = by[x]
         /\ cmd[c] = "sent" /\ cmd'[c] \in {"waiting", "working", "shed"}
         /\ \/ /\ LiveCmds' = LiveCmds \cup {c} /\ lease' = lease + 1
               /\ by'[c] = gen
            \/ LiveCmds' = LiveCmds /\ UNCHANGED <<lease, by>>
<1>0. Typed
  BY TypeParts
<1>1. phase = "running" /\ cmd[c] = "sent" /\ UNCHANGED <<phase, gen, failed, owed>>
  BY DEF Accept, AcceptWith, loop
<1>2. c \notin LiveCmds /\ Held' = Held
  BY <1>1 DEF LiveCmds, Live, Running, Aborted, Held
<1>3. CASE \E k : Spawn(c, k, 1)
  <2>1. /\ \E s \in {"waiting", "working"} : cmd' = [cmd EXCEPT ![c] = s]
        /\ by' = [by EXCEPT ![c] = gen] /\ lease' = lease + 1
    BY <1>3 DEF Spawn, Become
  <2>2. cmd \in [Cmds -> CmdStates] /\ by \in [Cmds -> 0 .. MaxAttachments]
    BY <1>0 DEF Typed
  <2>3. /\ cmd'[c] \in {"waiting", "working"} /\ by'[c] = gen
        /\ \A x \in Cmds \ {c} : cmd'[x] = cmd[x] /\ by'[x] = by[x]
    BY <2>1, <2>2
  <2>4. LiveCmds' = LiveCmds \cup {c}
    BY <2>3 DEF LiveCmds, Live, Running
  <2> QED BY <1>1, <1>2, <2>1, <2>3, <2>4
<1>4. CASE Become(c, "shed") /\ UNCHANGED <<by, lease>>
  <2>1. cmd' = [cmd EXCEPT ![c] = "shed"] /\ cmd \in [Cmds -> CmdStates]
    BY <1>0, <1>4 DEF Become, Typed
  <2>2. LiveCmds' = LiveCmds
    BY <1>1, <2>1 DEF LiveCmds, Live, Running, Aborted
  <2> QED BY <1>1, <1>2, <1>4, <2>1, <2>2
<1> QED BY <1>3, <1>4 DEF Accept, AcceptWith

\* A handled command is still there to reply.
LEMMA HandleWork ==
  ASSUME TypeOK, OwedOnce, NEW c \in Cmds, Handle(c)
  PROVE  /\ LiveCmds' = LiveCmds /\ cmd[c] = "working" /\ cmd'[c] = "handled"
         /\ \A x \in Cmds \ {c} : cmd'[x] = cmd[x]
         /\ UNCHANGED <<phase, gen, failed, by>> /\ Held' = Held
         /\ \/ owed' = owed /\ lease' = lease
            \/ owed' = owed \cup {c} /\ c \notin owed /\ lease' = lease + 1
<1>0. Typed /\ lease \in Nat
  BY TypeParts DEF TypeOK
<1>1. PICK left \in Guards(c) : Leave(left, 0)
  BY DEF Handle, HandleWhen
<1>2. left \in {{}, {c}}
  BY <1>1 DEF Guards
<1>3. cmd[c] = "working" /\ cmd' = [cmd EXCEPT ![c] = "handled"]
      /\ cmd \in [Cmds -> CmdStates]
  BY <1>0 DEF Handle, HandleWhen, Become, Typed
<1>4. LiveCmds' = LiveCmds
  BY <1>3 DEF LiveCmds, Live, Running
<1>5. UNCHANGED <<phase, gen, failed, by>> /\ Held' = Held
  BY DEF Handle, HandleWhen, loop, Held
<1>6. c \notin owed
  BY <1>3 DEF OwedOnce
<1>7. \/ owed' = owed /\ lease' = lease
      \/ owed' = owed \cup {c} /\ lease' = lease + 1
  <2>1. CASE left = {}
    BY <1>0, <1>1, <2>1, CountNone DEF Leave
  <2>2. CASE left = {c}
    <3>1. Cardinality(left) = 1
      BY <2>2, FS_Singleton
    <3> QED BY <1>0, <1>1, <2>2, <3>1 DEF Leave
  <2> QED BY <1>2, <2>1, <2>2
<1> QED BY <1>3, <1>4, <1>5, <1>6, <1>7

\* An aborted loop leaves its tasks to unwind.
LEMMA AbortLoopWork ==
  ASSUME TypeOK, AbortLoop
  PROVE  /\ LiveCmds' = LiveCmds /\ lease' = lease - 1
         /\ UNCHANGED <<gen, owed, by>> /\ Held = 1 /\ Held' = 0
         /\ phase' = "exited" /\ "running" \in failed'
<1>0. cmd \in [Cmds -> CmdStates]
  BY TypeParts DEF Typed
<1>1. LiveCmds' = LiveCmds
  <2>1. ASSUME NEW c \in Cmds PROVE cmd'[c] \in Live <=> cmd[c] \in Live
    BY <1>0 DEF AbortLoop, AbortTask, Mine, Live, Running, Aborted
  <2> QED BY <2>1 DEF LiveCmds
<1> QED BY <1>1 DEF AbortLoop, Held


\* Every reference to the lease is counted.
LEMMA LeaseStep ==
  ASSUME TypeOK, OwedOnce, LeaseCounts, PhaseWork, Next
  PROVE  LeaseCounts'
<1>0. /\ LiveCmds \in SUBSET Cmds /\ owed \in SUBSET Cmds
      /\ Cardinality(LiveCmds) \in Nat /\ Cardinality(owed) \in Nat
      /\ Held \in {0, 1}
  BY WorkCounts DEF Held
<1>1. CASE Steady
  BY <1>1, SteadyWork DEF LeaseCounts
<1>2. ASSUME NEW c \in Cmds, Accept(c) PROVE LeaseCounts'
  <2>1. CASE LiveCmds' = LiveCmds /\ UNCHANGED lease
    BY <1>2, <2>1, AcceptWork DEF LeaseCounts
  <2>2. CASE LiveCmds' = LiveCmds \cup {c} /\ lease' = lease + 1
    <3>1. Cardinality(LiveCmds') = Cardinality(LiveCmds) + 1
      BY <1>0, <1>2, <2>2, AcceptWork, CountAdd
    <3> QED BY <1>0, <1>2, <2>2, <3>1, AcceptWork DEF LeaseCounts
  <2> QED BY <1>2, <2>1, <2>2, AcceptWork
<1>3. ASSUME NEW c \in Cmds, Handle(c) PROVE LeaseCounts'
  <2>1. CASE owed' = owed /\ lease' = lease
    BY <1>3, <2>1, HandleWork DEF LeaseCounts
  <2>2. CASE owed' = owed \cup {c} /\ c \notin owed /\ lease' = lease + 1
    <3>1. Cardinality(owed') = Cardinality(owed) + 1
      BY <1>0, <2>2, CountAdd
    <3> QED BY <1>0, <1>3, <2>2, <3>1, HandleWork DEF LeaseCounts
  <2> QED BY <1>3, <2>1, <2>2, HandleWork
<1>4. ASSUME NEW c \in Cmds, Ends(c) PROVE LeaseCounts'
  <2>0. Cardinality(LiveCmds') = Cardinality(LiveCmds) - 1 /\ Held' = Held
    BY <1>0, <1>4, EndWork, CountDrop
  <2>1. CASE owed' = owed /\ lease' = lease - 1
    BY <1>0, <2>0, <2>1 DEF LeaseCounts
  <2>2. CASE owed' = owed \cup {c} /\ c \notin owed /\ lease' = lease
    <3>1. Cardinality(owed') = Cardinality(owed) + 1
      BY <1>0, <2>2, CountAdd
    <3> QED BY <1>0, <2>0, <2>2, <3>1 DEF LeaseCounts
  <2> QED BY <1>4, <2>1, <2>2, EndWork
<1>5. ASSUME NEW c \in Cmds, CleanupDone(c) PROVE LeaseCounts'
  <2>1. owed' = owed \ {c} /\ c \in owed /\ lease' = lease - 1
        /\ LiveCmds' = LiveCmds /\ Held' = Held
    BY <1>5 DEF CleanupDone, LiveCmds, Held, loop
  <2>2. Cardinality(owed') = Cardinality(owed) - 1
    BY <1>0, <2>1, CountDrop
  <2> QED BY <1>0, <2>1, <2>2 DEF LeaseCounts
<1>6. CASE Attach
  <2>1. Held = 0 /\ Held' = 1 /\ lease = 0 /\ lease' = 1
        /\ LiveCmds' = LiveCmds /\ owed' = owed
    BY <1>6 DEF Attach, Held, LiveCmds, tasks
  <2> QED BY <1>0, <2>1 DEF LeaseCounts
<1>7. CASE RegistrationFails \/ Exit
  <2>1. Held = 1 /\ Held' = 0 /\ lease' = lease - 1 /\ owed' = owed
    BY <1>7 DEF RegistrationFails, Exit, Held, tasks
  <2>2. LiveCmds' = LiveCmds
    <3>1. CASE RegistrationFails
      BY <3>1, TypeParts DEF RegistrationFails, LiveCmds, Typed, Live, Running, Aborted
    <3>2. CASE Exit
      BY <3>2 DEF Exit, LiveCmds, tasks
    <3> QED BY <1>7, <3>1, <3>2
  <2> QED BY <1>0, <2>1, <2>2 DEF LeaseCounts
<1>8. CASE AbortLoop
  BY <1>0, <1>8, AbortLoopWork DEF LeaseCounts
<1> QED BY <1>1, <1>2, <1>3, <1>4, <1>5, <1>6, <1>7, <1>8, NextIs

\* A cleanup is left by a task whose operation is over, and its command never
\* goes back to one.
LEMMA OwedStep ==
  ASSUME TypeOK, OwedOnce, Next
  PROVE  OwedOnce'
<1> DEFINE Past == {"handled", "dropping", "over", "panicked"}
<1>0. cmd \in [Cmds -> CmdStates] /\ owed \in SUBSET Cmds
  BY TypeParts, WorkCounts DEF Typed
<1>1. ASSUME owed' \subseteq owed,
             \A c \in Cmds : cmd[c] \in Past => cmd'[c] \in Past
      PROVE  OwedOnce'
  BY <1>0, <1>1 DEF OwedOnce
<1>2. CASE Steady
  <2>1. CASE cmd' = cmd
    BY <1>1, <1>2, <2>1, SteadyWork
  <2>2. ASSUME NEW c \in Cmds, NEW s, Become(c, s), cmd[c] \in Past => s \in Past
        PROVE  OwedOnce'
    <3>1. \A x \in Cmds : cmd[x] \in Past => cmd'[x] \in Past
      BY <1>0, <2>2 DEF Become
    <3> QED BY <1>1, <1>2, <3>1, SteadyWork
  <2>3. ASSUME NEW c \in Cmds,
               \/ Send(c) \/ AcquirePermit(c) \/ StartRefused(c)
               \/ CommandPanicked(c) \/ CollectPanic(c)
        PROVE  OwedOnce'
    BY <2>2, <2>3 DEF Send, AcquirePermit, StartRefused, CommandPanicked,
         CollectPanic
  <2>4. CASE Unsubscribe
    <3>1. \A x \in Cmds : cmd[x] \in Past => cmd'[x] \in Past
      BY <1>0, <2>4 DEF Unsubscribe
    <3> QED BY <1>1, <1>2, <3>1, SteadyWork
  <2>5. CASE DrainTimeout
    <3>1. \A x \in Cmds : cmd[x] \in Past => cmd'[x] \in Past
      BY <1>0, <2>5 DEF DrainTimeout, AbortAll, AbortTask, Mine, Running
    <3> QED BY <1>1, <1>2, <3>1, SteadyWork
  <2>6. CASE Registered \/ Publish \/ PublisherStops \/ PublisherReturns \/ PublisherPanics
             \/ Requested \/ IngressStopped \/ SubscriptionClosed
             \/ Drained \/ Unwound \/ UnwindTimeout \/ WaitForCleanup \/ Flush
    BY <2>1, <2>6 DEF Registered, Publish, PublisherStops, PublisherReturns, PublisherPanics, Requested,
         IngressStopped, SubscriptionClosed, Drained, Unwound, UnwindTimeout,
         WaitForCleanup, Flush, tasks
  <2> QED BY <1>2, <2>3, <2>4, <2>5, <2>6 DEF Steady
<1>3. ASSUME NEW c \in Cmds, Accept(c) PROVE OwedOnce'
  BY <1>0, <1>3, AcceptWork DEF OwedOnce
<1>4. ASSUME NEW c \in Cmds, Handle(c) PROVE OwedOnce'
  BY <1>0, <1>4, HandleWork DEF OwedOnce
<1>5. ASSUME NEW c \in Cmds, Ends(c) PROVE OwedOnce'
  BY <1>0, <1>5, EndWork DEF OwedOnce
<1>6. ASSUME NEW c \in Cmds, CleanupDone(c) PROVE OwedOnce'
  BY <1>6 DEF CleanupDone, OwedOnce
<1>7. CASE Attach \/ Exit
  BY <1>1, <1>7 DEF Attach, Exit, tasks
<1>8. CASE RegistrationFails
  BY <1>0, <1>1, <1>8 DEF RegistrationFails
<1>9. CASE AbortLoop
  <2>1. \A x \in Cmds : cmd[x] \in Past => cmd'[x] \in Past
    BY <1>0, <1>9 DEF AbortLoop, AbortTask, Mine, Running
  <2> QED BY <1>1, <1>9, <2>1, AbortLoopWork
<1> QED BY <1>2, <1>3, <1>4, <1>5, <1>6, <1>7, <1>8, <1>9, NextIs

\* A lease that nobody holds means that no work is left.
LEMMA FreeLease ==
  ASSUME TypeOK, LeaseCounts, lease = 0
  PROVE  LiveCmds = {} /\ owed = {}
<1>1. /\ LiveCmds \in SUBSET Cmds /\ owed \in SUBSET Cmds
      /\ Cardinality(LiveCmds) \in Nat /\ Cardinality(owed) \in Nat
      /\ Held \in {0, 1}
  BY WorkCounts DEF Held
<1>2. IsFiniteSet(LiveCmds) /\ IsFiniteSet(owed)
  BY <1>1, CmdsFinite
<1>3. Cardinality(LiveCmds) = 0 /\ Cardinality(owed) = 0
  BY <1>1 DEF LeaseCounts
<1> QED BY <1>2, <1>3, FS_EmptySet

\* A failed registration, and an exit, leave the work as it was.
LEMMA LeavingWork ==
  ASSUME TypeOK, RegistrationFails \/ Exit
  PROVE  LiveCmds' = LiveCmds /\ UNCHANGED <<gen, owed, by, failed>>
         /\ phase' = "exited"
<1>1. UNCHANGED <<gen, owed, by, failed>> /\ phase' = "exited"
  BY DEF RegistrationFails, Exit, tasks
<1>2. CASE RegistrationFails
  BY <1>1, <1>2, TypeParts DEF RegistrationFails, LiveCmds, Typed, Live, Running, Aborted
<1>3. CASE Exit
  BY <1>1, <1>3 DEF Exit, LiveCmds, tasks
<1> QED BY <1>2, <1>3

\* Work is begun by the attached loop only, and a loop attaches over none.
LEMMA LatestStep ==
  ASSUME TypeOK, OwedOnce, LeaseCounts, LatestOnly, Next
  PROVE  LatestOnly'
<1>0. \A c \in Cmds : c \in LiveCmds \/ c \in owed => by[c] = gen
  BY DEF LatestOnly, LiveCmds
<1>1. SUFFICES \A c \in Cmds : c \in LiveCmds' \/ c \in owed' => by'[c] = gen'
  BY DEF LatestOnly, LiveCmds
<1>2. CASE Steady
  BY <1>0, <1>2, SteadyWork
<1>3. ASSUME NEW c \in Cmds, Accept(c)
      PROVE  \A x \in Cmds : x \in LiveCmds' \/ x \in owed' => by'[x] = gen'
  <2>1. c \notin owed
    BY <1>3, AcceptWork DEF OwedOnce
  <2> QED BY <1>0, <1>3, <2>1, AcceptWork
<1>4. ASSUME NEW c \in Cmds, Handle(c)
      PROVE  \A x \in Cmds : x \in LiveCmds' \/ x \in owed' => by'[x] = gen'
  <2>1. c \in LiveCmds
    BY <1>4, HandleWork DEF LiveCmds, Live, Running
  <2> QED BY <1>0, <1>4, <2>1, HandleWork
<1>5. ASSUME NEW c \in Cmds, Ends(c)
      PROVE  \A x \in Cmds : x \in LiveCmds' \/ x \in owed' => by'[x] = gen'
  BY <1>0, <1>5, EndWork
<1>6. ASSUME NEW c \in Cmds, CleanupDone(c)
      PROVE  \A x \in Cmds : x \in LiveCmds' \/ x \in owed' => by'[x] = gen'
  BY <1>0, <1>6 DEF CleanupDone, LiveCmds, loop
<1>7. CASE Attach
  <2>1. LiveCmds = {} /\ owed = {}
    BY <1>7, FreeLease DEF Attach
  <2> QED BY <1>7, <2>1 DEF Attach, LiveCmds, tasks
<1>8. CASE RegistrationFails \/ Exit
  BY <1>0, <1>8, LeavingWork
<1>9. CASE AbortLoop
  BY <1>0, <1>9, AbortLoopWork
<1> QED BY <1>2, <1>3, <1>4, <1>5, <1>6, <1>7, <1>8, <1>9, NextIs

\* A shutdown step only adds to what has to be reported.
LEMMA FailedGrows ==
  ASSUME TypeOK, Steady
  PROVE  failed \subseteq failed'
BY DEF Steady, Send, AcquirePermit, StartRefused, CommandPanicked, CollectPanic,
   LeaveLoop, Registered, Publish, PublisherStops, PublisherReturns, PublisherPanics, Requested, IngressStopped,
   SubscriptionClosed, Unsubscribe, Drained, DrainTimeout, AbortAll, Unwound,
   UnwindTimeout, WaitForCleanup, Flush, loop

\* The tasks a loop has running or unwinding where it is.
NoAborted == \A c \in Cmds : cmd[c] \notin Aborted
NoRunning == \A c \in Cmds : cmd[c] \notin Running

LEMMA NoLive == (NoAborted /\ NoRunning) <=> LiveCmds = {}
BY DEF NoAborted, NoRunning, LiveCmds, Live

\* Nothing but an abort makes a command unwind, and nothing but its loop's
\* acceptance makes it run.
LEMMA SteadyCmds ==
  ASSUME TypeOK, Steady
  PROVE  /\ NoRunning => NoRunning'
         /\ NoAborted /\ ~DrainTimeout => NoAborted'
<1>0. cmd \in [Cmds -> CmdStates]
  BY TypeParts DEF Typed
<1>1. CASE cmd' = cmd
  BY <1>1 DEF NoRunning, NoAborted
<1>2. ASSUME NEW c \in Cmds, NEW s, Become(c, s), s \notin Aborted,
             s \in Running => cmd[c] \in Running
      PROVE  (NoRunning => NoRunning') /\ (NoAborted => NoAborted')
  BY <1>0, <1>2 DEF Become, NoRunning, NoAborted
<1>3. ASSUME NEW c \in Cmds,
             \/ Send(c) \/ AcquirePermit(c) \/ StartRefused(c)
             \/ CommandPanicked(c) \/ CollectPanic(c)
      PROVE  (NoRunning => NoRunning') /\ (NoAborted => NoAborted')
  BY <1>2, <1>3 DEF Send, AcquirePermit, StartRefused, CommandPanicked,
       CollectPanic, Running, Aborted
<1>4. CASE Unsubscribe
  BY <1>0, <1>4 DEF Unsubscribe, NoRunning, NoAborted, Running, Aborted
<1>5. CASE DrainTimeout
  BY <1>0, <1>5 DEF DrainTimeout, AbortAll, AbortTask, NoRunning, Running
<1>6. CASE Registered \/ Publish \/ PublisherStops \/ PublisherReturns \/ PublisherPanics
           \/ Requested \/ IngressStopped \/ SubscriptionClosed
           \/ Drained \/ Unwound \/ UnwindTimeout \/ WaitForCleanup \/ Flush
  BY <1>1, <1>6 DEF Registered, Publish, PublisherStops, PublisherReturns, PublisherPanics, Requested,
       IngressStopped, SubscriptionClosed, Drained, Unwound, UnwindTimeout,
       WaitForCleanup, Flush, tasks
<1> QED BY <1>3, <1>4, <1>5, <1>6 DEF Steady

\* PhaseWork in terms of the sets above.
PhaseParts ==
  /\ phase \in BeforeRunning => LiveCmds = {} /\ owed = {}
  /\ phase \in BeforeAbort => NoAborted
  /\ phase \notin BeforeAbort => NoRunning
  /\ phase \in AfterWait /\ "running" \notin failed => LiveCmds = {}
  /\ phase \in AfterCleanup /\ "running" \notin failed /\ "cleanup" \notin failed
       => owed = {}

LEMMA PhaseIs == PhaseWork <=> PhaseParts
BY DEF PhaseWork, PhaseParts, NoAborted, NoRunning

\* A step that begins no work and keeps the loop where it is.
LEMMA PhaseKept ==
  ASSUME PhaseWork, phase' = phase, failed \subseteq failed',
         LiveCmds' \subseteq LiveCmds, owed' \subseteq owed,
         NoRunning => NoRunning', NoAborted => NoAborted'
  PROVE  PhaseWork'
<1>1. PhaseParts
  BY PhaseIs
<1>2. PhaseParts'
  BY <1>1 DEF PhaseParts
<1> QED BY <1>2, PhaseIs, PTL

\* A loop that runs has aborted nothing, and one past its abort runs nothing;
\* what it did not wait for is reported.
LEMMA PhaseStep ==
  ASSUME TypeOK, OwedOnce, LeaseCounts, LatestOnly, PhaseWork, Next
  PROVE  PhaseWork'
<1> USE DEF BeforeRunning, BeforeAbort, AfterWait, AfterCleanup
<1>0. PhaseParts /\ cmd \in [Cmds -> CmdStates] /\ phase \in Phases
  BY PhaseIs, TypeParts DEF Typed
<1>01. SUFFICES PhaseParts'
  BY PhaseIs, PTL
<1>02. ASSUME PhaseWork' PROVE PhaseParts'
  BY <1>02, PhaseIs, PTL
<1>03. \A c \in Cmds : cmd[c] \in Live => by[c] = gen
  BY DEF LatestOnly
<1>1. CASE Steady
  <2>0. /\ LiveCmds' = LiveCmds /\ owed' = owed /\ failed \subseteq failed'
        /\ NoRunning => NoRunning'
        /\ NoAborted /\ ~DrainTimeout => NoAborted'
    BY <1>1, SteadyWork, FailedGrows, SteadyCmds
  <2>1. CASE phase' = phase
    <3>1. ~DrainTimeout
      BY <2>1 DEF DrainTimeout, AbortAll
    <3> QED BY <1>02, <2>0, <2>1, <3>1, PhaseKept
  <2>2. CASE Registered
    <3>1. phase = "registering" /\ phase' = "running" /\ ~DrainTimeout
      BY <2>2 DEF Registered, DrainTimeout
    <3>2. NoAborted
      BY <1>0, <3>1, NoLive DEF PhaseParts
    <3> QED BY <2>0, <3>1, <3>2 DEF PhaseParts
  <2>3. CASE Requested \/ IngressStopped \/ SubscriptionClosed \/ PublisherStops \/ Unsubscribe
             \/ \E c \in Cmds : CommandPanicked(c)
    <3>1. phase \in {"running", "unsubscribing"}
          /\ phase' \in {"unsubscribing", "draining"}
      BY <2>3 DEF Requested, IngressStopped, SubscriptionClosed, PublisherStops, Unsubscribe,
           CommandPanicked, LeaveLoop
    <3>2. NoAborted /\ ~DrainTimeout
      BY <1>0, <3>1 DEF PhaseParts, DrainTimeout
    <3> QED BY <2>0, <3>1, <3>2 DEF PhaseParts
  <2>4. CASE Drained
    <3>1. phase = "draining" /\ phase' = "recovering" /\ Mine(Running) = {}
      BY <2>4 DEF Drained, Mine
    <3>2. NoRunning
      BY <1>03, <3>1 DEF Mine, NoRunning, Live
    <3>3. NoAborted
      BY <1>0, <3>1 DEF PhaseParts
    <3>4. LiveCmds = {}
      BY <3>2, <3>3, NoLive
    <3> QED BY <2>0, <3>1, <3>2, <3>4 DEF PhaseParts
  <2>5. CASE DrainTimeout
    <3>1. phase' = "unwinding"
      BY <2>5 DEF DrainTimeout, AbortAll
    <3>2. NoRunning'
      <4>1. ASSUME NEW c \in Cmds PROVE cmd'[c] \notin Running
        <5>1. cmd[c] \in Running => c \in Mine(Running)
          BY <1>03 DEF Mine, Live
        <5> QED BY <1>0, <2>5, <5>1 DEF DrainTimeout, AbortAll, AbortTask, Running
      <4> QED BY <4>1 DEF NoRunning
    <3> QED BY <3>1, <3>2 DEF PhaseParts
  <2>6. CASE Unwound
    <3>1. phase = "unwinding" /\ phase' = "recovering" /\ Mine(Aborted) = {}
      BY <2>6 DEF Unwound, Mine
    <3>2. NoAborted
      BY <1>03, <3>1 DEF Mine, NoAborted, Live
    <3>3. NoRunning
      BY <1>0, <3>1 DEF PhaseParts
    <3>4. LiveCmds = {}
      BY <3>2, <3>3, NoLive
    <3> QED BY <2>0, <3>1, <3>3, <3>4 DEF PhaseParts
  <2>7. CASE UnwindTimeout
    <3>1. phase = "unwinding" /\ phase' = "recovering" /\ "running" \in failed'
      BY <2>7 DEF UnwindTimeout
    <3> QED BY <1>0, <2>0, <3>1 DEF PhaseParts
  <2>8. CASE WaitForCleanup
    <3>1. phase = "recovering" /\ phase' = "flushing"
          /\ (owed = {} \/ "cleanup" \in failed')
      BY <2>8 DEF WaitForCleanup
    <3> QED BY <1>0, <2>0, <3>1 DEF PhaseParts
  <2>9. CASE Flush
    <3>1. phase = "flushing" /\ phase' = "stopping"
      BY <2>9 DEF Flush
    <3> QED BY <1>0, <2>0, <3>1 DEF PhaseParts
  <2>10. ASSUME NEW c \in Cmds,
                Send(c) \/ AcquirePermit(c) \/ StartRefused(c) \/ CollectPanic(c)
         PROVE  phase' = phase
    BY <2>10 DEF Send, AcquirePermit, StartRefused, CollectPanic, loop
  <2>11. CASE Publish \/ PublisherReturns \/ PublisherPanics
    BY <2>1, <2>11 DEF Publish, PublisherReturns, PublisherPanics, loop
  <2> QED BY <1>1, <2>1, <2>2, <2>3, <2>4, <2>5, <2>6, <2>7, <2>8, <2>9, <2>10, <2>11
          DEF Steady
<1>2. ASSUME NEW c \in Cmds, Accept(c) PROVE PhaseParts'
  <2>1. phase = "running" /\ phase' = "running"
    BY <1>2, AcceptWork
  <2>2. NoAborted'
    BY <1>0, <1>2, <2>1, AcceptWork DEF PhaseParts, NoAborted, Aborted
  <2> QED BY <2>1, <2>2 DEF PhaseParts
<1>3. ASSUME NEW c \in Cmds, Handle(c) PROVE PhaseParts'
  <2>1. phase' = phase /\ phase \in BeforeAbort
    BY <1>0, <1>3, HandleWork DEF PhaseParts, NoRunning, Running
  <2>2. NoAborted'
    BY <1>0, <1>3, <2>1, HandleWork DEF PhaseParts, NoAborted, Aborted
  <2> QED BY <2>1, <2>2 DEF PhaseParts
<1>4. ASSUME NEW c \in Cmds, Ends(c) PROVE PhaseParts'
  <2>1. /\ LiveCmds # {} /\ LiveCmds' \subseteq LiveCmds
        /\ phase' = phase /\ failed' = failed
    BY <1>4, EndWork
  <2>2. (NoRunning => NoRunning') /\ (NoAborted => NoAborted')
    BY <1>4, EndWork DEF NoRunning, NoAborted, Running, Aborted
  <2> QED BY <1>0, <2>1, <2>2 DEF PhaseParts
<1>5. ASSUME NEW c \in Cmds, CleanupDone(c) PROVE PhaseParts'
  <2>1. /\ UNCHANGED <<phase, failed, cmd>> /\ owed' \subseteq owed
        /\ LiveCmds' = LiveCmds
    BY <1>5 DEF CleanupDone, loop, LiveCmds
  <2> QED BY <1>0, <2>1 DEF PhaseParts, NoRunning, NoAborted
<1>6. CASE Attach
  <2>1. LiveCmds = {} /\ owed = {}
    BY <1>6, FreeLease DEF Attach
  <2>2. LiveCmds' = {} /\ owed' = {} /\ phase' = "registering"
    BY <1>6, <2>1 DEF Attach, LiveCmds, tasks
  <2>3. NoRunning'
    BY <2>2 DEF NoRunning, LiveCmds, Live
  <2> QED BY <2>2, <2>3 DEF PhaseParts
<1>7. CASE RegistrationFails \/ Exit
  <2>1. LiveCmds' = LiveCmds /\ owed' = owed /\ failed' = failed /\ phase' = "exited"
    BY <1>7, LeavingWork
  <2>2. phase \in {"registering", "stopping"}
    BY <1>7 DEF RegistrationFails, Exit
  <2>3. NoRunning'
    <3>1. NoRunning
      BY <1>0, <2>2 DEF PhaseParts
    <3>2. \A c \in Cmds : cmd'[c] \in {cmd[c], "over"}
      BY <1>0, <1>7 DEF RegistrationFails, Exit, tasks
    <3> QED BY <3>1, <3>2 DEF NoRunning, Running
  <2> QED BY <1>0, <2>1, <2>2, <2>3 DEF PhaseParts
<1>8. CASE AbortLoop
  <2>1. phase' = "exited" /\ "running" \in failed'
    BY <1>8, AbortLoopWork
  <2>2. NoRunning'
    <3>1. ASSUME NEW c \in Cmds PROVE cmd'[c] \notin Running
      <4>1. cmd[c] \in Running => c \in Mine(Running)
        BY <1>03 DEF Mine, Live
      <4> QED BY <1>0, <1>8, <4>1 DEF AbortLoop, AbortTask, Running
    <3> QED BY <3>1 DEF NoRunning
  <2> QED BY <2>1, <2>2 DEF PhaseParts
<1> QED BY <1>1, <1>2, <1>3, <1>4, <1>5, <1>6, <1>7, <1>8, NextIs

-----------------------------------------------------------------------------
(* The theorems.                                                           *)

\* The inductive invariant of the control loop holds in every reachable state.
THEOREM ControlInductive == Spec => []IndInv
<1>1. IndInv /\ [Next]_vars => IndInv'
  <2> SUFFICES ASSUME IndInv, [Next]_vars PROVE IndInv' OBVIOUS
  <2>1. CASE Next
    <3>1. LeaseCounts' /\ Typed'
      BY <2>1, LeaseStep, TypedStep DEF IndInv
    <3>2. TypeOK'
      BY <3>1, LeaseBound, PTL
    <3>3. OwedOnce' /\ LatestOnly' /\ PhaseWork'
      BY <2>1, OwedStep, LatestStep, PhaseStep DEF IndInv
    <3> QED BY <3>1, <3>2, <3>3 DEF IndInv
  <2>2. CASE UNCHANGED vars
    BY <2>2 DEF vars, loop, tasks, IndInv, TypeOK, LeaseCounts, Held, LiveCmds,
         OwedOnce, LatestOnly, PhaseWork
  <2> QED BY <2>1, <2>2
<1> QED BY <1>1, InitIndInv, PTL DEF Spec

\* The reply queue stays within its capacity, and the lease is never
\* released more often than it was taken.
THEOREM ControlTyped == Spec => []TypeOK
BY ControlInductive, PTL DEF IndInv

\* While a loop is attached, no earlier loop's command runs, unwinds or is
\* cleaned up on its host.
THEOREM ControlOne == Spec => []OneController
<1>1. IndInv => OneController
  BY DEF IndInv, LatestOnly, OneController
<1> QED BY <1>1, ControlInductive, PTL

\* A shutdown that reports nothing unfinished left nothing unfinished.
THEOREM ControlHonest == Spec => []ShutdownHonest
<1>1. IndInv => ShutdownHonest
  <2> SUFFICES ASSUME IndInv, phase = "exited", failed \cap {"running", "cleanup"} = {}
               PROVE  Mine(Live) \cup owed = {}
    BY DEF ShutdownHonest
  <2>1. LiveCmds = {} /\ owed = {}
    BY DEF IndInv, PhaseWork, AfterWait, AfterCleanup
  <2> QED BY <2>1 DEF Mine, LiveCmds
<1> QED BY <1>1, ControlInductive, PTL

=============================================================================
