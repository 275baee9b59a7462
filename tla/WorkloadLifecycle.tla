------------------------- MODULE WorkloadLifecycle -------------------------
(***************************************************************************)
(* The lifecycle of workloads on one wasmCloud host: the map of workload   *)
(* ids to slots (host/mod.rs), the journal of what a start has bound       *)
(* (engine/workload.rs, WorkloadResources), the cleanup guard that hands   *)
(* an interrupted start or stop to a background recovery                   *)
(* (host/cleanup.rs), and the control loop's bounded start                 *)
(* (washlet/mod.rs).                                                       *)
(*                                                                         *)
(* Every start, every stop of a running workload and every failure of a    *)
(* running workload mints a reservation, and the model keys an operation   *)
(* by it.  What runs under the map's write lock is one action; every await *)
(* is a place where other actions may come in between and, except in a     *)
(* plugin's failure, where the operation's future may be dropped.          *)
(***************************************************************************)
EXTENDS Integers, FiniteSets

CONSTANTS
  Ids,                  \* workload ids
  PluginIds,            \* ids taken by the host's plugins
  NoId,                 \* the id of a reservation nobody has minted yet
  NumBindings,          \* bindings of a workload; the last is its HTTP routes
  MaxReservations,      \* bound on the reservations a behaviour mints
  MaxConcurrentStarts,  \* permits of the control loop's start semaphore
  Stoppers,             \* concurrent callers of workload_stop
  Task, Nobody,         \* who holds a recovery's serial lock besides a stopper
  OffRuntimeDrops       \* may a guard be dropped outside the async runtime?

ASSUME ConstantsAssumption ==
  /\ PluginIds \subseteq Ids
  /\ NoId \notin Ids
  /\ NumBindings \in Nat
  /\ MaxReservations \in Nat
  /\ MaxConcurrentStarts \in Nat \ {0}
  /\ Task # Nobody /\ {Task, Nobody} \cap Stoppers = {}
  /\ OffRuntimeDrops \in BOOLEAN

Reservation == 1 .. MaxReservations
Binding == 1 .. NumBindings

VARIABLES
  slot,     \* Ids -> HostWorkload: the host's `workloads` map
  next,     \* the `reservations` counter
  kind,     \* Reservation -> which operation minted it
  wid,      \* Reservation -> the workload id it is for
  of,       \* Reservation -> the start whose workload it builds or tears down
  pc,       \* Reservation -> where the operation is
  journal,  \* Reservation -> bindings its WorkloadResources still owes
  todo,     \* Reservation -> bindings the release under way has yet to visit
  err,      \* Reservation -> has that release seen a failure?
  retain,   \* Reservation -> retain_failure
  task,     \* Reservation -> is its background recovery task alive?
  serial,   \* Reservation -> holder of its recovery's `serial` lock
  recov,    \* Ids -> `workload_recoveries`: a reservation, or 0
  bound,    \* Ids -> Binding -> start whose entry the plugin keeps, or 0
  stopper,  \* Stoppers -> a call of workload_stop in progress
  host      \* "up", "stopping" (admits no start), "stopped"

ops == <<kind, wid, of, pc>>
journals == <<journal, todo, err>>
recovery == <<retain, task, serial, recov>>
vars == <<slot, next, ops, journals, recovery, bound, stopper, host>>

-----------------------------------------------------------------------------
(* HostWorkload, one constructor per variant. A running slot names the     *)
(* start that built its workload.                                          *)

Free        == [st |-> "free", r |-> 0]
Starting(r) == [st |-> "starting", r |-> r]
Running(r)  == [st |-> "running", r |-> r]
Stopping(r) == [st |-> "stopping", r |-> r]
Failing(r)  == [st |-> "failing", r |-> r]
Error       == [st |-> "error", r |-> 0]

SlotState == {"free", "starting", "running", "stopping", "failing", "error"}
Slot == [st : SlotState, r : 0 .. MaxReservations]

Idle == [pc |-> "idle", id |-> NoId, r |-> 0]
Stopper == [pc : {"idle", "decide", "recover", "collect"},
            id : Ids \cup {NoId}, r : 0 .. MaxReservations]

Kinds == {"none", "start", "stop", "fail"}
PCs == {"idle", "queued", "preparing", "native", "binding", "releasing",
        "unbinding", "done", "dropped"}

TypeOK ==
  /\ slot \in [Ids -> Slot]
  /\ next \in 1 .. MaxReservations + 1
  /\ kind \in [Reservation -> Kinds]
  /\ wid \in [Reservation -> Ids \cup {NoId}]
  /\ of \in [Reservation -> 0 .. MaxReservations]
  /\ pc \in [Reservation -> PCs]
  /\ journal \in [Reservation -> SUBSET Binding]
  /\ todo \in [Reservation -> SUBSET Binding]
  /\ err \in [Reservation -> BOOLEAN]
  /\ retain \in [Reservation -> BOOLEAN]
  /\ task \in [Reservation -> BOOLEAN]
  /\ serial \in [Reservation -> Stoppers \cup {Task, Nobody}]
  /\ recov \in [Ids -> 0 .. MaxReservations]
  /\ bound \in [Ids -> [Binding -> 0 .. MaxReservations]]
  /\ stopper \in [Stoppers -> Stopper]
  /\ host \in {"up", "stopping", "stopped"}

Init ==
  /\ slot = [i \in Ids |-> Free]
  /\ next = 1
  /\ kind = [r \in Reservation |-> "none"]
  /\ wid = [r \in Reservation |-> NoId]
  /\ of = [r \in Reservation |-> 0]
  /\ pc = [r \in Reservation |-> "idle"]
  /\ journal = [r \in Reservation |-> {}]
  /\ todo = [r \in Reservation |-> {}]
  /\ err = [r \in Reservation |-> FALSE]
  /\ retain = [r \in Reservation |-> FALSE]
  /\ task = [r \in Reservation |-> FALSE]
  /\ serial = [r \in Reservation |-> Nobody]
  /\ recov = [i \in Ids |-> 0]
  /\ bound = [i \in Ids |-> [b \in Binding |-> 0]]
  /\ stopper = [s \in Stoppers |-> Idle]
  /\ host = "up"

-----------------------------------------------------------------------------
(* Helpers shared by the operations.                                       *)

\* The slot of r's id is still the one r holds.
Mine(r) == slot[wid[r]] \in {Starting(r), Stopping(r), Failing(r)}

\* Host::reserve: mint the next reservation for an operation on id.
Mint(r, k, id, start, at) ==
  /\ r = next
  /\ r \in Reservation
  /\ next' = next + 1
  /\ kind' = [kind EXCEPT ![r] = k]
  /\ wid' = [wid EXCEPT ![r] = id]
  /\ of' = [of EXCEPT ![r] = start]
  /\ pc' = [pc EXCEPT ![r] = at]

Goto(r, at) ==
  /\ pc' = [pc EXCEPT ![r] = at]
  /\ UNCHANGED <<kind, wid, of>>

\* Host::finish_teardown: write the slot only if it is still r's.
FinishTeardown(r, failed) ==
  slot' = [slot EXCEPT ![wid[r]] =
             IF @ \in {Stopping(r), Failing(r)}
             THEN IF failed \/ @ = Failing(r) THEN Error ELSE Free
             ELSE @]

\* Host::workload_release: hand an id back before anything was bound.
WorkloadRelease(r) ==
  slot' = [slot EXCEPT ![wid[r]] =
             IF @ \in {Starting(r), Stopping(r)} THEN Free
             ELSE IF @ = Failing(r) THEN Error
             ELSE @]

\* Mutant: off the runtime the recovery is not recorded either.
GuardDropLosesRecovery(r, failureReported) ==
  /\ Goto(r, "dropped")
  /\ retain' = [retain EXCEPT ![r] = failureReported]
  /\ \E spawned \in IF OffRuntimeDrops THEN BOOLEAN ELSE {TRUE} :
       /\ task' = [task EXCEPT ![r] = spawned]
       /\ recov' = [recov EXCEPT ![wid[r]] = IF spawned THEN r ELSE @]
  /\ UNCHANGED serial

\* WorkloadCleanupGuard::drop of an armed guard: record the recovery and
\* spawn the task that retries it. Off the runtime nothing can be spawned.
GuardDrop(r, failureReported) ==
  /\ Goto(r, "dropped")
  /\ recov' = [recov EXCEPT ![wid[r]] = r]
  /\ retain' = [retain EXCEPT ![r] = failureReported]
  /\ \E spawned \in IF OffRuntimeDrops THEN BOOLEAN ELSE {TRUE} :
       task' = [task EXCEPT ![r] = spawned]
  /\ UNCHANGED serial

\* Snapshot the journal at the beginning of WorkloadResources::release.
BeginRelease(r, owed) ==
  /\ journal' = [journal EXCEPT ![r] = owed]
  /\ todo' = [todo EXCEPT ![r] = owed]
  /\ err' = [err EXCEPT ![r] = FALSE]

-----------------------------------------------------------------------------
(* Start: reserve, wait for a permit, prepare, bind, commit.               *)

\* Host::workload_reserve, called by the control loop before it queues for a
\* permit. A refusal (host stopped, id of a plugin, id taken, host memory)
\* changes nothing.
Reserve(id) ==
  /\ host = "up"
  /\ id \notin PluginIds
  /\ slot[id] = Free
  /\ Mint(next, "start", id, next, "queued")
  /\ slot' = [slot EXCEPT ![id] = Starting(next)]
  /\ UNCHANGED <<journals, recovery, bound, stopper, host>>

\* Mutant: a start that ends never gives its permit back.
PermittedLeaks == {r \in Reservation :
                     kind[r] = "start" /\ pc[r] \notin {"idle", "queued"}}

\* The starts that hold a permit of the control loop's semaphore.
Permitted == {r \in Reservation :
                /\ kind[r] = "start"
                /\ pc[r] \in {"preparing", "native", "binding", "releasing"}}

AcquirePermit(r) ==
  /\ pc[r] = "queued"
  /\ Cardinality(Permitted) < MaxConcurrentStarts
  /\ Goto(r, "preparing")
  /\ UNCHANGED <<slot, next, journals, recovery, bound, stopper, host>>

\* Mutant: a start that ends before it bound anything keeps its id.
PrepareFailsKeepsId(r) ==
  /\ pc[r] \in {"queued", "preparing"}
  /\ Goto(r, "done")
  /\ UNCHANGED <<slot, next, journals, recovery, bound, stopper, host>>

\* The image pull failed or the start's bound expired while preparing, or the
\* semaphore was closed while queueing: nothing is bound, so the id goes
\* straight back.
PrepareFails(r) ==
  /\ pc[r] \in {"queued", "preparing"}
  /\ WorkloadRelease(r)
  /\ Goto(r, "done")
  /\ UNCHANGED <<next, journals, recovery, bound, stopper, host>>

\* Hand cleanup to workload_start_reserved, with no await in between.
PrepareDone(r) ==
  /\ pc[r] = "preparing"
  /\ Goto(r, "native")
  /\ UNCHANGED <<slot, next, journals, recovery, bound, stopper, host>>

\* Bindings are made in ascending order.
NextBinding(r, b) ==
  /\ b \notin journal[r]
  /\ \A c \in Binding : c < b => c \in journal[r]

\* The binding being made is the newest of the journal.
IsTop(b, S) == b \in S /\ \A c \in S : c <= b

\* bind_plugins_for_start: journal the binding, then call the plugin.
BindBegin(r) ==
  /\ pc[r] = "native"
  /\ \E b \in Binding :
       /\ NextBinding(r, b)
       /\ journal' = [journal EXCEPT ![r] = @ \cup {b}]
  /\ Goto(r, "binding")
  /\ UNCHANGED <<slot, next, todo, err, recovery, bound, stopper, host>>

\* The plugin records the workload under its id, while bind still runs.
BindApply(r) ==
  /\ pc[r] = "binding"
  /\ \E b \in journal[r] :
       /\ IsTop(b, journal[r])
       /\ bound[wid[r]][b] # r
       /\ bound' = [bound EXCEPT ![wid[r]][b] = r]
  /\ UNCHANGED <<slot, next, ops, journals, recovery, stopper, host>>

\* on_workload_bind returned Ok.
BindDone(r) ==
  /\ pc[r] = "binding"
  /\ \E b \in journal[r] : IsTop(b, journal[r]) /\ bound[wid[r]][b] = r
  /\ Goto(r, "native")
  /\ UNCHANGED <<slot, next, journals, recovery, bound, stopper, host>>

\* Mutant: publish the workload while bindings are still to be made.
CommitEarly(r) ==
  /\ pc[r] = "native"
  /\ slot[wid[r]] = Starting(r)
  /\ slot' = [slot EXCEPT ![wid[r]] = Running(r)]
  /\ Goto(r, "done")
  /\ UNCHANGED <<next, journals, recovery, bound, stopper, host>>

\* Mutant: publish the workload over whatever marker the slot holds.
CommitOverMarker(r) ==
  /\ pc[r] = "native"
  /\ journal[r] = Binding
  /\ slot' = [slot EXCEPT ![wid[r]] = Running(r)]
  /\ Goto(r, "done")
  /\ UNCHANGED <<next, journals, recovery, bound, stopper, host>>

\* The start succeeded and its slot is untouched: publish the workload.
Commit(r) ==
  /\ pc[r] = "native"
  /\ journal[r] = Binding
  /\ slot[wid[r]] = Starting(r)
  /\ slot' = [slot EXCEPT ![wid[r]] = Running(r)]
  /\ Goto(r, "done")
  /\ UNCHANGED <<next, journals, recovery, bound, stopper, host>>

\* The start failed at any await (an error, or the plugin lifecycle timeout),
\* or it succeeded and finds its slot marked by a stop or a failure. Either
\* way it owns the release of what it bound.
Abort(r) ==
  /\ \/ pc[r] \in {"native", "binding"}
        /\ slot' = [slot EXCEPT ![wid[r]] = IF @ = Starting(r)
                                            THEN Failing(r) ELSE @]
     \/ pc[r] = "native"
        /\ journal[r] = Binding
        /\ slot[wid[r]] # Starting(r)
        /\ UNCHANGED slot
  /\ BeginRelease(r, journal[r])
  /\ Goto(r, "releasing")
  /\ UNCHANGED <<next, recovery, bound, stopper, host>>

-----------------------------------------------------------------------------
(* WorkloadResources::release, run by the operation or by its recovery:    *)
(* newest binding first, success recorded before the next await.           *)

ReleaseRuns(r) == pc[r] = "releasing" \/ serial[r] # Nobody

\* The plugin drops its entry for the id, whoever's it is, while unbind runs.
UnbindApply(r) ==
  /\ ReleaseRuns(r)
  /\ \E b \in todo[r] :
       /\ IsTop(b, todo[r])
       /\ bound[wid[r]][b] # 0
       /\ bound' = [bound EXCEPT ![wid[r]][b] = 0]
  /\ UNCHANGED <<slot, next, ops, journals, recovery, stopper, host>>

\* on_workload_unbind returned Ok.
UnbindOk(r) ==
  /\ ReleaseRuns(r)
  /\ \E b \in todo[r] :
       /\ IsTop(b, todo[r])
       /\ bound[wid[r]][b] = 0
       /\ journal' = [journal EXCEPT ![r] = @ \ {b}]
       /\ todo' = [todo EXCEPT ![r] = @ \ {b}]
  /\ UNCHANGED <<slot, next, ops, err, recovery, bound, stopper, host>>

\* on_workload_unbind failed; the pass goes on and reports it at its end.
UnbindErr(r) ==
  /\ ReleaseRuns(r)
  /\ \E b \in todo[r] :
       /\ IsTop(b, todo[r])
       /\ todo' = [todo EXCEPT ![r] = @ \ {b}]
  /\ err' = [err EXCEPT ![r] = TRUE]
  /\ UNCHANGED <<slot, next, ops, journal, recovery, bound, stopper, host>>

\* Mutant: a pass that visited every binding counts as a success.
ReleaseVisitedAll(r) == todo[r] = {}

ReleaseSucceeded(r) == todo[r] = {} /\ ~err[r]

\* bounded_release returned Ok: close out the teardown and disarm.
ReleaseOk(r) ==
  /\ pc[r] = "releasing"
  /\ ReleaseSucceeded(r)
  /\ FinishTeardown(r, FALSE)
  /\ Goto(r, "done")
  /\ UNCHANGED <<next, journals, recovery, bound, stopper, host>>

\* bounded_release failed or timed out: the operation answers its caller and
\* its guard, still armed, is dropped. Only a start retains its failure.
ReleaseErr(r) ==
  /\ pc[r] = "releasing"
  /\ ~ReleaseSucceeded(r)
  /\ GuardDrop(r, kind[r] = "start")
  /\ UNCHANGED <<slot, next, journals, bound, stopper, host>>

\* The operation's future is dropped at an await: its caller went away, the
\* control attachment shut down, or the start's bound expired.
Cancel(r) ==
  /\ pc[r] \in {"queued", "preparing", "native", "binding", "releasing"}
  /\ GuardDrop(r, FALSE)
  /\ UNCHANGED <<slot, next, journals, bound, stopper, host>>

-----------------------------------------------------------------------------
(* WorkloadRecovery::recover, called by the background task or by a stop   *)
(* that found the recovery, serialised by `serial`.                        *)

Callers(r) == {x \in Stoppers \cup {Task} :
                 \/ x = Task /\ task[r]
                 \/ /\ x \in Stoppers
                    /\ stopper[x].pc = "recover"
                    /\ stopper[x].r = r}

\* What the caller does with recover's result: the task ends once it is Ok,
\* a stop goes on to collect an Error either way.
Return(r, x, ok) ==
  /\ task' = [task EXCEPT ![r] = @ /\ ~(x = Task /\ ok)]
  /\ stopper' = [s \in Stoppers |->
                   IF s = x THEN [stopper[s] EXCEPT !.pc = "collect"]
                   ELSE stopper[s]]

\* WorkloadRecovery::forget.
Forget(r) ==
  recov' = [recov EXCEPT ![wid[r]] = IF @ = r THEN 0 ELSE @]

\* The recovery is no longer recorded: somebody else finished it.
RecoverGone(r, x) ==
  /\ x \in Callers(r)
  /\ serial[r] = Nobody
  /\ recov[wid[r]] # r
  /\ Return(r, x, TRUE)
  /\ UNCHANGED <<slot, next, ops, journals, retain, serial, recov, bound, host>>

\* Mutant: the recovery marks every id Stopping, a reported failure too.
RecoverBeginDropsReason(r, x) ==
  /\ x \in Callers(r)
  /\ serial[r] = Nobody
  /\ recov[wid[r]] = r
  /\ slot' = [slot EXCEPT ![wid[r]] = Stopping(r)]
  /\ BeginRelease(r, journal[r])
  /\ serial' = [serial EXCEPT ![r] = x]
  /\ UNCHANGED <<next, ops, retain, task, recov, stopper, bound, host>>

\* Mark the id and begin a release. When the slot is no longer r's the
\* recovery forgets itself, with an error unless the id is free.
RecoverBegin(r, x) ==
  /\ x \in Callers(r)
  /\ serial[r] = Nobody
  /\ recov[wid[r]] = r
  /\ IF Mine(r)
     THEN /\ slot' = [slot EXCEPT ![wid[r]] =
                        IF @ = Failing(r) /\ retain[r] THEN @ ELSE Stopping(r)]
          /\ BeginRelease(r, journal[r])
          /\ serial' = [serial EXCEPT ![r] = x]
          /\ UNCHANGED <<task, recov, stopper>>
     ELSE /\ Forget(r)
          /\ Return(r, x, slot[wid[r]] = Free)
          /\ UNCHANGED <<slot, journals, serial>>
  /\ UNCHANGED <<next, ops, retain, bound, host>>

\* Mutant: the task gives up after one failed attempt.
RecoverErrGivesUp(r) ==
  /\ serial[r] # Nobody
  /\ ~ReleaseSucceeded(r)
  /\ serial' = [serial EXCEPT ![r] = Nobody]
  /\ Return(r, serial[r], TRUE)
  /\ UNCHANGED <<slot, next, ops, journals, retain, recov, bound, host>>

\* The release failed or ran out of time; the task will retry.
RecoverErr(r) ==
  /\ serial[r] # Nobody
  /\ ~ReleaseSucceeded(r)
  /\ serial' = [serial EXCEPT ![r] = Nobody]
  /\ Return(r, serial[r], FALSE)
  /\ UNCHANGED <<slot, next, ops, journals, retain, recov, bound, host>>

\* Everything is released: forget the recovery and free the id, or publish
\* the failure the start had reported, under one hold of the map's lock.
RecoverOk(r) ==
  /\ serial[r] # Nobody
  /\ ReleaseSucceeded(r)
  /\ serial' = [serial EXCEPT ![r] = Nobody]
  /\ Return(r, serial[r], TRUE)
  /\ FinishTeardown(r, FALSE)
  /\ IF slot[wid[r]] \in {Stopping(r), Failing(r)}
     THEN Forget(r) ELSE UNCHANGED recov
  /\ UNCHANGED <<next, ops, journals, retain, bound, host>>

-----------------------------------------------------------------------------
(* workload_stop.                                                          *)

\* Look for a recovery before anything else.
StopBegin(s, id) ==
  /\ stopper[s].pc = "idle"
  /\ stopper' = [stopper EXCEPT ![s] =
                   IF recov[id] # 0
                   THEN [pc |-> "recover", id |-> id, r |-> recov[id]]
                   ELSE [pc |-> "decide", id |-> id, r |-> 0]]
  /\ UNCHANGED <<slot, next, ops, journals, recovery, bound, host>>

\* The slot is running: this stop owns the teardown, under a reservation of
\* its own and a journal made from the workload's committed bindings.
StopRunning(s) ==
  /\ stopper[s].pc = "decide"
  /\ LET id == stopper[s].id IN
       /\ slot[id].st = "running"
       /\ Mint(next, "stop", id, slot[id].r, "releasing")
       /\ BeginRelease(next, journal[slot[id].r])
       /\ slot' = [slot EXCEPT ![id] = Stopping(next)]
  /\ stopper' = [stopper EXCEPT ![s] = Idle]
  /\ UNCHANGED <<recovery, bound, host>>

\* Mutant: a repeated stop frees an id whose teardown is under way.
StopOtherFreesStopping(s) ==
  /\ stopper[s].pc = "decide"
  /\ LET id == stopper[s].id IN
       /\ slot[id].st # "running"
       /\ slot' = [slot EXCEPT ![id] =
                     IF @.st \in {"starting", "failing"} THEN Stopping(@.r)
                     ELSE Free]
  /\ stopper' = [stopper EXCEPT ![s] = Idle]
  /\ UNCHANGED <<next, ops, journals, recovery, bound, host>>

\* Any other slot: mark a start's id under the start's own reservation, leave
\* a teardown alone, drop an Error.
StopOther(s) ==
  /\ stopper[s].pc = "decide"
  /\ LET id == stopper[s].id IN
       /\ slot[id].st # "running"
       /\ slot' = [slot EXCEPT ![id] =
                     IF @.st \in {"starting", "failing"} THEN Stopping(@.r)
                     ELSE IF @.st = "stopping" THEN @
                     ELSE Free]
  /\ stopper' = [stopper EXCEPT ![s] = Idle]
  /\ UNCHANGED <<next, ops, journals, recovery, bound, host>>

\* After a recovery: collect the Error of a start that had reported it.
StopCollect(s) ==
  /\ stopper[s].pc = "collect"
  /\ slot' = [slot EXCEPT ![stopper[s].id] = IF @ = Error THEN Free ELSE @]
  /\ stopper' = [stopper EXCEPT ![s] = Idle]
  /\ UNCHANGED <<next, ops, journals, recovery, bound, host>>

\* The stop's caller goes away, and with it the recovery attempt it ran.
StopCancelled(s) ==
  /\ stopper[s].pc # "idle"
  /\ serial' = [r \in Reservation |-> IF serial[r] = s THEN Nobody
                                      ELSE serial[r]]
  /\ stopper' = [stopper EXCEPT ![s] = Idle]
  /\ UNCHANGED <<slot, next, ops, journals, retain, task, recov, bound, host>>

-----------------------------------------------------------------------------
(* fail_workload: a plugin reports a workload, by id. One consumer task    *)
(* takes the reports one at a time.                                        *)

NoFailureRunning == \A r \in Reservation : pc[r] # "unbinding"

FailRunning(id) ==
  /\ NoFailureRunning
  /\ slot[id].st = "running"
  /\ Mint(next, "fail", id, slot[id].r, "unbinding")
  /\ todo' = [todo EXCEPT ![next] = journal[slot[id].r]]
  /\ slot' = [slot EXCEPT ![id] = Stopping(next)]
  /\ UNCHANGED <<journal, err, recovery, bound, stopper, host>>

\* Still starting: the start owns what it built and will see the marker.
FailStarting(id) ==
  /\ NoFailureRunning
  /\ slot[id].st = "starting"
  /\ slot' = [slot EXCEPT ![id] = Failing(@.r)]
  /\ UNCHANGED <<next, ops, journals, recovery, bound, stopper, host>>

\* unbind_all_plugins: a failing unbind is logged and the next one tried.
FailUnbind(r) ==
  /\ pc[r] = "unbinding"
  /\ \E b \in todo[r] :
       /\ \A c \in todo[r] : b <= c
       /\ todo' = [todo EXCEPT ![r] = @ \ {b}]
       /\ \/ bound' = [bound EXCEPT ![wid[r]][b] = 0]
          \/ UNCHANGED bound
  /\ UNCHANGED <<slot, next, ops, journal, err, recovery, stopper, host>>

\* The plugins were all visited, or the lifecycle timeout cut the pass short;
\* either way the failure is published.
FailDone(r) ==
  /\ pc[r] = "unbinding"
  /\ FinishTeardown(r, TRUE)
  /\ Goto(r, "done")
  /\ UNCHANGED <<next, journals, recovery, bound, stopper, host>>

-----------------------------------------------------------------------------
(* Host::stop: refuse new starts, give recoveries a bounded time, stop the *)
(* plugins, forget the recoveries that are left.                           *)

HostStop ==
  /\ host = "up"
  /\ host' = "stopping"
  /\ UNCHANGED <<slot, next, ops, journals, recovery, bound, stopper>>

HostStopped ==
  /\ host = "stopping"
  /\ host' = "stopped"
  /\ recov' = [i \in Ids |-> 0]
  /\ UNCHANGED <<slot, next, ops, journals, retain, task, serial, bound, stopper>>

-----------------------------------------------------------------------------

StartStep(r) ==
  \/ AcquirePermit(r) \/ PrepareFails(r) \/ PrepareDone(r)
  \/ BindBegin(r) \/ BindApply(r) \/ BindDone(r) \/ Commit(r) \/ Abort(r)

ReleaseStep(r) ==
  \/ UnbindApply(r) \/ UnbindOk(r) \/ UnbindErr(r)
  \/ ReleaseOk(r) \/ ReleaseErr(r) \/ Cancel(r)

RecoverStep(r) ==
  \/ \E x \in Stoppers \cup {Task} : RecoverGone(r, x) \/ RecoverBegin(r, x)
  \/ RecoverErr(r) \/ RecoverOk(r)

StopStep(s) ==
  \/ \E id \in Ids : StopBegin(s, id)
  \/ StopRunning(s) \/ StopOther(s) \/ StopCollect(s) \/ StopCancelled(s)

Next ==
  \/ \E id \in Ids : Reserve(id) \/ FailRunning(id) \/ FailStarting(id)
  \/ \E r \in Reservation : StartStep(r) \/ ReleaseStep(r) \/ RecoverStep(r)
                            \/ FailUnbind(r) \/ FailDone(r)
  \/ \E s \in Stoppers : StopStep(s)
  \/ HostStop \/ HostStopped

Spec == Init /\ [][Next]_vars

-----------------------------------------------------------------------------
(* Properties.                                                             *)

Minted(r) == kind[r] # "none"

Held(id) == slot[id].st \in {"starting", "stopping", "failing"}

\* r's operation, its recorded recovery or a recovery attempt is unfinished.
Unfinished(r) ==
  \/ pc[r] \in {"queued", "preparing", "native", "binding", "releasing",
               "unbinding"}
  \/ serial[r] # Nobody
  \/ Minted(r) /\ recov[wid[r]] = r

\* A plugin failed the workload that start w built.
FailedByPlugin(w) == \E f \in Reservation : kind[f] = "fail" /\ of[f] = w

\* Whoever has not finished its operation or its recovery still holds the id
\* under its own reservation, whatever stops, failures, cancellations and
\* other starts did meanwhile.  So no two operations work on one id, and the
\* two arms of WorkloadRecovery::recover that the code does not expect (the
\* id free, or held by another) are indeed never taken.
Ownership == \A r \in Reservation : Unfinished(r) => Mine(r)

\* The converse: a held id always has somebody who will let it go. However
\* starts, stops, failures and recoveries interleave and wherever they are
\* cancelled, an operation or a recorded recovery with the slot's reservation
\* is left, until the host stops and forgets its recoveries.
NeverAbandoned ==
  \A id \in Ids : Held(id) => Unfinished(slot[id].r) \/ host = "stopped"

\* A running workload has every binding its start made, and each plugin's
\* entry under its id is its own: no teardown of an earlier workload with the
\* same id, however late or often retried, has unbound it.
RunningIntact ==
  \A id \in Ids : slot[id].st = "running" =>
    \A b \in Binding : bound[id][b] = slot[id].r

\* What a plugin keeps under an id is accounted for: the workload is running,
\* or an operation that will release it holds the id.  The exception is a
\* workload a plugin failed, whose release is best effort.
Accounted ==
  \A id \in Ids, b \in Binding : bound[id][b] # 0 =>
    \/ slot[id] = Running(bound[id][b])
    \/ Held(id) /\ of[slot[id].r] = bound[id][b]
    \/ FailedByPlugin(bound[id][b])

\* Every step that removes or replaces a plugin's entry is taken while the id
\* is held by an operation on that very workload (or clears what a plugin's
\* failure left behind).
UnbindsOnlyItsOwn ==
  [][\A id \in Ids, b \in Binding :
       bound[id][b] # 0 /\ bound'[id][b] # bound[id][b] =>
         /\ Held(id)
         /\ \/ of[slot[id].r] = bound[id][b]
            \/ FailedByPlugin(bound[id][b])]_vars

StopDecides(id) ==
  \E s \in Stoppers : /\ stopper[s].pc = "decide" /\ stopper[s].id = id
                       /\ stopper'[s] = Idle

\* A failure that a start reported to its caller with cleanup still owed
\* outlives that cleanup as the workload's Error: nothing but a stop of the
\* id turns it into anything else.
ReportedFailureKept ==
  [][\A id \in Ids :
       slot[id].st = "failing" /\ recov[id] = slot[id].r /\ retain[slot[id].r]
         => slot'[id] \in {slot[id], Error} \/ StopDecides(id)]_vars

\* What a comment in workload_stop says of every Error: nothing is bound
\* behind it, "every failure path releases before recording the error".
ErrorHoldsNothing ==
  \A id \in Ids : slot[id] = Error => \A b \in Binding : bound[id][b] = 0

(* The refinement: hide how the host does it and show what it promises.    *)
PromisedInc(id) == IF slot[id].r = 0 THEN 0 ELSE of[slot[id].r]

Promise == INSTANCE WorkloadIds WITH
  phase <- [i \in Ids |-> slot[i].st],
  inc   <- [i \in Ids |-> PromisedInc(i)],
  entry <- bound

\* The host implements WorkloadIds.
ImplementsPromise == Promise!Spec

(* The inductive invariant behind Ownership, RunningIntact and Accounted.   *)

\* A reservation is unused until it is minted, and then keeps its id and the
\* workload it is about.
Minting ==
  \A r \in Reservation :
    /\ r >= next => /\ kind[r] = "none" /\ pc[r] = "idle"
                    /\ serial[r] = Nobody /\ ~task[r] /\ journal[r] = {}
    /\ r < next => /\ kind[r] # "none" /\ pc[r] # "idle"
                   /\ wid[r] \in Ids /\ of[r] \in 1 .. r
    /\ kind[r] = "start" => of[r] = r
    /\ kind[r] = "stop" => pc[r] \in {"releasing", "done", "dropped"}
    /\ kind[r] = "fail" => pc[r] \in {"unbinding", "done"}
    /\ kind[r] = "start" => pc[r] # "unbinding"

\* A slot names a reservation of its own id.
SlotOwner(id) ==
  /\ slot[id].st = "free" => slot[id] = Free
  /\ slot[id].st = "error" => slot[id] = Error
  /\ Held(id) => /\ slot[id].r \in Reservation /\ slot[id].r < next
                 /\ wid[slot[id].r] = id
  /\ slot[id].st \in {"starting", "failing"} => kind[slot[id].r] = "start"
  /\ slot[id].st = "running" => /\ slot[id].r \in Reservation
                                /\ slot[id].r < next
                                /\ kind[slot[id].r] = "start"
                                /\ pc[slot[id].r] = "done"
                                /\ journal[slot[id].r] = Binding

SlotOwners == \A id \in Ids : SlotOwner(id)

\* Only a dropped operation has a recovery, recorded under its own id.
RecoveryOwners ==
  /\ \A id \in Ids : recov[id] # 0 => /\ recov[id] < next
                                      /\ pc[recov[id]] = "dropped"
                                      /\ wid[recov[id]] = id
  /\ \A r \in Reservation :
       serial[r] # Nobody => /\ pc[r] = "dropped"
                             /\ recov[wid[r]] = r \/ host = "stopped"
  /\ \A r \in Reservation :
       serial[r] \in Stoppers => /\ stopper[serial[r]].pc = "recover"
                                 /\ stopper[serial[r]].r = r
  /\ \A r \in Reservation : task[r] => pc[r] = "dropped"
  /\ \A s \in Stoppers :
       /\ stopper[s].pc # "idle" => stopper[s].id \in Ids
       /\ stopper[s].pc = "recover" => /\ stopper[s].r \in Reservation
                                       /\ pc[stopper[s].r] = "dropped"

\* A teardown under way has marked its slot, so its end can close it out.
Marked ==
  \A r \in Reservation :
    ReleaseRuns(r) \/ pc[r] = "unbinding" => slot[wid[r]] # Starting(r)

\* What a journal says of the plugins' entries.
JournalCovers(r) ==
  /\ pc[r] \in {"queued", "preparing"} => journal[r] = {}
  /\ pc[r] = "native" => \A b \in journal[r] : bound[wid[r]][b] = r
  /\ pc[r] = "binding" =>
       \A b \in journal[r] : IsTop(b, journal[r]) \/ bound[wid[r]][b] = r
  /\ pc[r] \in {"native", "binding"} =>
       \A b \in journal[r], c \in Binding : c < b => c \in journal[r]
  /\ ReleaseRuns(r) /\ ~err[r] => todo[r] = journal[r]
  /\ kind[r] \in {"start", "stop"} /\ Mine(r) =>
       \A b \in Binding : bound[wid[r]][b] = of[r] => b \in journal[r]

JournalsCover ==
  /\ \A r \in Reservation : JournalCovers(r)
  /\ \A id \in Ids, b \in Binding : bound[id][b] < next

IndInv ==
  /\ TypeOK /\ Minting /\ SlotOwners /\ RecoveryOwners /\ JournalsCover
  /\ Ownership /\ Marked /\ NeverAbandoned /\ RunningIntact /\ Accounted

(* Fairness.  A start, a release and a recovery attempt are bounded by     *)
(* timeouts, so each of their phases ends; the recovery task is woken by   *)
(* its timer and queues on a fair mutex, and a start queues on a fair      *)
(* semaphore.  That a plugin which is asked again and again finally lets   *)
(* go is an assumption about the plugin.                                   *)
StartProgress(r) ==
  \/ pc[r] = "preparing" /\ PrepareFails(r)
  \/ PrepareDone(r) \/ BindBegin(r) \/ BindDone(r)
  \/ Commit(r) \/ Abort(r)

Fairness ==
  /\ \A r \in Reservation :
       /\ SF_vars(AcquirePermit(r))
       /\ WF_vars(StartProgress(r))
       /\ WF_vars(ReleaseOk(r) \/ ReleaseErr(r))
       /\ WF_vars(RecoverErr(r) \/ RecoverOk(r))
       /\ WF_vars(RecoverGone(r, Task))
       /\ SF_vars(RecoverBegin(r, Task))
       /\ SF_vars(UnbindApply(r))
       /\ SF_vars(UnbindOk(r))
       /\ WF_vars(FailDone(r))
  /\ \A s \in Stoppers : WF_vars(StopRunning(s) \/ StopOther(s) \/ StopCollect(s))

LiveSpec == Spec /\ Fairness

\* A guard dropped outside the runtime records its recovery but starts no task:
\* the id waits for the next stop, or for the host's.
Untended(id) == recov[id] # 0 /\ ~task[recov[id]]

\* A start never stays in Starting: however the starts before it ended, their
\* permits came back, so it gets one, and it commits, fails or is given up.
StartSettles ==
  \A id \in Ids :
    slot[id].st = "starting" ~> (slot[id].st # "starting" \/ host # "up" \/ Untended(id))

\* An id that is being torn down is given back, however often the teardown is
\* cancelled, times out or fails, until the host itself stops: a task that was
\* started for it ends only with the recovery done or the host gone.
TeardownCompletes ==
  /\ \A id \in Ids :
       slot[id].st \in {"stopping", "failing"} ~>
         (slot[id].st \in {"free", "error"} \/ host # "up" \/ Untended(id))
  /\ [][\A r \in Reservation :
          task[r] /\ ~task'[r] => recov'[wid[r]] # r \/ host' # "up"]_vars

=============================================================================
