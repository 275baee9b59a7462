----------------------------- MODULE Placement -----------------------------
(***************************************************************************)
(* The operator's placement of one Workload: WorkloadReconciler            *)
(* (runtime-operator/internal/controller/runtime/workload_controller.go)   *)
(* under ConditionedReconciler (api/condition/conditioned_reconciler.go),  *)
(* composed with the Hosts it is placed on (host_controller.go: their      *)
(* heartbeat, reaping and finalizer) and with what a host does with the    *)
(* starts and stops it is sent.                                            *)
(*                                                                         *)
(* One reconcile of a Workload runs at a time, but it reads a cache that   *)
(* lags behind the API server, its requests to a host can time out after   *)
(* they were accepted, Hosts come and go meanwhile, and the operator may   *)
(* restart.  A host's side of a start or stop is WorkloadLifecycle.tla:    *)
(* here a start is refused or leaves the id on the host, and a stop takes  *)
(* it away.  Requests to one host take effect in the order they were sent: *)
(* one NATS connection, one subscription, and a start's task claims the id *)
(* before it fetches anything.  The washlet runs each command in a task of *)
(* its own, so this assumes that a start's task has made that claim by the *)
(* time a stop arrives that was sent after the start had timed out.        *)
(***************************************************************************)
EXTENDS Integers, Sequences, FiniteSets

CONSTANTS
  Hosts,       \* host ids
  None,        \* the empty HostID
  Pins,        \* what Spec.HostID may be, None if the Workload is not pinned
  MaxLag,      \* versions of the Workload the cache may not have seen yet, plus one
  MaxInbox,    \* bound on the requests on their way to one host
  MaxFaults    \* bound on the faults of a behaviour

ASSUME PlacementConstants ==
  /\ IsFiniteSet(Hosts) /\ None \notin Hosts /\ Pins \subseteq Hosts \cup {None}
  /\ {MaxLag, MaxInbox} \subseteq Nat \ {0} /\ MaxFaults \in Nat

VARIABLES
  pin,       \* Spec.HostID
  log,       \* versions of the Workload, from the cached to the stored one
  pc,        \* where the reconcile is
  read,      \* the object it works on
  fresh,     \* `read` is the stored version
  next,      \* the object it means to write
  lock,      \* RequireOptimisticLock was called
  host,      \* Hosts -> the stored Host
  seen,      \* Hosts -> the cached Host
  net,       \* Hosts -> "up", "cut" off from the bus, "dead"
  inbox,     \* Hosts -> requests on their way to the host
  running,   \* hosts that hold the workload's id
  lost,      \* hosts the operator let go of with no stop answered (history)
  faults     \* faults so far

worker == <<pc, read, fresh, next, lock>>
cluster == <<host, seen, net>>
vars == <<pin, log, worker, cluster, inbox, running, lost, faults>>

(* A Workload: `fin`, the operator's finalizer; `config`, the Config       *)
(* condition; `placed`, Status.WorkloadID is set.                          *)
Workloads == [phase : {"live", "deleting", "gone"}, fin : BOOLEAN,
              config : BOOLEAN, host : Hosts \cup {None}, placed : BOOLEAN]

(* A Host: `ready` is Status.IsAvailable; a "listed" one is being deleted  *)
(* and its finalizer has dealt with its Workloads.                         *)
HostObjects == [obj : {"absent", "present", "deleting", "listed"}, ready : BOOLEAN]

(* Status.IsAvailable of a Host the cache has. *)
Heartbeating(h) == seen[h].obj # "absent" /\ seen[h].ready

Absent == [obj |-> "absent", ready |-> FALSE]
Deleting(o) == o.obj \in {"deleting", "listed"}

cached == log[1]
stored == log[Len(log)]

TypeOK ==
  /\ pin \in Hosts \cup {None}
  /\ log \in Seq(Workloads) /\ Len(log) \in 1 .. MaxLag
  /\ pc \in {"idle", "adopt", "evaluate", "starting", "stopping", "patch"}
  /\ {read, next} \subseteq Workloads /\ {fresh, lock} \subseteq BOOLEAN
  /\ host \in [Hosts -> HostObjects] /\ seen \in [Hosts -> HostObjects]
  /\ net \in [Hosts -> {"up", "cut", "dead"}]
  /\ inbox \in [Hosts -> Seq({"start", "stop"})]
  /\ running \subseteq Hosts /\ lost \subseteq Hosts
  /\ faults \in 0 .. MaxFaults

Created == [phase |-> "live", fin |-> FALSE, config |-> FALSE,
            host |-> None, placed |-> FALSE]

Init ==
  /\ pin \in Pins
  /\ log = <<Created>>
  /\ pc = "idle" /\ read = Created /\ next = Created
  /\ fresh = FALSE /\ lock = FALSE
  /\ host \in [Hosts -> {Absent, [obj |-> "present", ready |-> TRUE]}]
  /\ \A h \in Hosts : host[h] = Absent => h = pin
  /\ seen = host
  /\ net = [h \in Hosts |-> "up"]
  /\ inbox = [h \in Hosts |-> <<>>]
  /\ running = {} /\ lost = {} /\ faults = 0

Fault == faults < MaxFaults /\ faults' = faults + 1

(* The API server stores a new version; what was read before is now stale. *)
Store(v) == Len(log) < MaxLag /\ log' = Append(log, v)

(* A merge patch sets the fields in which `next` differs from `read`; a    *)
(* deleting object without a finalizer is gone.                            *)
Chosen(o, r, n) == IF n = r THEN o ELSE n

Merged(o) ==
  LET fin == Chosen(o.fin, read.fin, next.fin)
  IN  [phase  |-> IF o.phase = "deleting" /\ ~fin THEN "gone" ELSE o.phase,
       fin    |-> fin,
       config |-> Chosen(o.config, read.config, next.config),
       host   |-> Chosen(o.host, read.host, next.host),
       placed |-> Chosen(o.placed, read.placed, next.placed)]

Send(h, m) == Len(inbox[h]) < MaxInbox /\ inbox' = [inbox EXCEPT ![h] = Append(@, m)]

-----------------------------------------------------------------------------
(* Reconcile: Get from the cache, then HandleFinalizer.                    *)

Finalized(o) == [o EXCEPT !.fin = FALSE]

(* A pass returns, and what it worked on is dropped. *)
Done ==
  /\ pc' = "idle" /\ fresh' = FALSE /\ lock' = FALSE
  /\ read' = Created /\ next' = Created

(* A pass that worked on `r` means to write `n`.  A write that changes     *)
(* nothing but conditions is left out: it can only fail a lock, and the    *)
(* pass is then run again.                                                 *)
Write(r, n, f, l) ==
  /\ pc' = "patch" /\ read' = r /\ next' = n /\ fresh' = f /\ lock' = l

GetLive ==
  /\ pc = "idle" /\ cached.phase = "live"
  /\ read' = cached /\ fresh' = (Len(log) = 1)
  /\ pc' = IF cached.fin THEN "evaluate" ELSE "adopt"
  /\ next' = read' /\ lock' = FALSE
  /\ UNCHANGED <<pin, log, cluster, inbox, running, lost, faults>>

(* Mutant: finalize stops nothing unless a start was answered. *)
GetDeletingIfPlaced ==
  /\ pc = "idle" /\ cached.phase = "deleting"
  /\ IF cached.host = None \/ ~cached.placed
     THEN Write(cached, Finalized(cached), FALSE, FALSE) /\ UNCHANGED inbox
     ELSE /\ pc' = "stopping" /\ Send(cached.host, "stop")
          /\ read' = cached /\ next' = cached /\ UNCHANGED <<fresh, lock>>
  /\ UNCHANGED <<pin, log, cluster, running, lost, faults>>

(* finalize: a stop goes to the recorded host, whether or not a start was  *)
(* answered; with no host recorded there is nothing to do.                 *)
GetDeleting ==
  /\ pc = "idle" /\ cached.phase = "deleting"
  /\ IF cached.host = None
     THEN Write(cached, Finalized(cached), FALSE, FALSE) /\ UNCHANGED inbox
     ELSE /\ pc' = "stopping" /\ Send(cached.host, "stop")
          /\ read' = cached /\ next' = cached /\ UNCHANGED <<fresh, lock>>
  /\ UNCHANGED <<pin, log, cluster, running, lost, faults>>

(* The patch that adds the finalizer brings back the stored object, which  *)
(* may have a host that no cached version shows.                           *)
Adopt ==
  /\ pc = "adopt"
  /\ IF stored.phase = "live"
     THEN LET o == [stored EXCEPT !.fin = TRUE]
          IN  /\ IF o = stored THEN UNCHANGED log ELSE Store(o)
              /\ read' = o /\ next' = o /\ fresh' = TRUE /\ pc' = "evaluate"
              /\ UNCHANGED lock
     ELSE Done /\ UNCHANGED log
  /\ UNCHANGED <<pin, cluster, inbox, running, lost, faults>>

-----------------------------------------------------------------------------
(* The conditions, in their order; the first that changes ends the pass.   *)

Evaluating == pc = "evaluate" /\ UNCHANGED <<pin, log, cluster, running, lost>>

(* reconcileConfig, whose layers matter only until a host is recorded. *)
ReconcileConfig ==
  /\ Evaluating
  /\ \/ ~read.config /\ Write(read, [read EXCEPT !.config = TRUE], fresh, FALSE) /\ UNCHANGED faults
     \/ read.host = None /\ read.config /\ Fault
        /\ Write(read, [read EXCEPT !.config = FALSE], fresh, FALSE)
  /\ UNCHANGED inbox

(* isSchedulable for a free choice; a pinned host is refused only while it *)
(* is being deleted.                                                       *)
Schedulable(h) ==
  IF pin = None THEN seen[h].obj = "present" /\ seen[h].ready
                ELSE h = pin /\ ~Deleting(seen[h])

ReconcileHostSelection ==
  /\ Evaluating
  /\ read.config /\ read.host = None
  /\ \/ \E h \in Hosts : Schedulable(h) /\ Write(read, [read EXCEPT !.host = h], fresh, TRUE)
     \/ ~(\E h \in Hosts : Schedulable(h)) /\ Done
  /\ UNCHANGED <<inbox, faults>>

(* Mutant: a Host being deleted is still used. *)
GoneAwayWhenGone(h) == seen[h].obj = "absent" /\ pin = None

(* reconcilePlacement finds its host gone, or going. *)
GoneAway(h) == Deleting(seen[h]) \/ (seen[h].obj = "absent" /\ pin = None)

(* Mutant: a Workload whose host is gone waits for it to come back. *)
LetGoWaits ==
  /\ Evaluating
  /\ read.config /\ read.host # None /\ ~read.placed /\ GoneAway(read.host)
  /\ Done
  /\ UNCHANGED <<inbox, faults>>

LetGo ==
  /\ Evaluating
  /\ read.config /\ read.host # None /\ ~read.placed /\ GoneAway(read.host)
  /\ IF pin = None THEN Write(read, [read EXCEPT !.host = None], fresh, TRUE) ELSE Done
  /\ UNCHANGED <<inbox, faults>>

SendStart ==
  /\ Evaluating
  /\ read.config /\ read.host # None /\ ~read.placed /\ ~GoneAway(read.host)
  /\ pc' = "starting" /\ Send(read.host, "start")
  /\ UNCHANGED <<read, fresh, next, lock, faults>>

(* reconcileSync and reconcileReady change conditions only. *)
ReconcileSync ==
  /\ Evaluating
  /\ read.config /\ read.host # None /\ read.placed
  /\ Done
  /\ UNCHANGED <<inbox, faults>>

-----------------------------------------------------------------------------
(* The host takes a request and answers the reconcile if it still waits;   *)
(* the answer may be lost.                                                 *)

Waiting(h) == pc \in {"starting", "stopping"} /\ read.host = h

(* Any answer to a start records the WorkloadID; any answer to a stop ends *)
(* finalize.                                                               *)
Answered ==
  Write(read, IF pc = "starting" THEN [read EXCEPT !.placed = TRUE] ELSE Finalized(read),
        fresh, FALSE)

(* A start is refused, or reserves the id if it is free. *)
Effect(h, m) ==
  IF m = "stop" THEN {running \ {h}} ELSE {running, running \cup {h}}

Deliver(h) ==
  /\ net[h] = "up" /\ inbox[h] # <<>>
  /\ running' \in Effect(h, Head(inbox[h]))
  /\ inbox' = [inbox EXCEPT ![h] = Tail(@)]
  /\ \/ Waiting(h) /\ Len(inbox[h]) = 1 /\ Answered /\ UNCHANGED faults
     \/ Waiting(h) /\ Len(inbox[h]) = 1 /\ Fault /\ UNCHANGED worker
     \/ ~(Waiting(h) /\ Len(inbox[h]) = 1) /\ UNCHANGED <<worker, faults>>
  /\ UNCHANGED <<pin, log, cluster, lost>>

(* A request to a host that is cut off is lost. *)
Drop(h) ==
  /\ net[h] # "up" /\ inbox[h] # <<>>
  /\ inbox' = [inbox EXCEPT ![h] = Tail(@)]
  /\ UNCHANGED <<pin, log, worker, cluster, running, lost, faults>>

(* An answer can still come, if late. *)
Expected == net[read.host] = "up" /\ inbox[read.host] # <<>>

TimesOut ==
  /\ pc \in {"starting", "stopping"}
  /\ IF Expected THEN Fault ELSE UNCHANGED faults

StartTimesOut ==
  /\ pc = "starting" /\ TimesOut
  /\ Done
  /\ UNCHANGED <<pin, log, cluster, inbox, running, lost>>

(* Mutant: finalize waits for a stop to be answered, whatever the host. *)
KeepTryingAlways(h) == TRUE

(* Mutant: finalize gives up on a host that is heartbeating. *)
KeepTryingNever(h) == FALSE

(* finalize keeps trying while the host is heartbeating. *)
KeepTrying(h) == seen[h].obj # "absent" /\ seen[h].ready

(* `lost` takes only a host that is not known to be heartbeating. *)
StopTimesOut ==
  /\ pc = "stopping" /\ TimesOut
  /\ IF KeepTrying(read.host)
     THEN Done /\ UNCHANGED lost
     ELSE /\ Write(read, Finalized(read), fresh, FALSE)
          /\ lost' = lost \cup {h \in {read.host} : ~Heartbeating(h)}
  /\ UNCHANGED <<pin, log, cluster, inbox, running>>

-----------------------------------------------------------------------------
(* The status patch, or the patch that removes the finalizer.              *)

(* Mutant: status patches are never locked to the version they were read from. *)
ConflictNever == FALSE

Conflict == lock /\ ~fresh

Patch ==
  /\ pc = "patch" /\ Done
  /\ IF Conflict \/ stored.phase = "gone"
     THEN UNCHANGED <<log, lost>>
     ELSE /\ Store(Merged(stored))
          /\ lost' = IF next.host = read.host THEN lost
                     ELSE (lost \cup {read.host}) \ {None, next.host}
  /\ UNCHANGED <<pin, cluster, inbox, running, faults>>

Reconcile ==
  \/ GetLive \/ GetDeleting \/ Adopt
  \/ ReconcileConfig \/ ReconcileHostSelection \/ LetGo \/ SendStart \/ ReconcileSync
  \/ StartTimesOut \/ StopTimesOut \/ Patch

-----------------------------------------------------------------------------
(* Everything else: the API server and its caches, the Hosts, the bus.     *)

(* Delete, by a user or the ReplicaSet. *)
Deleted(v) == [v EXCEPT !.phase = IF v.fin THEN "deleting" ELSE "gone"]

Delete ==
  /\ stored.phase = "live" /\ Store(Deleted(stored)) /\ fresh' = FALSE
  /\ UNCHANGED <<pin, pc, read, next, lock, cluster, inbox, running, lost, faults>>

SyncWorkload ==
  /\ Len(log) > 1 /\ log' = Tail(log)
  /\ UNCHANGED <<pin, worker, cluster, inbox, running, lost, faults>>

(* The two caches are filled independently of each other: a Host that is   *)
(* back may be seen before the Workload that was taken off it.             *)
SyncHost(h) ==
  /\ seen[h] # host[h]
  /\ seen' = [seen EXCEPT ![h] = host[h]]
  /\ UNCHANGED <<pin, log, worker, host, net, inbox, running, lost, faults>>

SetHost(h, o) ==
  /\ host' = [host EXCEPT ![h] = o]
  /\ UNCHANGED <<pin, worker, seen, net, inbox, running, lost>>

(* handleHeartbeat creates the Host of a host it hears; its first          *)
(* reconcile adds the finalizer.                                           *)
Register(h) ==
  /\ net[h] = "up" /\ host[h].obj = "absent"
  /\ SetHost(h, [obj |-> "present", ready |-> FALSE])
  /\ UNCHANGED <<log, faults>>

(* reconcileReporting and reconcileReady of the Host. *)
Probe(h) ==
  /\ host[h].obj = "present" /\ host[h].ready # (net[h] = "up")
  /\ SetHost(h, [host[h] EXCEPT !.ready = (net[h] = "up")])
  /\ UNCHANGED <<log, faults>>

(* deleteUnresponsiveHost, once the rest of the fleet is heard. *)
Reap(h) ==
  /\ host[h].obj = "present" /\ ~host[h].ready
  /\ net[h] # "up" /\ \E g \in Hosts : net[g] = "up"
  /\ SetHost(h, [host[h] EXCEPT !.obj = "deleting"])
  /\ UNCHANGED <<log, faults>>

(* Anybody deletes the Host, its pod going away among them. *)
DeleteHost(h) ==
  /\ host[h].obj = "present" /\ Fault
  /\ SetHost(h, [host[h] EXCEPT !.obj = "deleting"])
  /\ UNCHANGED log

(* HostReconciler.finalize deletes the Workloads the cache has on h. *)
FinalizeHost(h) ==
  /\ seen[h].obj = "deleting" /\ host[h].obj = "deleting"
  /\ host' = [host EXCEPT ![h].obj = "listed"]
  /\ IF cached.phase = "live" /\ cached.host = h /\ stored.phase = "live"
     THEN Store(Deleted(stored)) /\ fresh' = FALSE ELSE UNCHANGED <<log, fresh>>
  /\ UNCHANGED <<pin, pc, read, next, lock, seen, net, inbox, running, lost, faults>>

HostGone(h) ==
  /\ host[h].obj = "listed"
  /\ SetHost(h, Absent) /\ UNCHANGED <<log, faults>>

Cut(h) ==
  /\ net[h] = "up" /\ Fault /\ net' = [net EXCEPT ![h] = "cut"]
  /\ UNCHANGED <<pin, log, worker, host, seen, inbox, running, lost>>

Crash(h) ==
  /\ net[h] # "dead" /\ Fault /\ net' = [net EXCEPT ![h] = "dead"]
  /\ running' = running \ {h}
  /\ inbox' = [inbox EXCEPT ![h] = <<>>]
  /\ UNCHANGED <<pin, log, worker, host, seen, lost>>

Return(h) ==
  /\ net[h] # "up" /\ net' = [net EXCEPT ![h] = "up"]
  /\ UNCHANGED <<pin, log, worker, host, seen, inbox, running, lost, faults>>

(* The operator restarts with caches it has just filled. *)
Restart ==
  /\ Fault /\ Done /\ log' = <<stored>> /\ seen' = host
  /\ UNCHANGED <<pin, host, net, inbox, running, lost>>

Next ==
  \/ Reconcile \/ Delete \/ SyncWorkload \/ Restart
  \/ \E h \in Hosts :
       \/ Deliver(h) \/ Drop(h) \/ SyncHost(h)
       \/ Register(h) \/ Probe(h) \/ Reap(h) \/ DeleteHost(h) \/ FinalizeHost(h) \/ HostGone(h)
       \/ Cut(h) \/ Crash(h) \/ Return(h)

Spec == Init /\ [][Next]_vars

(* The controllers run, caches catch up, a reachable host takes requests   *)
(* and heartbeats, an unreachable one is noticed, and reaped while another *)
(* host is heard.  Nothing has to be deleted, return or fail.              *)
Fairness ==
  /\ WF_vars(Reconcile) /\ WF_vars(SyncWorkload)
  /\ \A h \in Hosts :
       /\ WF_vars(Deliver(h)) /\ WF_vars(Drop(h)) /\ WF_vars(SyncHost(h))
       /\ WF_vars(Register(h)) /\ WF_vars(Probe(h)) /\ WF_vars(Reap(h))
       /\ WF_vars(FinalizeHost(h)) /\ WF_vars(HostGone(h))

LiveSpec == Spec /\ Fairness

-----------------------------------------------------------------------------
(* Hosts on which the workload runs, or will once a start arrives. *)
Holding ==
  running \cup {h \in Hosts : \E i \in DOMAIN inbox[h] : inbox[h][i] = "start"}

(* The host a stop will go to when the Workload is deleted. *)
Recorded == IF stored.phase = "gone" THEN {} ELSE {stored.host}

(* The workload is held nowhere but on the recorded host, and nowhere once *)
(* the Workload is gone, whatever the caches, the timeouts and the retries *)
(* did.  The exceptions: a host finalize gave up on while it was not       *)
(* heartbeating, and one reconcilePlacement cleared (see NothingToStop).   *)
HeldWhereRecorded == Holding \subseteq Recorded \cup lost

(* "nothing to do, no start was ever sent": what finalize says of a        *)
(* Workload without a HostID, from which it sends no stop.                 *)
NothingToStop ==
  pc = "patch" /\ read.phase = "deleting" /\ read.host = None => running = {}

(* A Host whose finalizer has listed its Workloads, until it is registered *)
(* again; a pinned host is tried whether or not it is registered.          *)
Retired(h) == host[h].obj = "listed" \/ (host[h].obj = "absent" /\ pin = None)

(* Once a Host's finalizer has dealt with its Workloads no start is sent   *)
(* there, however old the reads of the pass that would send it: what       *)
(* started then would be deleted by nobody.                                *)
NoStartOnceListed ==
  [][\A h \in Hosts : Retired(h) => inbox'[h] # Append(inbox[h], "start")]_vars

-----------------------------------------------------------------------------
(* Why it holds, by induction.                                             *)

Former == {None, stored.host} \cup lost

(* A read is stale only in fields, never in what it proves: a version with *)
(* the finalizer means the object is not gone, a deleting one means its    *)
(* host is final.                                                          *)
VersionsOrdered ==
  /\ \A i \in 1 .. Len(log) :
       /\ log[i].host \in Former
       /\ log[i].phase = "live" /\ log[i].fin => stored.fin /\ stored.phase # "gone"
       /\ log[i].phase # "live" => log[i].host = stored.host
  /\ \A i, j \in 1 .. Len(log) :
       i =< j /\ log[i].phase # "live" => log[j].phase # "live"
  /\ stored.phase = "deleting" => stored.fin
  /\ stored.phase = "live" /\ ~stored.fin => stored.host = None

(* What a pass read, and what it may still do to the stored object. *)
PassSound ==
  /\ fresh => pc # "idle" /\ read = stored
  /\ pc # "idle" => read.host \in Former /\ read.phase # "gone"
  /\ pc \in {"adopt", "evaluate", "starting"} => read.phase = "live"
  /\ pc \in {"evaluate", "starting", "patch"} /\ read.phase = "live"
       => stored.fin /\ stored.phase # "gone"
  /\ pc = "stopping" => read.phase = "deleting" /\ read.host # None
  /\ pc \in {"stopping", "patch"} /\ read.phase = "deleting"
       => read.host = stored.host /\ \A i \in 1 .. Len(log) : log[i].phase # "live"

(* A patch of a live Workload touches its host only under the lock, and a  *)
(* patch that removes the finalizer follows a stop.                        *)
PatchSound ==
  pc = "patch" =>
    /\ read.phase = "live" => next.fin = read.fin
    /\ next.host # read.host => lock /\ None \in {read.host, next.host}
    /\ read.phase = "deleting" => Holding \subseteq lost /\ next = Finalized(read)

(* The last request to a host whose answer finalize waits for is its stop. *)
StopIsLast ==
  pc = "stopping" /\ inbox[read.host] # <<>> => inbox[read.host][Len(inbox[read.host])] = "stop"

(* The cache has seen a Host go by the time its finalizer has run. *)
ListedIsSeen ==
  \A h \in Hosts :
    /\ host[h].obj = "listed" => Deleting(seen[h])
    /\ host[h].obj = "absent" => seen[h].obj # "present"

IndInv ==
  /\ TypeOK /\ HeldWhereRecorded
  /\ VersionsOrdered /\ PassSound /\ PatchSound /\ StopIsLast

(* A recorded host is never replaced by another in one write: a selection  *)
(* made from a read that predates it fails its optimistic lock.            *)
NeverRebound ==
  [][stored.host # None => stored'.host \in {stored.host, None}]_vars

(* A deleted Workload goes away, even when its host no longer answers. *)
DeletionCompletes == stored.phase = "deleting" ~> stored.phase = "gone"

(* A Workload is placed, or deleted, or no host it may run on is up: it    *)
(* does not stay with a host that has gone, nor with a WorkloadID and no   *)
(* host, which is what a pass that read it before the host was cleared     *)
(* leaves when it starts it on the returned Host.                          *)
Eligible == IF pin = None THEN Hosts ELSE {pin}
PlacementSettles ==
  stored.phase = "live" ~> \/ stored.phase # "live"
                           \/ stored.placed /\ stored.host # None
                           \/ \A h \in Eligible : net[h] # "up"
=============================================================================
