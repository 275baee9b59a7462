---------------------------- MODULE GatewayRoutes ----------------------------
(***************************************************************************)
(* runtime-gateway: the routing tables a gateway process builds from the   *)
(* Host and Workload objects, and the requests it resolves with them.      *)
(*                                                                         *)
(* Two controllers, one worker each, share one HostTracker behind a lock.  *)
(* A worker takes a key off its queue, reads the object from the cache,    *)
(* then calls the tracker: the read and the call are separate steps here,  *)
(* and anything may be delivered, or done by the other worker, between     *)
(* them.  The objects are those of the gateway's cache, the only ones it   *)
(* reads: each kind has a watch of its own, so a Host may be seen long     *)
(* after the Workloads placed on it, and a watch that reconnects skips     *)
(* states, a deletion and a re-creation under one name included.           *)
(***************************************************************************)
EXTENDS Naturals, FiniteSets

CONSTANTS
    HostKeys,      \* the names of Host objects
    WorkloadKeys,  \* the names of Workload objects
    Hostnames,     \* the hostnames a workload may ask to serve
    NoHostname,    \* workloadHostname's "": the workload serves no HTTP
    Nobody,        \* an idle worker, and Resolve's fallback
    MaxRuns,       \* bound: processes that register under one Host name
    MaxUids,       \* bound: objects created under one Workload name
    MaxChanges,    \* bound: objects delivered by the watches
    MaxFaults      \* bound: finalizer patches the API server refuses

ASSUME GatewayAssumption ==
    /\ MaxRuns \in Nat /\ MaxUids \in Nat
    /\ MaxChanges \in Nat /\ MaxFaults \in Nat
    /\ NoHostname \notin Hostnames
    /\ Nobody \notin HostKeys /\ Nobody \notin WorkloadKeys

VARIABLES
    hostObj,       \* Host objects, as cached
    workloadObj,   \* Workload objects, as cached
    hostQueue,     \* keys the host controller has to reconcile
    workloadQueue, \* keys the workload controller has to reconcile
    hostAt,        \* the key whose Host was read and not yet acted upon
    hostRead,      \* what that read returned
    workloadAt,    \* likewise for the workload controller
    workloadRead,
    hosts,         \* HostTracker.hosts, the ids that have an endpoint
    hostKeys,      \* HostTracker.hostKeys: Host key to host id
    workloads,     \* HostTracker.workloads: workload id to host id
    hostnames,     \* HostTracker.hostnames: hostname to workload ids
    workloadKeys,  \* HostTracker.workloadKeys: Workload key to its route
    changes, faults

objects == <<hostObj, workloadObj>>
hostWorker == <<hostAt, hostRead>>
workloadWorker == <<workloadAt, workloadRead>>
workloadTables == <<workloads, hostnames, workloadKeys>>
tables == <<hosts, hostKeys, workloadTables>>
vars == <<objects, hostQueue, workloadQueue, hostWorker, workloadWorker,
          tables, changes, faults>>

-----------------------------------------------------------------------------
(***************************************************************************)
(* Objects.  A host process names itself once, so an id belongs to one     *)
(* Host name; a Workload's id is the UID of its object, so it belongs to   *)
(* one Workload name.                                                      *)
(***************************************************************************)
HostIds == HostKeys \X (1..MaxRuns)
WorkloadIds == WorkloadKeys \X (1..MaxUids)
NoHostId == <<Nobody, 0>>

Hosts ==
    [present : BOOLEAN, run : 0..MaxRuns, ready : {"true", "false", "unknown"},
     deleting : BOOLEAN]

Workloads ==
    [present : BOOLEAN, uid : 0..MaxUids, placed : BOOLEAN, ready : BOOLEAN,
     hostID : HostIds \cup {NoHostId}, hostname : Hostnames \cup {NoHostname},
     deleting : BOOLEAN]

HostID(k, o) == <<k, o.run>>
WorkloadID(k, o) == <<k, o.uid>>

NoHost(run) ==
    [present |-> FALSE, run |-> run, ready |-> "unknown",
     deleting |-> FALSE]

NoWorkload(uid) ==
    [present |-> FALSE, uid |-> uid, placed |-> FALSE, ready |-> FALSE,
     hostID |-> NoHostId, hostname |-> NoHostname,
     deleting |-> FALSE]

\* A Host as a watch may show it.  (A field that no reconciler reads in some
\* state of the object has one value there.)
HostVersions ==
    {n \in Hosts : n.present /\ n.run >= 1 /\ (n.deleting => n.ready = "unknown")}

\* What a watch may show next: nothing, or the object any number of heartbeats,
\* verdicts, deletions and re-creations later.
HostFollows(o) ==
    {NoHost(o.run)} \cup {n \in HostVersions : n.run >= o.run}

\* A Workload as a watch may show it: it is Ready only when placed.
WorkloadVersions ==
    {n \in Workloads :
        /\ n.present /\ n.uid >= 1
        /\ n.placed = (n.hostID # NoHostId)
        /\ n.deleting => ~n.placed
        /\ n.ready => n.placed
        /\ n.hostname # NoHostname => n.ready}

\* What a watch may show next of a Workload.  One object is placed once, keeps
\* its host from then on, and once deleting stays so; a re-creation under the
\* same name has a new UID.
WorkloadFollows(o) ==
    {NoWorkload(o.uid)} \cup
    {n \in WorkloadVersions :
        \/ n.uid > o.uid
        \/ /\ o.present /\ n.uid = o.uid
           /\ o.placed => (n.deleting \/ n.hostID = o.hostID)
           /\ o.deleting => n.deleting}

-----------------------------------------------------------------------------
(* The tracker.  Its maps are functions whose domain is the keys present.  *)

Put(f, k, v) == [x \in DOMAIN f \cup {k} |-> IF x = k THEN v ELSE f[x]]
Without(f, S) == [x \in DOMAIN f \ S |-> f[x]]

\* Workload ids `gone' leave every set of f, and a set they empty leaves f.
Purge(f, gone) ==
    [h \in {h \in DOMAIN f : ~(f[h] \subseteq gone)} |-> f[h] \ gone]

OnHost(id) == {w \in DOMAIN workloads : workloads[w] = id}

\* Mutant: the routes go and the hostnames stay.
removeHostForgets(id) ==
    /\ workloadKeys' = Without(workloadKeys,
           {k \in DOMAIN workloadKeys : workloadKeys[k].hostID = id})
    /\ workloads' = Without(workloads, OnHost(id))
    /\ UNCHANGED hostnames

\* A host goes with every workload placed on it.  (The callers take its id out
\* of `hosts', which they may set themselves.)
removeHost(id) ==
    /\ workloadKeys' = Without(workloadKeys,
           {k \in DOMAIN workloadKeys : workloadKeys[k].hostID = id})
    /\ workloads' = Without(workloads, OnHost(id))
    /\ hostnames' = Purge(hostnames, OnHost(id))

\* Mutant: a Host that comes back under a new id keeps its old one.
RegisterHostKeepsOld(k, id) ==
    /\ hosts' = hosts \cup {id}
    /\ hostKeys' = Put(hostKeys, k, id)
    /\ UNCHANGED workloadTables

RegisterHost(k, id) ==
    IF k \in DOMAIN hostKeys /\ hostKeys[k] # id
    THEN /\ removeHost(hostKeys[k])
         /\ hosts' = (hosts \ {hostKeys[k]}) \cup {id}
         /\ hostKeys' = Put(hostKeys, k, id)
    ELSE /\ hosts' = hosts \cup {id}
         /\ hostKeys' = Put(hostKeys, k, id)
         /\ UNCHANGED workloadTables

DeregisterHost(k) ==
    IF k \in DOMAIN hostKeys
    THEN /\ removeHost(hostKeys[k])
         /\ hosts' = hosts \ {hostKeys[k]}
         /\ hostKeys' = Without(hostKeys, {k})
    ELSE UNCHANGED tables

\* removeWorkload: the hostnames without what a route put there.
RouteRemoved(r) ==
    IF r.hostname \in DOMAIN hostnames
    THEN LET left == hostnames[r.hostname] \ {r.workloadID}
         IN  IF left = {} THEN Without(hostnames, {r.hostname})
                          ELSE Put(hostnames, r.hostname, left)
    ELSE hostnames

Serving(f, h) == IF h \in DOMAIN f THEN f[h] ELSE {}

\* Mutant: a key that has a route keeps it.
RegisterWorkloadOnce(k, r) ==
    /\ IF k \in DOMAIN workloadKeys
       THEN UNCHANGED workloadTables
       ELSE /\ workloadKeys' = Put(workloadKeys, k, r)
            /\ workloads' = Put(workloads, r.workloadID, r.hostID)
            /\ hostnames' = Put(hostnames, r.hostname,
                                Serving(hostnames, r.hostname) \cup {r.workloadID})
    /\ UNCHANGED <<hosts, hostKeys>>

RegisterWorkload(k, r) ==
    LET moved == k \in DOMAIN workloadKeys /\ workloadKeys[k] # r
        ws == IF moved THEN Without(workloads, {workloadKeys[k].workloadID})
                       ELSE workloads
        hn == IF moved THEN RouteRemoved(workloadKeys[k]) ELSE hostnames
    IN  /\ workloadKeys' = Put(workloadKeys, k, r)
        /\ workloads' = Put(ws, r.workloadID, r.hostID)
        /\ hostnames' = Put(hn, r.hostname,
                            Serving(hn, r.hostname) \cup {r.workloadID})
        /\ UNCHANGED <<hosts, hostKeys>>

DeregisterWorkload(k) ==
    IF k \in DOMAIN workloadKeys
    THEN /\ workloads' = Without(workloads, {workloadKeys[k].workloadID})
         /\ hostnames' = RouteRemoved(workloadKeys[k])
         /\ workloadKeys' = Without(workloadKeys, {k})
         /\ UNCHANGED <<hosts, hostKeys>>
    ELSE UNCHANGED tables

\* Where a request for hostname h may be sent: any of its workloads is picked.
Resolve(h) ==
    IF h \notin DOMAIN hostnames THEN {Nobody}
    ELSE {IF w \in DOMAIN workloads /\ workloads[w] \in hosts THEN w ELSE Nobody :
             w \in hostnames[h]}

-----------------------------------------------------------------------------
(* The controllers. *)

Init ==
    /\ hostObj = [k \in HostKeys |-> NoHost(0)]
    /\ workloadObj = [k \in WorkloadKeys |-> NoWorkload(0)]
    /\ hostQueue = {} /\ workloadQueue = {}
    /\ hostAt = Nobody /\ hostRead = NoHost(0)
    /\ workloadAt = Nobody /\ workloadRead = NoWorkload(0)
    /\ hosts = {}
    /\ hostKeys = << >> /\ workloads = << >>
    /\ hostnames = << >> /\ workloadKeys = << >>
    /\ changes = 0 /\ faults = 0

DeliverHost(k) ==
    /\ changes < MaxChanges
    /\ \E o \in HostFollows(hostObj[k]) :
          /\ o # hostObj[k]
          /\ hostObj' = [hostObj EXCEPT ![k] = o]
    /\ hostQueue' = hostQueue \cup {k}
    /\ changes' = changes + 1
    /\ UNCHANGED <<workloadObj, workloadQueue, hostWorker, workloadWorker,
                   tables, faults>>

DeliverWorkload(k) ==
    /\ changes < MaxChanges
    /\ \E o \in WorkloadFollows(workloadObj[k]) :
          /\ o # workloadObj[k]
          /\ workloadObj' = [workloadObj EXCEPT ![k] = o]
    /\ workloadQueue' = workloadQueue \cup {k}
    /\ changes' = changes + 1
    /\ UNCHANGED <<hostObj, hostQueue, hostWorker, workloadWorker, tables, faults>>

\* The cache's periodic resync shows every object it holds once more.
Resync ==
    /\ hostQueue' = hostQueue \cup {k \in HostKeys : hostObj[k].present}
    /\ workloadQueue' =
           workloadQueue \cup {k \in WorkloadKeys : workloadObj[k].present}
    /\ UNCHANGED <<objects, hostWorker, workloadWorker, tables, changes, faults>>

\* HostReconciler.Reconcile up to its read.
GetHost(k) ==
    /\ hostAt = Nobody
    /\ k \in hostQueue
    /\ hostQueue' = hostQueue \ {k}
    /\ hostAt' = k
    /\ hostRead' = hostObj[k]
    /\ UNCHANGED <<objects, workloadQueue, workloadWorker, tables, changes, faults>>

HostDone == hostAt' = Nobody /\ hostRead' = NoHost(0)

\* The registry call that a read of a Host leads to: Ready=Unknown leaves the
\* endpoint as it is.
HostVerdict(k, o) ==
    CASE ~o.present \/ o.deleting \/ o.ready = "false" -> DeregisterHost(k)
      [] o.present /\ ~o.deleting /\ o.ready = "true" -> RegisterHost(k, HostID(k, o))
      [] o.present /\ ~o.deleting /\ o.ready = "unknown" -> UNCHANGED tables

\* The rest of HostReconciler.Reconcile.
ReconcileHost ==
    /\ hostAt # Nobody
    /\ HostDone
    /\ HostVerdict(hostAt, hostRead)
    /\ UNCHANGED <<objects, hostQueue, workloadQueue, workloadWorker,
                   changes, faults>>

\* dropGatewayFinalizer fails on an object that carries an earlier gateway's
\* finalizer: the error puts the key back.
HostPatchFails ==
    /\ hostAt # Nobody
    /\ hostRead.present
    /\ faults < MaxFaults
    /\ faults' = faults + 1
    /\ hostQueue' = hostQueue \cup {hostAt}
    /\ HostDone
    /\ UNCHANGED <<objects, workloadQueue, workloadWorker, tables, changes>>

\* WorkloadReconciler.Reconcile up to its read.
GetWorkload(k) ==
    /\ workloadAt = Nobody
    /\ k \in workloadQueue
    /\ workloadQueue' = workloadQueue \ {k}
    /\ workloadAt' = k
    /\ workloadRead' = workloadObj[k]
    /\ UNCHANGED <<objects, hostQueue, hostWorker, tables, changes, faults>>

WorkloadDone == workloadAt' = Nobody /\ workloadRead' = NoWorkload(0)

Route(k, o) ==
    [hostID |-> o.hostID, workloadID |-> WorkloadID(k, o), hostname |-> o.hostname]

\* Mutant: NotFound ignored, as there is no object left to look at.
WorkloadVerdictIgnoresGone(k, o) ==
    CASE ~o.deleting /\ ~o.placed -> UNCHANGED tables
      [] o.deleting \/ (o.placed /\ (o.hostname = NoHostname \/ ~o.ready)) ->
             DeregisterWorkload(k)
      [] o.placed /\ o.hostname # NoHostname /\ o.ready ->
             RegisterWorkload(k, Route(k, o))

\* The registry call that a read of a Workload leads to: none while it is not
\* placed.
WorkloadVerdict(k, o) ==
    CASE ~o.present \/ o.deleting -> DeregisterWorkload(k)
      [] o.present /\ ~o.deleting /\ ~o.placed -> UNCHANGED tables
      [] o.placed /\ (o.hostname = NoHostname \/ ~o.ready) -> DeregisterWorkload(k)
      [] o.placed /\ o.hostname # NoHostname /\ o.ready ->
             RegisterWorkload(k, Route(k, o))

\* The rest of WorkloadReconciler.Reconcile.
ReconcileWorkload ==
    /\ workloadAt # Nobody
    /\ WorkloadDone
    /\ WorkloadVerdict(workloadAt, workloadRead)
    /\ UNCHANGED <<objects, hostQueue, workloadQueue, hostWorker, changes, faults>>

WorkloadPatchFails ==
    /\ workloadAt # Nobody
    /\ workloadRead.present
    /\ faults < MaxFaults
    /\ faults' = faults + 1
    /\ workloadQueue' = workloadQueue \cup {workloadAt}
    /\ WorkloadDone
    /\ UNCHANGED <<objects, hostQueue, hostWorker, tables, changes>>

Next ==
    \/ \E k \in HostKeys : DeliverHost(k) \/ GetHost(k)
    \/ \E k \in WorkloadKeys : DeliverWorkload(k) \/ GetWorkload(k)
    \/ Resync
    \/ ReconcileHost \/ HostPatchFails
    \/ ReconcileWorkload \/ WorkloadPatchFails

Spec == Init /\ [][Next]_vars

\* The workers run, a queue starves no key, and the cache resyncs.
LiveSpec ==
    /\ Spec
    /\ \A k \in HostKeys : SF_vars(GetHost(k))
    /\ \A k \in WorkloadKeys : SF_vars(GetWorkload(k))
    /\ WF_vars(ReconcileHost) /\ WF_vars(ReconcileWorkload)
    /\ WF_vars(Resync)

-----------------------------------------------------------------------------
(* Properties. *)

Routes == [hostID : HostIds, workloadID : WorkloadIds, hostname : Hostnames]

HostTablesTyped ==
    /\ hosts \subseteq HostIds
    /\ DOMAIN hostKeys \subseteq HostKeys
    /\ hostKeys \in [DOMAIN hostKeys -> HostIds]

WorkloadTablesTyped ==
    /\ DOMAIN workloadKeys \subseteq WorkloadKeys
    /\ workloadKeys \in [DOMAIN workloadKeys -> Routes]
    /\ DOMAIN workloads \subseteq WorkloadIds
    /\ workloads \in [DOMAIN workloads -> HostIds]
    /\ DOMAIN hostnames \subseteq Hostnames
    /\ hostnames \in [DOMAIN hostnames -> SUBSET WorkloadIds]

\* Every variable has its type; a tracker map is a function on the keys it holds.
TypeOK ==
    /\ hostObj \in [HostKeys -> Hosts]
    /\ workloadObj \in [WorkloadKeys -> Workloads]
    /\ hostQueue \subseteq HostKeys /\ workloadQueue \subseteq WorkloadKeys
    /\ hostAt \in HostKeys \cup {Nobody} /\ hostRead \in Hosts
    /\ workloadAt \in WorkloadKeys \cup {Nobody} /\ workloadRead \in Workloads
    /\ HostTablesTyped
    /\ WorkloadTablesTyped
    /\ changes \in 0..MaxChanges /\ faults \in 0..MaxFaults

WorkloadTablesAgree ==
    /\ DOMAIN workloads = {workloadKeys[k].workloadID : k \in DOMAIN workloadKeys}
    /\ \A k \in DOMAIN workloadKeys :
          workloads[workloadKeys[k].workloadID] = workloadKeys[k].hostID
    /\ DOMAIN hostnames = {workloadKeys[k].hostname : k \in DOMAIN workloadKeys}
    /\ \A h \in DOMAIN hostnames :
          hostnames[h] = {workloadKeys[k].workloadID :
                             k \in {j \in DOMAIN workloadKeys :
                                       workloadKeys[j].hostname = h}}

HostTablesAgree == hosts = {hostKeys[k] : k \in DOMAIN hostKeys}

\* The five maps of HostTracker stay one table: the workloads and the hostnames
\* are exactly those of the routes kept by object key, so that whatever order
\* the two reconcilers run in nothing is left behind that no key can undo, every
\* workload Resolve picks has a host, and no hostname is kept for nobody.
TablesAgree == WorkloadTablesAgree /\ HostTablesAgree

HostQuiet(k) == k \notin hostQueue /\ hostAt # k
WorkloadQuiet(k) == k \notin workloadQueue /\ workloadAt # k

\* Once nothing is left to reconcile for a Workload's name, the only route it
\* can have is the one its object asks for.  The exception is the code's: an
\* object that is not placed yet is left alone, and when its creation was seen
\* together with the deletion of one of the same name, the earlier one's route
\* is still there.
NoStaleRoute ==
    \A k \in DOMAIN workloadKeys :
        WorkloadQuiet(k) =>
            \/ /\ workloadObj[k].ready
               /\ workloadKeys[k] = Route(k, workloadObj[k])
            \/ /\ workloadObj[k].present
               /\ ~workloadObj[k].placed /\ ~workloadObj[k].deleting
               /\ workloadKeys[k].workloadID # WorkloadID(k, workloadObj[k])

\* A request is only ever sent to a host that is registered under its current
\* id, and once that Host's name is quiet, not to one that is gone, deleting or
\* known to be unreachable.
RequestsReachLiveHosts ==
    \A h \in Hostnames : \A w \in Resolve(h) \ {Nobody} :
        LET id == workloads[w]
            o == hostObj[id[1]]
        IN  /\ hostKeys[id[1]] = id
            /\ HostQuiet(id[1]) =>
                  /\ o.present /\ ~o.deleting /\ o.ready # "false"
                  /\ o.ready = "true" => HostID(id[1], o) = id

-----------------------------------------------------------------------------
(* What makes the safety properties inductive. *)

\* An id tells which name it was registered under.
OwnHostIds == \A k \in DOMAIN hostKeys : hostKeys[k][1] = k

OwnWorkloadIds ==
    \A k \in DOMAIN workloadKeys : workloadKeys[k].workloadID[1] = k

HostSane(o) == o.present => o.run >= 1

WorkloadSane(o) ==
    /\ o.present => o.uid >= 1
    /\ o.placed => (o.present /\ ~o.deleting)
    /\ o.placed <=> o.hostID # NoHostId
    /\ o.ready => o.placed

ObjectsSane ==
    /\ \A k \in HostKeys : HostSane(hostObj[k])
    /\ \A k \in WorkloadKeys : WorkloadSane(workloadObj[k])
    /\ HostSane(hostRead) /\ WorkloadSane(workloadRead)

\* A read is out of date only if its key has been queued again.
ReadsFresh ==
    /\ (hostAt # Nobody /\ hostAt \notin hostQueue) => hostRead = hostObj[hostAt]
    /\ (workloadAt # Nobody /\ workloadAt \notin workloadQueue) =>
          workloadRead = workloadObj[workloadAt]

\* The object with this UID was placed, and n is that object or a later one.
PlacedBefore(uid, n) ==
    /\ uid <= n.uid
    /\ (uid = n.uid /\ n.present /\ ~n.deleting) => n.placed

\* A route, or a read that may become one, is of an object that was placed.
RoutesPlaced ==
    /\ \A k \in DOMAIN workloadKeys :
          /\ PlacedBefore(workloadKeys[k].workloadID[2], workloadObj[k])
          /\ workloadAt = k =>
                PlacedBefore(workloadKeys[k].workloadID[2], workloadRead)
    /\ (workloadAt # Nobody /\ workloadRead.placed) =>
          PlacedBefore(workloadRead.uid, workloadObj[workloadAt])

\* Once a Host's name is quiet, the id registered under it is of an object that
\* is there and not known to be unreachable.
HostsFollow ==
    \A k \in DOMAIN hostKeys :
        HostQuiet(k) =>
            /\ hostObj[k].present /\ ~hostObj[k].deleting
            /\ hostObj[k].ready # "false"
            /\ hostObj[k].ready = "true" => HostID(k, hostObj[k]) = hostKeys[k]

\* The inductive invariant: the tables agree, each row is owned by its key, and
\* each row is either what its object asks for or due to be reconciled.
IndInv ==
    /\ TypeOK
    /\ TablesAgree
    /\ OwnHostIds /\ OwnWorkloadIds
    /\ ObjectsSane
    /\ ReadsFresh
    /\ RoutesPlaced
    /\ NoStaleRoute
    /\ HostsFollow

\* A Workload that asks to be served on a hostname, by a host that is Ready.
Servable(k) ==
    LET o == workloadObj[k]
        n == o.hostID[1]
    IN  /\ o.ready /\ o.hostname # NoHostname
        /\ hostObj[n].present /\ ~hostObj[n].deleting /\ hostObj[n].ready = "true"
        /\ HostID(n, hostObj[n]) = o.hostID

\* In the end every servable Workload is served: a route that went with its
\* host (removeHost) comes back, and no order of reads and registry calls loses
\* one for good.  It is the cache's resync that brings it back: nothing
\* reconciles a Workload because its Host returned.
RoutesReturn ==
    \A k \in WorkloadKeys :
        <>[](Servable(k) => WorkloadID(k, workloadObj[k])
                               \in Resolve(workloadObj[k].hostname))
=============================================================================
