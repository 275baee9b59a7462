-------------------------- MODULE PlacementProofs --------------------------
(***************************************************************************)
(* Theorems of Placement.tla, for any finite set of hosts, any lag of the  *)
(* cache and any number of faults.                                         *)
(***************************************************************************)
EXTENDS Placement, TLAPS

(* A new version is the stored one, and the older ones stay where they are. *)
LEMMA StoreFacts ==
  ASSUME log \in Seq(Workloads), Len(log) >= 1, NEW v \in Workloads, Store(v)
  PROVE  /\ log' \in Seq(Workloads) /\ Len(log') = Len(log) + 1 /\ Len(log') =< MaxLag
         /\ stored' = v
         /\ \A i \in 1 .. Len(log) : log'[i] = log[i]
         /\ \A i \in 1 .. Len(log') : i \in 1 .. Len(log) \/ (i = Len(log') /\ log'[i] = v)
BY PlacementConstants DEF Store, stored

(* When the cache moves on, the stored version stays. *)
LEMMA SyncFacts ==
  ASSUME log \in Seq(Workloads), Len(log) > 1, log' = Tail(log)
  PROVE  /\ log' \in Seq(Workloads) /\ Len(log') = Len(log) - 1
         /\ stored' = stored
         /\ \A i \in 1 .. Len(log') : i + 1 \in 1 .. Len(log) /\ log'[i] = log[i + 1]
BY DEF stored

(* The cached and the stored version are versions. *)
LEMMA LogFacts ==
  ASSUME TypeOK
  PROVE  /\ log \in Seq(Workloads) /\ Len(log) \in Nat /\ Len(log) >= 1
         /\ cached \in Workloads /\ stored \in Workloads
         /\ Len(log) \in 1 .. Len(log) /\ 1 \in 1 .. Len(log)
BY DEF TypeOK, cached, stored

LEMMA Init_Ind == Init => IndInv
<1> SUFFICES ASSUME Init PROVE IndInv
  OBVIOUS
<1>1. Created \in Workloads
  BY DEF Created, Workloads
<1>2. TypeOK
  <2>1. host \in [Hosts -> HostObjects] /\ seen \in [Hosts -> HostObjects]
    <3>1. Absent \in HostObjects /\ [obj |-> "present", ready |-> TRUE] \in HostObjects
      BY DEF HostObjects, Absent
    <3>2. host \in [Hosts -> {Absent, [obj |-> "present", ready |-> TRUE]}] /\ seen = host
      BY DEF Init
    <3> QED
      BY <3>1, <3>2
  <2>2. log \in Seq(Workloads) /\ Len(log) \in 1 .. MaxLag
    BY <1>1, PlacementConstants DEF Init
  <2>3. inbox \in [Hosts -> Seq({"start", "stop"})]
    BY DEF Init
  <2>4. net \in [Hosts -> {"up", "cut", "dead"}] /\ faults \in 0 .. MaxFaults
    BY PlacementConstants DEF Init
  <2>5. pin \in Hosts \cup {None}
    BY PlacementConstants DEF Init
  <2> QED
    BY <1>1, <2>1, <2>2, <2>3, <2>4, <2>5 DEF Init, TypeOK
<1>3. stored = Created /\ Holding = {}
  BY DEF Init, stored, Holding
<1>4. Len(log) = 1 /\ log[1] = Created /\ pc = "idle" /\ ~fresh
  BY DEF Init
<1>5. VersionsOrdered
  BY <1>3, <1>4 DEF VersionsOrdered, Former, Created
<1> QED
  BY <1>2, <1>3, <1>4, <1>5 DEF IndInv, HeldWhereRecorded, PassSound,
     PatchSound, StopIsLast, Created

-----------------------------------------------------------------------------
(* Steps of the environment that leave the Workload alone.                 *)

LEMMA Quiet_Ind ==
  ASSUME IndInv, UNCHANGED <<pin, log, worker, seen, inbox, running, lost>>,
         host' \in [Hosts -> HostObjects], net' \in [Hosts -> {"up", "cut", "dead"}],
         faults' \in 0 .. MaxFaults
  PROVE  IndInv'
<1>1. stored' = stored /\ Holding' = Holding /\ Former' = Former
  BY DEF worker, stored, Holding, Former
<1>2. TypeOK'
  BY DEF IndInv, TypeOK, worker
<1> QED
  BY <1>1, <1>2 DEF IndInv, HeldWhereRecorded, Recorded, VersionsOrdered,
     PassSound, PatchSound, StopIsLast, worker

LEMMA Hosts_Ind ==
  ASSUME IndInv, NEW h \in Hosts,
         \/ Register(h) \/ Probe(h) \/ Reap(h) \/ DeleteHost(h) \/ HostGone(h)
         \/ Cut(h) \/ Return(h)
  PROVE  IndInv'
<1>1. UNCHANGED <<pin, log, worker, seen, inbox, running, lost>>
  BY DEF Register, Probe, Reap, DeleteHost, HostGone, Cut, Return, SetHost
<1>2. host' \in [Hosts -> HostObjects]
  <2>1. host \in [Hosts -> HostObjects]
    BY DEF IndInv, TypeOK
  <2>2. \A b \in BOOLEAN : [host[h] EXCEPT !.ready = b] \in HostObjects
    BY <2>1 DEF HostObjects
  <2>3. [host[h] EXCEPT !.obj = "deleting"] \in HostObjects
    BY <2>1 DEF HostObjects
  <2>4. Absent \in HostObjects /\ [obj |-> "present", ready |-> FALSE] \in HostObjects
    BY DEF HostObjects, Absent
  <2> QED
    BY <2>1, <2>2, <2>3, <2>4
       DEF Register, Probe, Reap, DeleteHost, HostGone, Cut, Return, SetHost
<1>3. net' \in [Hosts -> {"up", "cut", "dead"}] /\ faults' \in 0 .. MaxFaults
  <2>1. faults' = faults \/ (faults < MaxFaults /\ faults' = faults + 1)
    BY DEF Register, Probe, Reap, DeleteHost, HostGone, Cut, Return, Fault
  <2>2. net' = net \/ (\E s \in {"up", "cut", "dead"} : net' = [net EXCEPT ![h] = s])
    BY DEF Register, Probe, Reap, DeleteHost, HostGone, Cut, Return, SetHost
  <2>3. net \in [Hosts -> {"up", "cut", "dead"}] /\ faults \in 0 .. MaxFaults
    BY DEF IndInv, TypeOK
  <2>4. net' \in [Hosts -> {"up", "cut", "dead"}]
    BY <2>2, <2>3
  <2>5. faults' \in 0 .. MaxFaults
    BY <2>1, <2>3, PlacementConstants
  <2> QED
    BY <2>4, <2>5
<1> QED
  BY <1>1, <1>2, <1>3, Quiet_Ind

LEMMA Drop_Ind ==
  ASSUME IndInv, NEW h \in Hosts, Drop(h)
  PROVE  IndInv'
<1>1. stored' = stored /\ Former' = Former
  BY DEF Drop, worker, stored, Former
<1>2. inbox \in [Hosts -> Seq({"start", "stop"})]
  BY DEF IndInv, TypeOK
<1>3. TypeOK'
  BY <1>2 DEF IndInv, TypeOK, Drop, worker, cluster
<1>4. Holding' \subseteq Holding
  BY <1>2 DEF Drop, Holding
<1>5. StopIsLast'
  BY <1>2 DEF IndInv, StopIsLast, Drop, worker
<1> QED
  BY <1>1, <1>3, <1>4, <1>5 DEF IndInv, HeldWhereRecorded, Recorded,
     VersionsOrdered, PassSound, PatchSound, Drop, worker, cluster

LEMMA Crash_Ind ==
  ASSUME IndInv, NEW h \in Hosts, Crash(h)
  PROVE  IndInv'
<1>1. stored' = stored /\ Former' = Former
  BY DEF Crash, worker, stored, Former
<1>2. inbox \in [Hosts -> Seq({"start", "stop"})]
  BY DEF IndInv, TypeOK
<1>3. TypeOK'
  BY <1>2, PlacementConstants DEF IndInv, TypeOK, Crash, worker, Fault
<1>4. Holding' \subseteq Holding
  BY <1>2 DEF Crash, Holding
<1>5. StopIsLast'
  BY <1>2 DEF IndInv, StopIsLast, Crash, worker
<1> QED
  BY <1>1, <1>3, <1>4, <1>5 DEF IndInv, HeldWhereRecorded, Recorded,
     VersionsOrdered, PassSound, PatchSound, Crash, worker

LEMMA SyncHost_Ind ==
  ASSUME IndInv, NEW h \in Hosts, SyncHost(h)
  PROVE  IndInv'
<1>1. stored' = stored /\ Holding' = Holding /\ Former' = Former
  BY DEF SyncHost, worker, stored, Holding, Former
<1>2. TypeOK'
  BY DEF IndInv, TypeOK, SyncHost, worker
<1> QED
  BY <1>1, <1>2 DEF IndInv, HeldWhereRecorded, Recorded,
     VersionsOrdered, PassSound, PatchSound, StopIsLast, SyncHost, worker

LEMMA SyncWorkload_Ind ==
  ASSUME IndInv, SyncWorkload
  PROVE  IndInv'
<1>1. /\ log' \in Seq(Workloads) /\ Len(log') = Len(log) - 1
      /\ stored' = stored
      /\ \A i \in 1 .. Len(log') : i + 1 \in 1 .. Len(log) /\ log'[i] = log[i + 1]
  BY SyncFacts DEF IndInv, TypeOK, SyncWorkload
<1>2. Holding' = Holding /\ Former' = Former /\ Len(log) \in Nat /\ Len(log) > 1
  BY <1>1 DEF SyncWorkload, Holding, Former, IndInv, TypeOK
<1>3. TypeOK'
  BY <1>1, <1>2, PlacementConstants DEF IndInv, TypeOK, SyncWorkload, worker, cluster
<1>4. VersionsOrdered'
  <2>1. \A i, j \in 1 .. Len(log') :
          i =< j /\ log'[i].phase # "live" => log'[j].phase # "live"
    BY <1>1, <1>2 DEF IndInv, VersionsOrdered
  <2> QED
    BY <1>1, <1>2, <2>1 DEF IndInv, VersionsOrdered
<1>5. UNCHANGED <<pin, worker, seen, inbox, lost>>
  BY DEF SyncWorkload, cluster
<1>6. PassSound'
  BY <1>1, <1>2, <1>5 DEF IndInv, PassSound, worker
<1> QED
  BY <1>1, <1>2, <1>3, <1>4, <1>5, <1>6 DEF IndInv, HeldWhereRecorded, Recorded,
     PatchSound, StopIsLast, SyncWorkload, worker

LEMMA Restart_Ind ==
  ASSUME IndInv, Restart
  PROVE  IndInv'
<1>1. stored \in Workloads
  BY LogFacts DEF IndInv
<1>2. /\ log' = <<stored>> /\ Len(log') = 1 /\ log'[1] = stored /\ stored' = stored
      /\ Holding' = Holding /\ Former' = Former
      /\ pc' = "idle" /\ ~fresh' /\ UNCHANGED <<lost, inbox>>
  BY <1>1 DEF Restart, Done, stored, Holding, Former
<1>3. Created \in Workloads
  BY DEF Created, Workloads
<1>4. TypeOK'
  <2>1. log' \in Seq(Workloads) /\ Len(log') \in 1 .. MaxLag
    BY <1>1, <1>2, PlacementConstants
  <2> QED
    <3>1. faults' \in 0 .. MaxFaults
      BY PlacementConstants DEF IndInv, TypeOK, Restart, Fault
    <3> QED
      BY <1>3, <2>1, <3>1 DEF IndInv, TypeOK, Restart, Done
<1>6. VersionsOrdered'
  <2>1. /\ stored.host \in Former /\ (stored.phase = "deleting" => stored.fin)
        /\ stored.phase = "live" /\ ~stored.fin => stored.host = None
    BY DEF IndInv, VersionsOrdered, Former
  <2>2. stored.phase = "live" /\ stored.fin => stored.phase # "gone"
    OBVIOUS
  <2> QED
    BY <1>2, <2>1, <2>2 DEF VersionsOrdered
<1>7. PassSound' /\ PatchSound' /\ StopIsLast'
  BY <1>2 DEF PassSound, PatchSound, StopIsLast
<1> QED
  BY <1>2, <1>4, <1>6, <1>7 DEF IndInv, HeldWhereRecorded, Recorded

-----------------------------------------------------------------------------
(* Deletions.                                                              *)

(* Deleting a live Workload keeps the invariant, whoever does it. *)
LEMMA Deleted_Ind ==
  ASSUME IndInv, stored.phase = "live", Store(Deleted(stored)), fresh' = FALSE,
         UNCHANGED <<pin, pc, read, next, lock, seen, net, inbox, running, lost, faults>>,
         host' \in [Hosts -> HostObjects]
  PROVE  IndInv'
<1> DEFINE v == Deleted(stored)
<1>1. /\ log \in Seq(Workloads) /\ Len(log) \in Nat /\ Len(log) >= 1 /\ stored \in Workloads
      /\ stored = log[Len(log)]
  BY LogFacts DEF IndInv, stored
<1>2. /\ v \in Workloads /\ v.phase = (IF stored.fin THEN "deleting" ELSE "gone")
      /\ v.host = stored.host /\ v.fin = stored.fin /\ v.placed = stored.placed
  BY <1>1 DEF Deleted, Workloads
<1> HIDE DEF v
<1>3. /\ log' \in Seq(Workloads) /\ Len(log') = Len(log) + 1 /\ Len(log') =< MaxLag
      /\ stored' = v
      /\ \A i \in 1 .. Len(log) : log'[i] = log[i]
      /\ \A i \in 1 .. Len(log') : i \in 1 .. Len(log) \/ (i = Len(log') /\ log'[i] = v)
  BY <1>1, <1>2, StoreFacts DEF v
<1>4. Holding' = Holding /\ Former' = Former
  BY <1>2, <1>3 DEF Holding, Former
<1>5. TypeOK'
  <2>1. Len(log') \in 1 .. MaxLag
    BY <1>1, <1>3, PlacementConstants
  <2> QED
    BY <1>3, <2>1 DEF IndInv, TypeOK
<1>6. \A i \in 1 .. Len(log) : log[i].phase = "live"
  BY <1>1 DEF IndInv, VersionsOrdered
<1>7. VersionsOrdered'
  <2>1. \A i \in 1 .. Len(log') :
          /\ log'[i].host \in Former
          /\ log'[i].phase = "live" /\ log'[i].fin => v.fin /\ v.phase # "gone"
          /\ log'[i].phase # "live" => log'[i].host = v.host
    BY <1>1, <1>2, <1>3, <1>6 DEF IndInv, VersionsOrdered
  <2>2. \A i, j \in 1 .. Len(log') :
          i =< j /\ log'[i].phase # "live" => log'[j].phase # "live"
    BY <1>1, <1>2, <1>3, <1>6
  <2> QED
    BY <1>2, <1>3, <1>4, <2>1, <2>2 DEF VersionsOrdered
<1>8. PassSound'
  BY <1>1, <1>2, <1>3, <1>4, <1>6 DEF IndInv, PassSound
<1>9. HeldWhereRecorded'
  <2>1. None \notin Holding /\ Holding \subseteq {stored.host} \cup lost
    BY PlacementConstants DEF IndInv, TypeOK, Holding, HeldWhereRecorded, Recorded
  <2>2. ~stored.fin => stored.host = None
    BY DEF IndInv, VersionsOrdered
  <2> QED
    BY <1>2, <1>3, <1>4, <2>1, <2>2 DEF HeldWhereRecorded, Recorded
<1> QED
  BY <1>2, <1>3, <1>4, <1>5, <1>7, <1>8, <1>9
     DEF IndInv, PatchSound, StopIsLast

LEMMA Delete_Ind ==
  ASSUME IndInv, Delete
  PROVE  IndInv'
BY Deleted_Ind DEF Delete, cluster, IndInv, TypeOK

LEMMA FinalizeHost_Ind ==
  ASSUME IndInv, NEW h \in Hosts, FinalizeHost(h)
  PROVE  IndInv'
<1>1. host' \in [Hosts -> HostObjects]
  <2>1. host \in [Hosts -> HostObjects]
    BY DEF IndInv, TypeOK
  <2>2. [host[h] EXCEPT !.obj = "listed"] \in HostObjects
    BY <2>1 DEF HostObjects
  <2> QED
    BY <2>1, <2>2 DEF FinalizeHost
<1>2. CASE cached.phase = "live" /\ cached.host = h /\ stored.phase = "live"
  BY <1>1, <1>2, Deleted_Ind DEF FinalizeHost
<1>3. CASE ~(cached.phase = "live" /\ cached.host = h /\ stored.phase = "live")
  <2>1. UNCHANGED <<pin, log, worker, seen, inbox, running, lost, net, faults>>
    BY <1>3 DEF FinalizeHost, worker
  <2> QED
    BY <1>1, <2>1, Quiet_Ind DEF IndInv, TypeOK
<1> QED
  BY <1>2, <1>3

-----------------------------------------------------------------------------
(* A pass of the reconciler.                                               *)

(* With the Workload as it was, holding it on no more hosts is sound. *)
LEMMA Held_Frame ==
  ASSUME IndInv, UNCHANGED <<log, lost>>, Holding' \subseteq Holding
  PROVE  HeldWhereRecorded'
BY DEF IndInv, HeldWhereRecorded, Recorded, stored

(* A step of the pass that does not touch the Workload. *)
LEMMA Pass_Frame ==
  ASSUME IndInv, UNCHANGED <<pin, log, cluster, lost>>, HeldWhereRecorded',
         inbox' \in [Hosts -> Seq({"start", "stop"})], running' \subseteq Hosts,
         {read', next'} \subseteq Workloads, {fresh', lock'} \subseteq BOOLEAN,
         pc' \in {"idle", "adopt", "evaluate", "starting", "stopping", "patch"},
         faults' \in 0 .. MaxFaults,
         PassSound', PatchSound', StopIsLast'
  PROVE  IndInv'
<1>1. stored' = stored /\ Former' = Former
  BY DEF stored, Former
<1>2. TypeOK'
  BY DEF IndInv, TypeOK, cluster
<1> QED
  BY <1>1, <1>2 DEF IndInv, VersionsOrdered

(* A pass that returns without a write keeps the invariant. *)
LEMMA Done_Ind ==
  ASSUME IndInv, Done, UNCHANGED <<pin, log, cluster, inbox, running, lost>>,
         faults' \in 0 .. MaxFaults
  PROVE  IndInv'
<1>1. Created \in Workloads
  BY DEF Created, Workloads
<1>2. PassSound' /\ PatchSound' /\ StopIsLast'
  BY DEF Done, PassSound, PatchSound, StopIsLast
<1>3. HeldWhereRecorded'
  BY Held_Frame DEF Holding
<1> QED
  BY <1>1, <1>2, <1>3, Pass_Frame DEF Done, IndInv, TypeOK

(* A pass over a live Workload decides on a write. *)
LEMMA WriteLive_Ind ==
  ASSUME IndInv, pc \in {"evaluate", "starting"},
         NEW n \in Workloads, NEW l \in BOOLEAN, Write(read, n, fresh, l),
         n.fin = read.fin,
         n.host # read.host => l /\ None \in {read.host, n.host},
         UNCHANGED <<pin, log, cluster, lost>>, Holding' \subseteq Holding,
         inbox' \in [Hosts -> Seq({"start", "stop"})], running' \subseteq Hosts,
         faults' \in 0 .. MaxFaults
  PROVE  IndInv'
<1>1. /\ stored' = stored /\ Former' = Former /\ read' = read /\ next' = n
      /\ lock' = l /\ fresh' = fresh /\ pc' = "patch" /\ read.phase = "live"
      /\ read \in Workloads /\ seen' = seen
  BY DEF Write, stored, Former, IndInv, PassSound, TypeOK, cluster
<1>2. PassSound'
  BY <1>1 DEF IndInv, PassSound
<1>3. PatchSound'
  BY <1>1 DEF PatchSound
<1>4. StopIsLast'
  BY <1>1 DEF StopIsLast
<1>5. HeldWhereRecorded'
  BY Held_Frame
<1> QED
  BY <1>1, <1>2, <1>3, <1>4, <1>5, Pass_Frame DEF IndInv, TypeOK

LEMMA GetLive_Ind ==
  ASSUME IndInv, GetLive
  PROVE  IndInv'
<1>1. /\ Len(log) \in Nat /\ Len(log) >= 1 /\ cached \in Workloads /\ cached = log[1]
      /\ stored = log[Len(log)] /\ 1 \in 1 .. Len(log)
  BY LogFacts DEF IndInv, cached, stored
<1>2. /\ stored' = stored /\ Former' = Former
      /\ read' = cached /\ next' = cached /\ lock' = FALSE /\ fresh' = (Len(log) = 1)
      /\ pc' \in {"evaluate", "adopt"} /\ (pc' = "evaluate" => cached.fin)
      /\ cached.phase = "live"
      /\ UNCHANGED <<pin, log, cluster, inbox, running, lost, faults>>
  BY DEF GetLive, stored, Former
<1>3. cached.host \in Former /\ (cached.fin => stored.fin /\ stored.phase # "gone")
  BY <1>1, <1>2 DEF IndInv, VersionsOrdered
<1>4. PassSound'
  BY <1>1, <1>2, <1>3 DEF PassSound
<1>5. PatchSound' /\ StopIsLast'
  BY <1>2 DEF PatchSound, StopIsLast
<1>6. HeldWhereRecorded'
  BY <1>2, Held_Frame DEF Holding
<1> QED
  BY <1>1, <1>2, <1>4, <1>5, <1>6, Pass_Frame DEF IndInv, TypeOK

LEMMA Evaluate_Ind ==
  ASSUME IndInv, ReconcileConfig \/ ReconcileHostSelection \/ LetGo \/ ReconcileSync
  PROVE  IndInv'
<1>1. /\ pc = "evaluate" /\ read \in Workloads /\ seen \in [Hosts -> HostObjects]
      /\ UNCHANGED <<pin, log, cluster, lost, inbox, running>>
      /\ inbox' \in [Hosts -> Seq({"start", "stop"})] /\ running' \subseteq Hosts
      /\ Holding' = Holding
  <2>1. pc = "evaluate" /\ UNCHANGED <<pin, log, cluster, lost, inbox, running>>
    BY DEF ReconcileConfig, ReconcileHostSelection, LetGo, ReconcileSync, Evaluating
  <2> QED
    BY <2>1 DEF IndInv, TypeOK, Holding
<1>2. faults' \in 0 .. MaxFaults
  <2>1. faults' = faults \/ (faults < MaxFaults /\ faults' = faults + 1)
    BY DEF ReconcileConfig, ReconcileHostSelection, LetGo, ReconcileSync, Fault
  <2> QED
    BY <2>1, PlacementConstants DEF IndInv, TypeOK
<1>3. CASE ReconcileConfig
  <2>1. PICK b \in BOOLEAN : Write(read, [read EXCEPT !.config = b], fresh, FALSE)
    BY <1>3 DEF ReconcileConfig
  <2> DEFINE n == [read EXCEPT !.config = b]
  <2>2. n \in Workloads /\ n.fin = read.fin /\ n.host = read.host
    BY <1>1 DEF Workloads
  <2> HIDE DEF n
  <2>3. Write(read, n, fresh, FALSE)
    BY <2>1 DEF n
  <2> QED
    BY <1>1, <1>2, <2>2, <2>3, WriteLive_Ind
<1>4. CASE ReconcileHostSelection
  <2>1. CASE \E h \in Hosts : Write(read, [read EXCEPT !.host = h], fresh, TRUE)
    <3>1. PICK h \in Hosts : Write(read, [read EXCEPT !.host = h], fresh, TRUE)
      BY <2>1
    <3> DEFINE n == [read EXCEPT !.host = h]
    <3>2. n \in Workloads /\ n.fin = read.fin /\ n.host = h
      BY <1>1 DEF Workloads
    <3> HIDE DEF n
    <3>3. Write(read, n, fresh, TRUE) /\ read.host = None /\ h # None
      BY <1>4, <3>1, PlacementConstants DEF n, ReconcileHostSelection
    <3> QED
      BY <1>1, <1>2, <3>2, <3>3, WriteLive_Ind
  <2>2. CASE Done
    BY <1>1, <1>2, <2>2, Done_Ind
  <2> QED
    BY <1>4, <2>1, <2>2 DEF ReconcileHostSelection
<1>5. CASE LetGo
  <2>1. CASE pin = None
    <3> DEFINE n == [read EXCEPT !.host = None]
    <3>1. n \in Workloads /\ n.fin = read.fin /\ n.host = None
      BY <1>1 DEF Workloads
    <3> HIDE DEF n
    <3>2. Write(read, n, fresh, TRUE)
      BY <1>5, <2>1 DEF n, LetGo
    <3> QED
      BY <1>1, <1>2, <3>1, <3>2, WriteLive_Ind
  <2>2. CASE pin # None
    BY <1>1, <1>2, <1>5, <2>2, Done_Ind DEF LetGo
  <2> QED
    BY <2>1, <2>2
<1>6. CASE ReconcileSync
  BY <1>1, <1>2, <1>6, Done_Ind DEF ReconcileSync
<1> QED
  BY <1>3, <1>4, <1>5, <1>6

LEMMA SendStart_Ind ==
  ASSUME IndInv, SendStart
  PROVE  IndInv'
<1>1. /\ pc = "evaluate" /\ pc' = "starting" /\ read \in Workloads /\ read.host \in Hosts
      /\ UNCHANGED <<pin, log, cluster, running, lost, read, fresh, next, lock, faults>>
      /\ inbox' = [inbox EXCEPT ![read.host] = Append(@, "start")]
      /\ inbox \in [Hosts -> Seq({"start", "stop"})]
      /\ stored' = stored /\ Former' = Former
  BY DEF SendStart, Send, Evaluating, IndInv, TypeOK, Workloads, stored, Former
<1>2. inbox' \in [Hosts -> Seq({"start", "stop"})]
  BY <1>1
<1>3. Holding' \subseteq Holding \cup {read.host}
  BY <1>1 DEF Holding
<1>4. stored.phase # "gone" /\ read.host \in Former /\ read.host # None
  BY <1>1, PlacementConstants DEF IndInv, PassSound
<1>5. HeldWhereRecorded'
  BY <1>1, <1>3, <1>4 DEF IndInv, HeldWhereRecorded, Recorded, Former
<1>6. PassSound' /\ PatchSound' /\ StopIsLast'
  BY <1>1 DEF IndInv, PassSound, PatchSound, StopIsLast
<1> QED
  BY <1>1, <1>2, <1>5, <1>6, Pass_Frame DEF IndInv, TypeOK

LEMMA GetDeleting_Ind ==
  ASSUME IndInv, GetDeleting
  PROVE  IndInv'
<1>1. /\ Len(log) \in Nat /\ Len(log) >= 1 /\ cached \in Workloads /\ cached = log[1]
      /\ stored = log[Len(log)] /\ 1 \in 1 .. Len(log)
  BY LogFacts DEF IndInv, cached, stored
<1>2. /\ pc = "idle" /\ cached.phase = "deleting" /\ ~fresh /\ ~fresh'
      /\ fresh' \in BOOLEAN /\ lock' \in BOOLEAN
      /\ UNCHANGED <<pin, log, cluster, running, lost, faults>>
      /\ stored' = stored /\ Former' = Former /\ read' = cached /\ cached \in Workloads
  BY <1>1 DEF GetDeleting, Write, IndInv, PassSound, TypeOK, stored, Former
<1>3. /\ cached.host \in Former /\ cached.host = stored.host
      /\ \A i \in 1 .. Len(log) : log[i].phase # "live"
  BY <1>1, <1>2 DEF IndInv, VersionsOrdered
<1>4. PassSound' /\ PatchSound' /\ StopIsLast' /\ HeldWhereRecorded'
      /\ next' \in Workloads /\ pc' \in {"stopping", "patch"}
      /\ inbox' \in [Hosts -> Seq({"start", "stop"})]
  <2>1. CASE cached.host = None
    <3>1. /\ pc' = "patch" /\ next' = Finalized(cached) /\ inbox' = inbox
      BY <2>1 DEF GetDeleting, Write
    <3>2. /\ Finalized(cached) \in Workloads
          /\ Finalized(cached).host = None /\ Finalized(cached).placed = cached.placed
      BY <1>1, <2>1 DEF Finalized, Workloads
    <3>3. Holding' = Holding /\ HeldWhereRecorded'
      BY <1>2, <3>1, Held_Frame DEF Holding
    <3>4. Holding \subseteq lost
      BY <1>3, <2>1, PlacementConstants DEF IndInv, TypeOK, Holding, HeldWhereRecorded, Recorded
    <3>5. PassSound'
      BY <1>2, <1>3, <3>1 DEF PassSound
    <3>6. PatchSound' /\ StopIsLast'
      BY <1>2, <2>1, <3>1, <3>2, <3>3, <3>4 DEF PatchSound, StopIsLast, Finalized
    <3> QED
      BY <3>1, <3>2, <3>3, <3>5, <3>6 DEF IndInv, TypeOK
  <2>2. CASE cached.host # None
    <3>1. /\ pc' = "stopping" /\ next' = cached
          /\ inbox' = [inbox EXCEPT ![cached.host] = Append(@, "stop")]
          /\ inbox \in [Hosts -> Seq({"start", "stop"})] /\ cached.host \in Hosts
      BY <1>1, <2>2 DEF GetDeleting, Send, IndInv, TypeOK, Workloads
    <3>2. inbox' \in [Hosts -> Seq({"start", "stop"})]
      BY <3>1
    <3>3. Holding' \subseteq Holding
      BY <1>2, <3>1 DEF Holding
    <3>4. HeldWhereRecorded'
      BY <1>2, <3>3, Held_Frame
    <3>5. PassSound' /\ PatchSound'
      BY <1>2, <1>3, <2>2, <3>1 DEF PassSound, PatchSound
    <3>6. StopIsLast'
      BY <1>2, <3>1 DEF StopIsLast
    <3> QED
      BY <1>1, <3>1, <3>2, <3>4, <3>5, <3>6
  <2> QED
    BY <2>1, <2>2
<1> QED
  BY <1>1, <1>2, <1>4, Pass_Frame DEF IndInv, TypeOK

LEMMA Adopt_Ind ==
  ASSUME IndInv, Adopt
  PROVE  IndInv'
<1>1. /\ log \in Seq(Workloads) /\ Len(log) \in Nat /\ Len(log) >= 1 /\ stored \in Workloads
      /\ stored = log[Len(log)]
  BY LogFacts DEF IndInv, stored
<1>2. CASE stored.phase # "live"
  BY <1>2, Done_Ind DEF Adopt, IndInv, TypeOK
<1>3. CASE stored.phase = "live"
  <2> DEFINE o == [stored EXCEPT !.fin = TRUE]
  <2>1. /\ o \in Workloads /\ o.fin /\ o.phase = "live" /\ o.host = stored.host
        /\ o.placed = stored.placed
    BY <1>1, <1>3 DEF Workloads
  <2>2. /\ pc = "adopt" /\ pc' = "evaluate" /\ read' = o /\ next' = o /\ fresh' = TRUE
        /\ UNCHANGED <<pin, lock, cluster, inbox, running, lost, faults>>
        /\ (log' = log /\ o = stored) \/ Store(o)
    BY <1>3 DEF Adopt
  <2> HIDE DEF o
  <2>3. /\ log' \in Seq(Workloads) /\ Len(log') \in Nat /\ Len(log') =< MaxLag
        /\ Len(log') >= 1 /\ stored' = o
        /\ Len(log') >= Len(log) /\ \A i \in 1 .. Len(log) : log'[i] = log[i]
        /\ \A i \in 1 .. Len(log') : i \in 1 .. Len(log) \/ (i = Len(log') /\ log'[i] = o)
    <3>1. CASE log' = log /\ o = stored
      BY <1>1, <3>1, PlacementConstants DEF IndInv, TypeOK, stored
    <3>2. CASE Store(o)
      BY <1>1, <2>1, <3>2, StoreFacts
    <3> QED
      BY <2>2, <3>1, <3>2
  <2>4. Holding' = Holding /\ Former' = Former
    BY <2>1, <2>2, <2>3 DEF Holding, Former
  <2>5. TypeOK'
    <3>1. Len(log') \in 1 .. MaxLag
      BY <2>3, PlacementConstants
    <3> QED
      BY <2>1, <2>2, <2>3, <3>1 DEF IndInv, TypeOK, cluster
  <2>6. \A i \in 1 .. Len(log) : log[i].phase = "live"
    BY <1>1, <1>3 DEF IndInv, VersionsOrdered
  <2>7. VersionsOrdered'
    <3>1. \A i \in 1 .. Len(log') : log'[i].phase = "live" /\ log'[i].host \in Former
      BY <1>1, <2>1, <2>3, <2>6 DEF IndInv, VersionsOrdered, Former
    <3> QED
      BY <2>1, <2>3, <2>4, <3>1 DEF VersionsOrdered
  <2>8. PassSound' /\ PatchSound' /\ StopIsLast'
    BY <2>1, <2>2, <2>3, <2>4 DEF PassSound, PatchSound, StopIsLast, Former
  <2>9. HeldWhereRecorded'
    BY <1>3, <2>1, <2>2, <2>3, <2>4 DEF IndInv, HeldWhereRecorded, Recorded
  <2> QED
    BY <2>5, <2>7, <2>8, <2>9 DEF IndInv
<1> QED
  BY <1>2, <1>3

-----------------------------------------------------------------------------
(* Requests and answers.                                                   *)

(* A request that is taken holds the workload on no host it was not on its *)
(* way to.                                                                 *)
LEMMA Deliver_Holding ==
  ASSUME IndInv, NEW h \in Hosts, Deliver(h)
  PROVE  /\ inbox' \in [Hosts -> Seq({"start", "stop"})] /\ running' \subseteq Hosts
         /\ Holding' \subseteq Holding
         /\ Len(inbox[h]) = 1 /\ inbox[h][1] = "stop" => h \notin Holding'
<1>1. /\ inbox \in [Hosts -> Seq({"start", "stop"})] /\ running \subseteq Hosts
      /\ inbox[h] # <<>> /\ inbox' = [inbox EXCEPT ![h] = Tail(@)]
      /\ running' \in Effect(h, Head(inbox[h]))
  BY DEF IndInv, TypeOK, Deliver
<1>2. Head(inbox[h]) = inbox[h][1] /\ 1 \in DOMAIN inbox[h] /\ inbox[h][1] \in {"start", "stop"}
  BY <1>1
<1>3. CASE Head(inbox[h]) = "stop"
  BY <1>1, <1>2, <1>3 DEF Effect, Holding
<1>4. CASE Head(inbox[h]) = "start"
  <2>1. h \in Holding /\ running' \subseteq running \cup {h}
    BY <1>1, <1>2, <1>4 DEF Effect, Holding
  <2> QED
    BY <1>1, <1>2, <1>4, <2>1 DEF Holding
<1> QED
  BY <1>2, <1>3, <1>4

(* finalize decides to remove the finalizer. *)
LEMMA WriteFinalized_Ind ==
  ASSUME IndInv, pc = "stopping", Write(read, Finalized(read), fresh, FALSE),
         UNCHANGED <<pin, log, cluster>>, lost \subseteq lost', lost' \subseteq Hosts,
         Holding' \subseteq Holding, read.host \in lost' \/ read.host \notin Holding',
         inbox' \in [Hosts -> Seq({"start", "stop"})], running' \subseteq Hosts,
         faults' \in 0 .. MaxFaults
  PROVE  IndInv'
<1>1. /\ stored' = stored /\ Former \subseteq Former' /\ read' = read /\ read \in Workloads
      /\ next' = Finalized(read) /\ lock' = FALSE /\ fresh' = fresh /\ fresh \in BOOLEAN
      /\ pc' = "patch" /\ read.phase = "deleting" /\ read.host = stored.host
      /\ Former' = {None, stored.host} \cup lost'
  BY DEF Write, stored, Former, IndInv, PassSound, TypeOK
<1>2. /\ Finalized(read) \in Workloads /\ Finalized(read).host = read.host
      /\ Finalized(read).placed = read.placed
  BY <1>1 DEF Finalized, Workloads
<1>3. TypeOK'
  BY <1>1, <1>2 DEF IndInv, TypeOK, cluster
<1>4. HeldWhereRecorded' /\ Holding' \subseteq lost'
  BY <1>1 DEF IndInv, HeldWhereRecorded, Recorded
<1>5. VersionsOrdered'
  BY <1>1 DEF IndInv, VersionsOrdered
<1>6. PassSound'
  BY <1>1 DEF IndInv, PassSound
<1>7. PatchSound' /\ StopIsLast'
  BY <1>1, <1>2, <1>4 DEF PatchSound, StopIsLast, Finalized
<1> QED
  BY <1>1, <1>3, <1>4, <1>5, <1>6, <1>7 DEF IndInv

LEMMA Deliver_Ind ==
  ASSUME IndInv, NEW h \in Hosts, Deliver(h)
  PROVE  IndInv'
<1>1. /\ inbox' \in [Hosts -> Seq({"start", "stop"})] /\ running' \subseteq Hosts
      /\ Holding' \subseteq Holding
      /\ Len(inbox[h]) = 1 /\ inbox[h][1] = "stop" => h \notin Holding'
  BY Deliver_Holding
<1>2. /\ UNCHANGED <<pin, log, cluster, lost>> /\ lost' = lost /\ lost \subseteq Hosts
      /\ inbox \in [Hosts -> Seq({"start", "stop"})] /\ inbox[h] # <<>>
      /\ inbox' = [inbox EXCEPT ![h] = Tail(@)] /\ read \in Workloads
  BY DEF IndInv, TypeOK, Deliver
<1>3. faults' \in 0 .. MaxFaults
  <2>1. faults' = faults \/ (faults < MaxFaults /\ faults' = faults + 1)
    BY DEF Deliver, Fault
  <2> QED
    BY <2>1, PlacementConstants DEF IndInv, TypeOK
<1>4. CASE UNCHANGED worker
  <2>1. /\ pc' = pc /\ read' = read /\ next' = next /\ fresh' = fresh /\ lock' = lock
        /\ stored' = stored /\ Former' = Former
    BY <1>2, <1>4 DEF worker, stored, Former
  <2>2. HeldWhereRecorded'
    BY <1>1, <1>2, Held_Frame
  <2>3. PassSound'
    BY <1>2, <2>1 DEF IndInv, PassSound
  <2>4. PatchSound'
    BY <1>1, <1>2, <2>1 DEF IndInv, PatchSound
  <2>5. StopIsLast'
    BY <1>2, <2>1 DEF IndInv, StopIsLast
  <2> QED
    BY <1>1, <1>2, <1>3, <2>1, <2>2, <2>3, <2>4, <2>5, Pass_Frame DEF IndInv, TypeOK
<1>5. CASE Waiting(h) /\ Len(inbox[h]) = 1 /\ Answered
  <2>1. CASE pc = "starting"
    <3> DEFINE n == [read EXCEPT !.placed = TRUE]
    <3>1. n \in Workloads /\ n.fin = read.fin /\ n.host = read.host
      BY <1>2 DEF Workloads
    <3> HIDE DEF n
    <3>2. Write(read, n, fresh, FALSE)
      BY <1>5, <2>1 DEF n, Answered
    <3> QED
      BY <1>1, <1>2, <1>3, <2>1, <3>1, <3>2, WriteLive_Ind
  <2>2. CASE pc = "stopping"
    <3>1. read.host = h /\ Write(read, Finalized(read), fresh, FALSE)
      BY <1>5, <2>2 DEF Waiting, Answered
    <3>2. inbox[h][1] = "stop"
      BY <1>2, <1>5, <2>2, <3>1 DEF IndInv, StopIsLast
    <3> QED
      BY <1>1, <1>2, <1>3, <1>5, <2>2, <3>1, <3>2, WriteFinalized_Ind
  <2> QED
    BY <1>5, <2>1, <2>2 DEF Waiting
<1> QED
  BY <1>4, <1>5 DEF Deliver

LEMMA TimesOut_Ind ==
  ASSUME IndInv, StartTimesOut \/ StopTimesOut
  PROVE  IndInv'
<1>1. /\ faults' \in 0 .. MaxFaults
      /\ UNCHANGED <<pin, log, cluster, inbox, running>> /\ Holding' = Holding
      /\ inbox' \in [Hosts -> Seq({"start", "stop"})] /\ running' \subseteq Hosts
      /\ lost \subseteq Hosts
  <2>1. faults' = faults \/ (faults < MaxFaults /\ faults' = faults + 1)
    BY DEF StartTimesOut, StopTimesOut, TimesOut, Fault
  <2>2. UNCHANGED <<pin, log, cluster, inbox, running>>
    BY DEF StartTimesOut, StopTimesOut
  <2> QED
    BY <2>1, <2>2, PlacementConstants DEF IndInv, TypeOK, Holding
<1>2. CASE StartTimesOut
  BY <1>1, <1>2, Done_Ind DEF StartTimesOut
<1>3. CASE StopTimesOut /\ KeepTrying(read.host)
  BY <1>1, <1>3, Done_Ind DEF StopTimesOut
<1>4. CASE StopTimesOut /\ ~KeepTrying(read.host)
  <2>1. pc = "stopping" /\ Write(read, Finalized(read), fresh, FALSE) /\ lost' = lost \cup {read.host}
    BY <1>4 DEF StopTimesOut, KeepTrying, Heartbeating
  <2>2. read.host \in Hosts
    <3>1. read.host \in Hosts \cup {None}
      BY DEF IndInv, TypeOK, Workloads
    <3> QED
      BY <2>1, <3>1 DEF IndInv, PassSound
  <2> QED
    BY <1>1, <2>1, <2>2, WriteFinalized_Ind
<1> QED
  BY <1>2, <1>3, <1>4

-----------------------------------------------------------------------------
(* The write.                                                              *)

(* What a write does to the stored object: a host changes only from or to  *)
(* none, by a write made from the stored version; a live Workload is not   *)
(* removed by it.                                                          *)
LEMMA Merged_Facts ==
  ASSUME IndInv, pc = "patch", ~Conflict, stored.phase # "gone"
  PROVE  /\ Merged(stored) \in Workloads
         /\ Merged(stored).host # stored.host =>
              /\ read = stored /\ Merged(stored).host = next.host /\ next.host # read.host
              /\ None \in {stored.host, Merged(stored).host} /\ stored.phase = "live"
         /\ Merged(stored).host = stored.host => next.host = read.host
         /\ read.phase = "live" => Merged(stored).phase = stored.phase /\ Merged(stored).fin
         /\ read.phase = "deleting" =>
              /\ Merged(stored).host = stored.host /\ Merged(stored).phase # "live"
              /\ Merged(stored).phase = "deleting" => Merged(stored).fin
<1>1. /\ stored \in Workloads /\ read \in Workloads /\ next \in Workloads
      /\ read.phase \in {"live", "deleting"}
  BY LogFacts DEF IndInv, TypeOK, PassSound, Workloads
<1>2. /\ Merged(stored) \in Workloads
      /\ Merged(stored).host = (IF next.host = read.host THEN stored.host ELSE next.host)
      /\ Merged(stored).fin = (IF next.fin = read.fin THEN stored.fin ELSE next.fin)
      /\ Merged(stored).phase = (IF stored.phase = "deleting" /\ ~Merged(stored).fin
                                 THEN "gone" ELSE stored.phase)
  BY <1>1 DEF Merged, Chosen, Workloads
<1>3. next.host # read.host =>
         read = stored /\ None \in {read.host, next.host} /\ read.phase = "live"
  <2>1. next.host # read.host => read.phase = "live"
    BY <1>1 DEF IndInv, PatchSound, Finalized, Workloads
  <2> QED
    BY <2>1 DEF IndInv, PatchSound, PassSound, Conflict
<1>4. read.phase = "live" => next.fin = read.fin /\ stored.fin
  BY DEF IndInv, PatchSound, PassSound
<1>5. read.phase = "deleting" => next.host = read.host /\ stored.phase # "live"
  <2>1. read.phase = "deleting" => next = Finalized(read)
    BY DEF IndInv, PatchSound
  <2>2. read.phase = "deleting" => stored.phase # "live"
    BY LogFacts DEF IndInv, PassSound, stored
  <2> QED
    BY <1>1, <2>1, <2>2 DEF Finalized, Workloads
<1> QED
  BY <1>1, <1>2, <1>3, <1>4, <1>5

LEMMA Patch_Ind ==
  ASSUME IndInv, Patch
  PROVE  IndInv'
<1>1. /\ log \in Seq(Workloads) /\ Len(log) \in Nat /\ Len(log) >= 1 /\ stored \in Workloads
      /\ stored = log[Len(log)] /\ Len(log) \in 1 .. Len(log)
  BY LogFacts DEF IndInv, stored
<1>2. CASE Conflict \/ stored.phase = "gone"
  BY <1>2, Done_Ind DEF Patch, IndInv, TypeOK
<1>3. CASE ~Conflict /\ stored.phase # "gone"
  <2> DEFINE v == Merged(stored)
  <2>1. /\ v \in Workloads
        /\ v.host # stored.host =>
             /\ read = stored /\ v.host = next.host /\ next.host # read.host
             /\ None \in {stored.host, v.host} /\ stored.phase = "live"
        /\ v.host = stored.host => next.host = read.host
        /\ read.phase = "live" => v.phase = stored.phase /\ v.fin
        /\ read.phase = "deleting" =>
             /\ v.host = stored.host /\ v.phase # "live"
             /\ v.phase = "deleting" => v.fin
    BY <1>3, Merged_Facts DEF Patch
  <2> HIDE DEF v
  <2>2. /\ pc = "patch" /\ pc' = "idle" /\ fresh' = FALSE /\ lock' = FALSE
        /\ read' = Created /\ next' = Created /\ Store(v)
        /\ UNCHANGED <<pin, cluster, inbox, running, faults>> /\ Holding' = Holding
        /\ lost' = (IF next.host = read.host THEN lost
                    ELSE (lost \cup {read.host}) \ {None, next.host})
    BY <1>3 DEF Patch, Done, v, Holding
  <2>3. /\ log' \in Seq(Workloads) /\ Len(log') = Len(log) + 1 /\ Len(log') =< MaxLag
        /\ stored' = v
        /\ \A i \in 1 .. Len(log) : log'[i] = log[i]
        /\ \A i \in 1 .. Len(log') : i \in 1 .. Len(log) \/ (i = Len(log') /\ log'[i] = v)
    BY <1>1, <2>1, <2>2, StoreFacts
  <2>4. /\ read \in Workloads /\ next \in Workloads /\ read.phase \in {"live", "deleting"}
        /\ next.host \in Hosts \cup {None}
    BY <2>2 DEF IndInv, TypeOK, PassSound, Workloads
  <2>5. TypeOK'
    <3>1. Len(log') \in 1 .. MaxLag /\ Created \in Workloads
      BY <1>1, <2>3, PlacementConstants DEF Created, Workloads
    <3>2. lost' \subseteq Hosts
      BY <2>2, <2>4 DEF IndInv, TypeOK, Workloads
    <3> QED
      BY <2>2, <2>3, <3>1, <3>2 DEF IndInv, TypeOK, cluster
  <2>6. Former \subseteq Former' /\ Former' = {None, v.host} \cup lost'
        /\ lost \cup {stored.host} \subseteq lost' \cup {v.host, None}
    BY <2>1, <2>2, <2>3 DEF Former
  <2>7. \A i \in 1 .. Len(log) : log[i].phase # "live" => log[i].host = v.host
    BY <1>1, <2>1 DEF IndInv, VersionsOrdered
  <2>8. \A i \in 1 .. Len(log) : log[i].phase = "live" /\ log[i].fin => v.fin /\ v.phase # "gone"
    <3>1. CASE read.phase = "live"
      BY <1>3, <2>1, <3>1
    <3>2. CASE read.phase = "deleting"
      BY <2>2, <3>2 DEF IndInv, PassSound
    <3> QED
      BY <2>4, <3>1, <3>2
  <2>9. VersionsOrdered'
    <3>1. \A i \in 1 .. Len(log') : log'[i].host \in Former'
      BY <1>1, <2>3, <2>6 DEF IndInv, VersionsOrdered
    <3>2. \A i \in 1 .. Len(log') :
            /\ log'[i].phase = "live" /\ log'[i].fin => v.fin /\ v.phase # "gone"
            /\ log'[i].phase # "live" => log'[i].host = v.host
      BY <1>1, <2>3, <2>7, <2>8
    <3>3. stored.phase # "live" => v.phase # "live"
      BY <2>1, <2>4
    <3>4. \A i, j \in 1 .. Len(log') :
            i =< j /\ log'[i].phase # "live" => log'[j].phase # "live"
      BY <1>1, <2>3, <3>3 DEF IndInv, VersionsOrdered
    <3>5. /\ v.phase = "deleting" => v.fin
          /\ v.phase = "live" /\ ~v.fin => v.host = None
      BY <2>1, <2>4
    <3> QED
      BY <2>3, <3>1, <3>2, <3>4, <3>5 DEF VersionsOrdered
  <2>10. PassSound' /\ PatchSound' /\ StopIsLast'
    BY <2>2 DEF PassSound, PatchSound, StopIsLast
  <2>11. HeldWhereRecorded'
    <3>1. Holding \subseteq {stored.host} \cup lost /\ None \notin Holding
      BY PlacementConstants DEF IndInv, TypeOK, Holding, HeldWhereRecorded, Recorded
    <3>2. CASE read.phase = "live"
      BY <1>3, <2>1, <2>2, <2>3, <2>6, <3>1, <3>2 DEF HeldWhereRecorded, Recorded
    <3>3. CASE read.phase = "deleting"
      <4>1. Holding \subseteq lost /\ next.host = read.host
        BY <2>1, <2>2, <3>3 DEF IndInv, PatchSound
      <4> QED
        BY <2>2, <2>3, <4>1 DEF HeldWhereRecorded, Recorded
    <3> QED
      BY <2>4, <3>2, <3>3
  <2> QED
    BY <2>5, <2>9, <2>10, <2>11 DEF IndInv
<1> QED
  BY <1>2, <1>3

-----------------------------------------------------------------------------
LEMMA Next_Ind == IndInv /\ [Next]_vars => IndInv'
<1> SUFFICES ASSUME IndInv, [Next]_vars PROVE IndInv'
  OBVIOUS
<1>1. CASE UNCHANGED vars
  <2>1. /\ UNCHANGED <<pin, log, worker, seen, inbox, running, lost>>
        /\ host' = host /\ net' = net /\ faults' = faults
    BY <1>1 DEF vars, cluster
  <2> QED
    BY <2>1, Quiet_Ind DEF IndInv, TypeOK
<1>2. CASE Reconcile
  BY <1>2, GetLive_Ind, GetDeleting_Ind, Adopt_Ind, Evaluate_Ind, SendStart_Ind, TimesOut_Ind,
     Patch_Ind DEF Reconcile
<1>3. CASE Delete \/ SyncWorkload \/ Restart
  BY <1>3, Delete_Ind, SyncWorkload_Ind, Restart_Ind
<1>4. ASSUME NEW h \in Hosts,
             \/ Deliver(h) \/ Drop(h) \/ SyncHost(h)
             \/ Register(h) \/ Probe(h) \/ Reap(h) \/ DeleteHost(h) \/ FinalizeHost(h) \/ HostGone(h)
             \/ Cut(h) \/ Crash(h) \/ Return(h)
      PROVE  IndInv'
  BY <1>4, Deliver_Ind, Drop_Ind, SyncHost_Ind, Hosts_Ind, FinalizeHost_Ind, Crash_Ind
<1> QED
  BY <1>1, <1>2, <1>3, <1>4 DEF Next

(* The inductive invariant of placement holds for any hosts, lag and faults. *)
THEOREM PlacementInvariance == Spec => []IndInv
BY Init_Ind, Next_Ind, PTL DEF Spec

(* Every reachable state is well typed. *)
THEOREM PlacementTyped == Spec => []TypeOK
<1>1. IndInv => TypeOK
  BY DEF IndInv
<1> QED
  BY <1>1, PlacementInvariance, PTL

(* The workload is held only on the recorded host, and nowhere once the    *)
(* Workload is gone, but for the hosts the operator let go of              *)
(* (reconcilePlacement, finalize).                                         *)
THEOREM PlacementHeld == Spec => []HeldWhereRecorded
<1>1. IndInv => HeldWhereRecorded
  BY DEF IndInv
<1> QED
  BY <1>1, PlacementInvariance, PTL

(* A recorded host is never replaced by another in one write               *)
(* (reconcileHostSelection, RequireOptimisticLock).                        *)
THEOREM PlacementBound == Spec => NeverRebound
<1>1. IndInv /\ [Next]_vars => [stored.host # None => stored'.host \in {stored.host, None}]_vars
  <2> SUFFICES ASSUME IndInv, Next, stored.host # None
               PROVE  stored'.host \in {stored.host, None}
    BY DEF vars
  <2>1. /\ log \in Seq(Workloads) /\ Len(log) \in Nat /\ Len(log) >= 1 /\ stored \in Workloads
    BY LogFacts DEF IndInv
  <2>2. CASE UNCHANGED log
    BY <2>2 DEF stored
  <2>3. CASE Patch /\ log' # log
    <3>1. /\ Store(Merged(stored)) /\ Merged(stored) \in Workloads
          /\ Merged(stored).host \in {stored.host, None}
      BY <2>3, Merged_Facts DEF Patch
    <3>2. stored' = Merged(stored)
      BY <2>1, <3>1, StoreFacts
    <3> QED
      BY <3>1, <3>2
  <2>4. CASE Store(Deleted(stored))
    <3>1. Deleted(stored) \in Workloads /\ Deleted(stored).host = stored.host
      BY <2>1 DEF Deleted, Workloads
    <3> QED
      BY <2>1, <2>4, <3>1, StoreFacts
  <2>5. CASE SyncWorkload
    BY <2>1, <2>5, SyncFacts DEF SyncWorkload
  <2>6. CASE Restart
    BY <2>1, <2>6 DEF Restart, stored
  <2>7. CASE Store([stored EXCEPT !.fin = TRUE])
    <3>1. [stored EXCEPT !.fin = TRUE] \in Workloads /\ [stored EXCEPT !.fin = TRUE].host = stored.host
      BY <2>1 DEF Workloads
    <3> QED
      BY <2>1, <2>7, <3>1, StoreFacts
  <2>8. \/ UNCHANGED log \/ Patch \/ Store(Deleted(stored)) \/ SyncWorkload \/ Restart
        \/ Store([stored EXCEPT !.fin = TRUE])
    <3>1. CASE Reconcile
      BY <3>1 DEF Reconcile, GetLive, GetDeleting, Adopt, ReconcileConfig,
         ReconcileHostSelection, LetGo, SendStart, ReconcileSync, Evaluating, StartTimesOut,
         StopTimesOut
    <3>2. CASE Delete \/ SyncWorkload \/ Restart
      BY <3>2 DEF Delete
    <3>3. ASSUME NEW h \in Hosts,
                 \/ Deliver(h) \/ Drop(h) \/ SyncHost(h)
                 \/ Register(h) \/ Probe(h) \/ Reap(h) \/ DeleteHost(h) \/ FinalizeHost(h)
                 \/ HostGone(h) \/ Cut(h) \/ Crash(h) \/ Return(h)
          PROVE  UNCHANGED log \/ Store(Deleted(stored))
      BY <3>3 DEF Deliver, Drop, SyncHost, Register, Probe, Reap, DeleteHost, FinalizeHost,
         HostGone, Cut, Crash, Return
    <3> QED
      BY <3>1, <3>2, <3>3 DEF Next
  <2> QED
    BY <2>2, <2>3, <2>4, <2>5, <2>6, <2>7, <2>8
<1> QED
  BY <1>1, PlacementInvariance, PTL DEF Spec, NeverRebound

-----------------------------------------------------------------------------
(* Why no start follows a Host's finalizer: the Host is finalized from the *)
(* cache that reconcilePlacement looks it up in.                           *)

LEMMA Init_Listed == Init => ListedIsSeen
BY DEF Init, ListedIsSeen, Absent

LEMMA Next_Listed == IndInv /\ ListedIsSeen /\ [Next]_vars => ListedIsSeen'
<1> SUFFICES ASSUME IndInv, ListedIsSeen, [Next]_vars PROVE ListedIsSeen'
  OBVIOUS
<1>1. host \in [Hosts -> HostObjects] /\ seen \in [Hosts -> HostObjects]
  BY DEF IndInv, TypeOK
<1>2. CASE UNCHANGED <<host, seen>>
  BY <1>2 DEF ListedIsSeen
<1>3. ASSUME NEW h \in Hosts, SyncHost(h)
      PROVE  ListedIsSeen'
  BY <1>1, <1>3 DEF SyncHost, ListedIsSeen, Deleting
<1>4. ASSUME NEW h \in Hosts, Register(h) \/ Probe(h) \/ Reap(h) \/ DeleteHost(h)
      PROVE  ListedIsSeen'
  <2>1. /\ seen' = seen /\ host'[h].obj \in {"present", "deleting"}
        /\ \A g \in Hosts \ {h} : host'[g] = host[g]
    <3>1. CASE Register(h)
      BY <1>1, <3>1 DEF Register, SetHost
    <3>2. CASE Probe(h)
      BY <1>1, <3>2 DEF Probe, SetHost, HostObjects
    <3>3. CASE Reap(h) \/ DeleteHost(h)
      BY <1>1, <3>3 DEF Reap, DeleteHost, SetHost, HostObjects
    <3> QED
      BY <1>4, <3>1, <3>2, <3>3
  <2> QED
    BY <2>1 DEF ListedIsSeen
<1>5. ASSUME NEW h \in Hosts, FinalizeHost(h)
      PROVE  ListedIsSeen'
  <2>1. /\ seen' = seen /\ seen[h].obj = "deleting"
        /\ host' = [host EXCEPT ![h] = [host[h] EXCEPT !.obj = "listed"]]
    BY <1>1, <1>5 DEF FinalizeHost
  <2>2. [host[h] EXCEPT !.obj = "listed"].obj = "listed"
    BY <1>1 DEF HostObjects
  <2> QED
    BY <1>1, <2>1, <2>2 DEF ListedIsSeen, Deleting
<1>6. ASSUME NEW h \in Hosts, HostGone(h)
      PROVE  ListedIsSeen'
  <2>1. seen' = seen /\ host' = [host EXCEPT ![h] = Absent] /\ Deleting(seen[h])
    BY <1>6 DEF HostGone, SetHost, ListedIsSeen
  <2> QED
    BY <1>1, <2>1 DEF ListedIsSeen, Deleting, Absent
<1>7. CASE Restart
  <2>1. host' = host /\ seen' = host
    BY <1>7 DEF Restart
  <2> QED
    BY <2>1 DEF ListedIsSeen, Deleting
<1>8. CASE Reconcile
  <2>1. UNCHANGED cluster
    BY <1>8 DEF Reconcile, GetLive, GetDeleting, Adopt, ReconcileConfig, ReconcileHostSelection,
       LetGo, SendStart, ReconcileSync, StartTimesOut, StopTimesOut, Patch, Evaluating
  <2> QED
    BY <1>2, <2>1 DEF cluster
<1>9. CASE UNCHANGED vars \/ Delete \/ SyncWorkload
  BY <1>2, <1>9 DEF vars, cluster, Delete, SyncWorkload
<1>10. ASSUME NEW h \in Hosts, Deliver(h) \/ Drop(h) \/ Cut(h) \/ Crash(h) \/ Return(h)
       PROVE  ListedIsSeen'
  BY <1>2, <1>10 DEF cluster, Deliver, Drop, Cut, Crash, Return
<1> QED
  BY <1>3, <1>4, <1>5, <1>6, <1>7, <1>8, <1>9, <1>10 DEF Next

(* Only reconcilePlacement sends a start, and only to a host it may use.   *)
LEMMA Sent_Start ==
  ASSUME IndInv, Next, NEW h \in Hosts, inbox'[h] = Append(inbox[h], "start")
  PROVE  SendStart /\ read.host = h
<1>1. inbox \in [Hosts -> Seq({"start", "stop"})] /\ inbox[h] \in Seq({"start", "stop"})
  BY DEF IndInv, TypeOK
<1>2. /\ Len(Append(inbox[h], "start")) = Len(inbox[h]) + 1 /\ Len(inbox[h]) \in Nat
      /\ Append(inbox[h], "start")[Len(inbox[h]) + 1] = "start"
  BY <1>1
<1>3. inbox' # inbox
  BY <1>1, <1>2
<1>4. ~GetDeleting
  <2> SUFFICES ASSUME GetDeleting PROVE FALSE
    OBVIOUS
  <2>1. inbox' = [inbox EXCEPT ![cached.host] = Append(@, "stop")]
    BY <1>3 DEF GetDeleting, Send
  <2>2. inbox'[h] \in {inbox[h], Append(inbox[h], "stop")}
    BY <1>1, <2>1
  <2>3. Append(inbox[h], "stop")[Len(inbox[h]) + 1] = "stop"
    BY <1>1
  <2> QED
    BY <1>1, <1>2, <2>2, <2>3
<1>5. ASSUME NEW g \in Hosts PROVE ~(Deliver(g) \/ Drop(g) \/ Crash(g))
  <2> SUFFICES ASSUME Deliver(g) \/ Drop(g) \/ Crash(g) PROVE FALSE
    OBVIOUS
  <2>1. /\ inbox[g] \in Seq({"start", "stop"})
        /\ \/ inbox[g] # <<>> /\ inbox' = [inbox EXCEPT ![g] = Tail(@)]
           \/ inbox' = [inbox EXCEPT ![g] = <<>>]
    BY <1>1 DEF Deliver, Drop, Crash
  <2>2. Len(inbox'[h]) =< Len(inbox[h])
    BY <1>1, <2>1
  <2> QED
    BY <1>2, <2>2
<1>6. SendStart
  <2>1. CASE Reconcile
    BY <1>3, <1>4, <2>1 DEF Reconcile, GetLive, Adopt, ReconcileConfig, ReconcileHostSelection,
       LetGo, ReconcileSync, StartTimesOut, StopTimesOut, Patch
  <2>2. ~(Delete \/ SyncWorkload \/ Restart)
    BY <1>3 DEF Delete, SyncWorkload, Restart
  <2>3. ASSUME NEW g \in Hosts
        PROVE  ~(SyncHost(g) \/ Register(g) \/ Probe(g) \/ Reap(g) \/ DeleteHost(g)
                 \/ FinalizeHost(g) \/ HostGone(g) \/ Cut(g) \/ Return(g))
    BY <1>3 DEF SyncHost, Register, Probe, Reap, DeleteHost, FinalizeHost, HostGone, Cut,
       Return, SetHost
  <2> QED
    BY <1>5, <2>1, <2>2, <2>3 DEF Next
<1>7. read.host = h
  <2>1. inbox' = [inbox EXCEPT ![read.host] = Append(@, "start")]
    BY <1>6 DEF SendStart, Send
  <2> QED
    BY <1>1, <1>2, <2>1
<1> QED
  BY <1>6, <1>7

(* Once a Host's finalizer has dealt with its Workloads no start is sent   *)
(* there until it is registered again, however old the reads of the pass   *)
(* (reconcilePlacement, HostReconciler.finalize).                          *)
THEOREM PlacementFinalizer == Spec => NoStartOnceListed
<1>1. IndInv /\ ListedIsSeen /\ [Next]_vars =>
        [\A h \in Hosts : Retired(h) => inbox'[h] # Append(inbox[h], "start")]_vars
  <2> SUFFICES ASSUME IndInv, ListedIsSeen, Next, NEW h \in Hosts, Retired(h),
                      inbox'[h] = Append(inbox[h], "start")
               PROVE  FALSE
    BY DEF vars
  <2>1. SendStart /\ read.host = h
    BY Sent_Start
  <2>2. ~GoneAway(h)
    BY <2>1 DEF SendStart
  <2>3. seen[h].obj \in {"absent", "present", "deleting", "listed"}
    BY DEF IndInv, TypeOK, HostObjects
  <2> QED
    BY <2>2, <2>3 DEF Retired, ListedIsSeen, GoneAway, Deleting
<1> QED
  BY <1>1, Init_Ind, Next_Ind, Init_Listed, Next_Listed, PTL DEF Spec, NoStartOnceListed
=============================================================================
