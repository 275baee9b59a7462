------------------------- MODULE GatewayRoutesProofs -------------------------
(***************************************************************************)
(* GatewayRoutes for any Hosts, Workloads and hostnames: the tables agree, *)
(* a name that is quiet has no stale route, and requests reach live hosts. *)
(***************************************************************************)
EXTENDS GatewayRoutes, TLAPS

\* A row of the workload tables: what the tracker's workload operations need
\* and preserve.
WorkloadRows == WorkloadTablesTyped /\ WorkloadTablesAgree /\ OwnWorkloadIds

\* Likewise for the host tables.
HostRows == HostTablesTyped /\ HostTablesAgree /\ OwnHostIds

\* removeHost leaves tables that agree, and only takes routes away.
LEMMA RemoveHostRows ==
    ASSUME WorkloadRows, NEW id \in HostIds, removeHost(id)
    PROVE  /\ WorkloadRows'
           /\ DOMAIN workloadKeys' \subseteq DOMAIN workloadKeys
           /\ \A k \in DOMAIN workloadKeys' : workloadKeys'[k] = workloadKeys[k]
<1>1. /\ DOMAIN workloadKeys' = {k \in DOMAIN workloadKeys : workloadKeys[k].hostID # id}
      /\ \A k \in DOMAIN workloadKeys' : workloadKeys'[k] = workloadKeys[k]
  BY DEF removeHost, Without
<1>2. /\ DOMAIN workloads' = {w \in DOMAIN workloads : workloads[w] # id}
      /\ \A w \in DOMAIN workloads' : workloads'[w] = workloads[w]
  BY DEF removeHost, Without, OnHost
<1>3. /\ DOMAIN hostnames' = {h \in DOMAIN hostnames : ~(hostnames[h] \subseteq OnHost(id))}
      /\ \A h \in DOMAIN hostnames' : hostnames'[h] = hostnames[h] \ OnHost(id)
  BY DEF removeHost, Purge
<1>4. \A k \in DOMAIN workloadKeys :
         workloadKeys[k].workloadID \in OnHost(id) <=> workloadKeys[k].hostID = id
  BY DEF WorkloadRows, WorkloadTablesAgree, OnHost
<1>5. WorkloadTablesTyped'
  <2>1. DOMAIN workloadKeys' \subseteq WorkloadKeys /\ workloadKeys' \in [DOMAIN workloadKeys' -> Routes]
    BY <1>1 DEF WorkloadRows, WorkloadTablesTyped, removeHost, Without
  <2>2. DOMAIN workloads' \subseteq WorkloadIds /\ workloads' \in [DOMAIN workloads' -> HostIds]
    BY <1>2 DEF WorkloadRows, WorkloadTablesTyped, removeHost, Without
  <2>3. DOMAIN hostnames' \subseteq Hostnames /\ hostnames' \in [DOMAIN hostnames' -> SUBSET WorkloadIds]
    BY <1>3 DEF WorkloadRows, WorkloadTablesTyped, removeHost, Purge
  <2>4. QED
    BY <2>1, <2>2, <2>3 DEF WorkloadTablesTyped
<1>6. DOMAIN workloads' = {workloadKeys'[k].workloadID : k \in DOMAIN workloadKeys'}
  BY <1>1, <1>2, <1>4 DEF WorkloadRows, WorkloadTablesAgree, OnHost
<1>7. \A k \in DOMAIN workloadKeys' :
         workloads'[workloadKeys'[k].workloadID] = workloadKeys'[k].hostID
  BY <1>1, <1>2, <1>6 DEF WorkloadRows, WorkloadTablesAgree
<1>8. DOMAIN hostnames' = {workloadKeys'[k].hostname : k \in DOMAIN workloadKeys'}
  <2>1. ASSUME NEW h \in DOMAIN hostnames'
        PROVE  \E k \in DOMAIN workloadKeys' : workloadKeys'[k].hostname = h
    <3>1. PICK w \in hostnames[h] : w \notin OnHost(id)
      BY <2>1, <1>3
    <3>2. PICK k \in DOMAIN workloadKeys : workloadKeys[k].hostname = h /\ workloadKeys[k].workloadID = w
      BY <3>1, <2>1, <1>3 DEF WorkloadRows, WorkloadTablesAgree
    <3>3. QED
      BY <3>1, <3>2, <1>1, <1>4
  <2>2. ASSUME NEW k \in DOMAIN workloadKeys'
        PROVE  workloadKeys'[k].hostname \in DOMAIN hostnames'
    <3>1. workloadKeys[k].hostname \in DOMAIN hostnames
      BY <1>1 DEF WorkloadRows, WorkloadTablesAgree
    <3>2. workloadKeys[k].workloadID \in hostnames[workloadKeys[k].hostname]
      BY <1>1, <3>1 DEF WorkloadRows, WorkloadTablesAgree
    <3>3. QED
      BY <3>1, <3>2, <1>1, <1>3, <1>4
  <2>3. QED
    BY <2>1, <2>2
<1>9. ASSUME NEW h \in DOMAIN hostnames'
      PROVE  hostnames'[h] = {workloadKeys'[k].workloadID :
                 k \in {j \in DOMAIN workloadKeys' : workloadKeys'[j].hostname = h}}
  BY <1>1, <1>3, <1>4 DEF WorkloadRows, WorkloadTablesAgree
<1>10. OwnWorkloadIds'
  BY <1>1 DEF WorkloadRows, OwnWorkloadIds
<1>11. QED
  BY <1>1, <1>5, <1>6, <1>7, <1>8, <1>9, <1>10 DEF WorkloadRows, WorkloadTablesAgree

\* RegisterHost keeps the tables in agreement.
LEMMA RegisterHostRows ==
    ASSUME WorkloadRows, HostRows, NEW k \in HostKeys, NEW id \in HostIds,
           id[1] = k, RegisterHost(k, id)
    PROVE  /\ WorkloadRows' /\ HostRows'
           /\ DOMAIN hostKeys' = DOMAIN hostKeys \cup {k}
           /\ hostKeys'[k] = id
           /\ \A j \in DOMAIN hostKeys : j # k => hostKeys'[j] = hostKeys[j]
           /\ DOMAIN workloadKeys' \subseteq DOMAIN workloadKeys
           /\ \A j \in DOMAIN workloadKeys' : workloadKeys'[j] = workloadKeys[j]
<1>1. /\ DOMAIN hostKeys' = DOMAIN hostKeys \cup {k}
      /\ hostKeys'[k] = id
      /\ \A j \in DOMAIN hostKeys : j # k => hostKeys'[j] = hostKeys[j]
  BY DEF RegisterHost, Put
<1>2. hosts' = {hostKeys'[j] : j \in DOMAIN hostKeys'}
  BY <1>1 DEF RegisterHost, HostRows, HostTablesAgree, OwnHostIds
<1>3. HostRows'
  <2>1. hostKeys' \in [DOMAIN hostKeys' -> HostIds]
    BY <1>1 DEF HostRows, HostTablesTyped, RegisterHost, Put
  <2>2. hosts' \subseteq HostIds /\ DOMAIN hostKeys' \subseteq HostKeys
    BY <1>1, <1>2, <2>1 DEF HostRows, HostTablesTyped
  <2>3. OwnHostIds'
    BY <1>1 DEF HostRows, OwnHostIds
  <2>4. QED
    BY <1>2, <2>1, <2>2, <2>3 DEF HostRows, HostTablesTyped, HostTablesAgree
<1>4. /\ WorkloadRows'
      /\ DOMAIN workloadKeys' \subseteq DOMAIN workloadKeys
      /\ \A j \in DOMAIN workloadKeys' : workloadKeys'[j] = workloadKeys[j]
  <2>1. CASE k \in DOMAIN hostKeys /\ hostKeys[k] # id
    <3>1. hostKeys[k] \in HostIds /\ removeHost(hostKeys[k])
      BY <2>1 DEF RegisterHost, HostRows, HostTablesTyped
    <3>2. QED
      BY <3>1, RemoveHostRows
  <2>2. CASE ~(k \in DOMAIN hostKeys /\ hostKeys[k] # id)
    <3>1. UNCHANGED <<workloads, hostnames, workloadKeys>>
      BY <2>2 DEF RegisterHost, workloadTables
    <3>2. WorkloadRows'
      BY <3>1 DEF WorkloadRows, WorkloadTablesTyped, WorkloadTablesAgree, OwnWorkloadIds
    <3>3. QED
      BY <3>1, <3>2
  <2>3. QED
    BY <2>1, <2>2
<1>5. QED
  BY <1>1, <1>3, <1>4

\* DeregisterHost keeps the tables in agreement.
LEMMA DeregisterHostRows ==
    ASSUME WorkloadRows, HostRows, NEW k \in HostKeys, DeregisterHost(k)
    PROVE  /\ WorkloadRows' /\ HostRows'
           /\ DOMAIN hostKeys' = DOMAIN hostKeys \ {k}
           /\ \A j \in DOMAIN hostKeys' : hostKeys'[j] = hostKeys[j]
           /\ DOMAIN workloadKeys' \subseteq DOMAIN workloadKeys
           /\ \A j \in DOMAIN workloadKeys' : workloadKeys'[j] = workloadKeys[j]
<1>1. CASE k \in DOMAIN hostKeys
  <2>1. /\ DOMAIN hostKeys' = DOMAIN hostKeys \ {k}
        /\ \A j \in DOMAIN hostKeys' : hostKeys'[j] = hostKeys[j]
    BY <1>1 DEF DeregisterHost, Without
  <2>2. hosts' = {hostKeys'[j] : j \in DOMAIN hostKeys'}
    <3>1. hosts' = {hostKeys[j] : j \in DOMAIN hostKeys} \ {hostKeys[k]}
      BY <1>1 DEF DeregisterHost, HostRows, HostTablesAgree
    <3>2. \A j \in DOMAIN hostKeys : j # k => hostKeys[j] # hostKeys[k]
      BY <1>1 DEF HostRows, OwnHostIds
    <3>3. QED
      BY <1>1, <2>1, <3>1, <3>2
  <2>3. hostKeys' \in [DOMAIN hostKeys' -> HostIds]
    BY <1>1, <2>1 DEF HostRows, HostTablesTyped, DeregisterHost, Without
  <2>4. hosts' \subseteq HostIds /\ DOMAIN hostKeys' \subseteq HostKeys /\ OwnHostIds'
    BY <2>1, <2>2, <2>3 DEF HostRows, HostTablesTyped, OwnHostIds
  <2>5. hostKeys[k] \in HostIds /\ removeHost(hostKeys[k])
    BY <1>1 DEF DeregisterHost, HostRows, HostTablesTyped
  <2>6. HostRows'
    BY <2>2, <2>3, <2>4 DEF HostRows, HostTablesTyped, HostTablesAgree
  <2>7. QED
    BY <2>1, <2>5, <2>6, RemoveHostRows
<1>2. CASE k \notin DOMAIN hostKeys
  <2>1. UNCHANGED <<hosts, hostKeys, workloads, hostnames, workloadKeys>>
    BY <1>2 DEF DeregisterHost, tables, workloadTables
  <2>2. WorkloadRows'
    BY <2>1 DEF WorkloadRows, WorkloadTablesTyped, WorkloadTablesAgree, OwnWorkloadIds
  <2>3. HostRows'
    BY <2>1 DEF HostRows, HostTablesTyped, HostTablesAgree, OwnHostIds
  <2>4. QED
    BY <1>2, <2>1, <2>2, <2>3
<1>3. QED
  BY <1>1, <1>2

\* WorkloadRows of given maps, so that a removal followed by an insertion can
\* be argued one at a time.
Rows(wk, ws, hn) ==
    /\ DOMAIN wk \subseteq WorkloadKeys /\ wk \in [DOMAIN wk -> Routes]
    /\ DOMAIN ws \subseteq WorkloadIds /\ ws \in [DOMAIN ws -> HostIds]
    /\ DOMAIN hn \subseteq Hostnames /\ hn \in [DOMAIN hn -> SUBSET WorkloadIds]
    /\ DOMAIN ws = {wk[k].workloadID : k \in DOMAIN wk}
    /\ \A k \in DOMAIN wk : ws[wk[k].workloadID] = wk[k].hostID
    /\ DOMAIN hn = {wk[k].hostname : k \in DOMAIN wk}
    /\ \A h \in DOMAIN hn :
          hn[h] = {wk[k].workloadID : k \in {j \in DOMAIN wk : wk[j].hostname = h}}
    /\ \A k \in DOMAIN wk : wk[k].workloadID[1] = k

\* WorkloadRows is Rows of the tracker's maps, in this state and the next.
LEMMA RowsOfTracker ==
    /\ WorkloadRows <=> Rows(workloadKeys, workloads, hostnames)
    /\ WorkloadRows' <=> Rows(workloadKeys', workloads', hostnames')
<1>1. WorkloadRows <=> Rows(workloadKeys, workloads, hostnames)
  BY DEF WorkloadRows, Rows, WorkloadTablesTyped, WorkloadTablesAgree, OwnWorkloadIds
<1>2. WorkloadRows' <=> Rows(workloadKeys', workloads', hostnames')
  BY DEF WorkloadRows, Rows, WorkloadTablesTyped, WorkloadTablesAgree, OwnWorkloadIds
<1>3. QED
  BY <1>1, <1>2

\* removeWorkload takes out exactly what the route of its key put in.
LEMMA RemovedRows ==
    ASSUME WorkloadRows, NEW k \in DOMAIN workloadKeys
    PROVE  Rows(Without(workloadKeys, {k}),
                Without(workloads, {workloadKeys[k].workloadID}),
                RouteRemoved(workloadKeys[k]))
<1> DEFINE r == workloadKeys[k]
           wk == Without(workloadKeys, {k})
           ws == Without(workloads, {r.workloadID})
           hn == RouteRemoved(r)
           left == hostnames[r.hostname] \ {r.workloadID}
<1>0. Rows(workloadKeys, workloads, hostnames)
  BY RowsOfTracker
<1>1. /\ DOMAIN wk = DOMAIN workloadKeys \ {k}
      /\ \A j \in DOMAIN wk : wk[j] = workloadKeys[j]
      /\ wk \in [DOMAIN wk -> Routes]
  BY <1>0 DEF Without, Rows
<1>2. /\ DOMAIN ws = DOMAIN workloads \ {r.workloadID}
      /\ \A w \in DOMAIN ws : ws[w] = workloads[w]
      /\ ws \in [DOMAIN ws -> HostIds]
  BY <1>0 DEF Without, Rows
<1>3. r.hostname \in DOMAIN hostnames /\ r.workloadID \in hostnames[r.hostname]
  BY <1>0 DEF Rows
<1>4. \A j \in DOMAIN wk : wk[j].workloadID # r.workloadID
  BY <1>0, <1>1 DEF Rows
<1>5. /\ DOMAIN hn = {h \in DOMAIN hostnames : h # r.hostname \/ left # {}}
      /\ \A h \in DOMAIN hn : hn[h] = hostnames[h] \ {r.workloadID}
  <2>1. \A h \in DOMAIN hostnames : h # r.hostname => r.workloadID \notin hostnames[h]
    BY <1>0 DEF Rows
  <2>2. CASE left = {}
    BY <1>3, <2>1, <2>2 DEF RouteRemoved, Without
  <2>3. CASE left # {}
    BY <1>3, <2>1, <2>3 DEF RouteRemoved, Put
  <2>4. QED
    BY <2>2, <2>3
<1>6. hn \in [DOMAIN hn -> SUBSET WorkloadIds]
  <2>1. hn = [h \in DOMAIN hn |-> hn[h]]
    BY <1>0, <1>3 DEF RouteRemoved, Without, Put, Rows
  <2>2. \A h \in DOMAIN hn : hn[h] \in SUBSET WorkloadIds
    BY <1>0, <1>5 DEF Rows
  <2>3. QED
    BY <2>1, <2>2
<1> HIDE DEF wk, ws, hn, left
<1>7. DOMAIN ws = {wk[j].workloadID : j \in DOMAIN wk}
  BY <1>0, <1>1, <1>2, <1>4 DEF Rows
<1>8. \A j \in DOMAIN wk : ws[wk[j].workloadID] = wk[j].hostID
  BY <1>0, <1>1, <1>2, <1>7 DEF Rows
<1>9. ASSUME NEW h \in DOMAIN hostnames
      PROVE  hostnames[h] \ {r.workloadID} =
                {wk[j].workloadID : j \in {i \in DOMAIN wk : wk[i].hostname = h}}
  <2>1. hostnames[h] = {workloadKeys[j].workloadID :
                            j \in {i \in DOMAIN workloadKeys : workloadKeys[i].hostname = h}}
    BY <1>0 DEF Rows
  <2>2. QED
    BY <2>1, <1>1, <1>4
<1>10. DOMAIN hn = {wk[j].hostname : j \in DOMAIN wk}
  <2>1. ASSUME NEW h \in DOMAIN hn
        PROVE  \E j \in DOMAIN wk : wk[j].hostname = h
    <3>1. CASE h = r.hostname
      BY <3>1, <2>1, <1>3, <1>5, <1>9 DEF left
    <3>2. CASE h # r.hostname
      <4>1. PICK j \in DOMAIN workloadKeys : workloadKeys[j].hostname = h
        BY <2>1, <1>5, <1>0 DEF Rows
      <4>2. QED
        BY <4>1, <3>2, <1>1
    <3>3. QED
      BY <3>1, <3>2
  <2>2. ASSUME NEW j \in DOMAIN wk
        PROVE  wk[j].hostname \in DOMAIN hn
    <3>1. wk[j].hostname \in DOMAIN hostnames
      BY <1>0, <1>1 DEF Rows
    <3>2. hostnames[wk[j].hostname] \ {r.workloadID} # {}
      BY <3>1, <1>9
    <3>3. QED
      BY <3>1, <3>2, <1>5 DEF left
  <2>3. QED
    BY <2>1, <2>2
<1>11. \A j \in DOMAIN wk : wk[j].workloadID[1] = j
  BY <1>0, <1>1 DEF Rows
<1>12. /\ DOMAIN wk \subseteq WorkloadKeys
       /\ DOMAIN ws \subseteq WorkloadIds
       /\ DOMAIN hn \subseteq Hostnames
  BY <1>0, <1>1, <1>2, <1>5 DEF Rows
<1>13. \A h \in DOMAIN hn :
          hn[h] = {wk[j].workloadID : j \in {i \in DOMAIN wk : wk[i].hostname = h}}
  BY <1>5, <1>9
<1>14. Rows(wk, ws, hn)
  BY <1>1, <1>2, <1>6, <1>7, <1>8, <1>10, <1>11, <1>12, <1>13 DEF Rows
<1>15. QED
  BY <1>14 DEF wk, ws, hn

\* A route added under a key that has none.
LEMMA AddedRows ==
    ASSUME NEW wk, NEW ws, NEW hn, Rows(wk, ws, hn),
           NEW k \in WorkloadKeys, k \notin DOMAIN wk,
           NEW r \in Routes, r.workloadID[1] = k
    PROVE  Rows(Put(wk, k, r), Put(ws, r.workloadID, r.hostID),
                Put(hn, r.hostname, Serving(hn, r.hostname) \cup {r.workloadID}))
<1> DEFINE wk2 == Put(wk, k, r)
           ws2 == Put(ws, r.workloadID, r.hostID)
           more == Serving(hn, r.hostname) \cup {r.workloadID}
           hn2 == Put(hn, r.hostname, more)
<1>0. /\ r.workloadID \in WorkloadIds /\ r.hostID \in HostIds /\ r.hostname \in Hostnames
      /\ more \subseteq WorkloadIds
  BY DEF Routes, Serving, Rows
<1>1. /\ DOMAIN wk2 = DOMAIN wk \cup {k}
      /\ wk2[k] = r /\ \A j \in DOMAIN wk : wk2[j] = wk[j]
      /\ wk2 \in [DOMAIN wk2 -> Routes]
  BY DEF Put, Rows
<1>2. /\ DOMAIN ws2 = DOMAIN ws \cup {r.workloadID}
      /\ ws2[r.workloadID] = r.hostID
      /\ \A w \in DOMAIN ws : w # r.workloadID => ws2[w] = ws[w]
      /\ ws2 \in [DOMAIN ws2 -> HostIds]
  BY <1>0 DEF Put, Rows
<1>3. /\ DOMAIN hn2 = DOMAIN hn \cup {r.hostname}
      /\ hn2[r.hostname] = more
      /\ \A h \in DOMAIN hn : h # r.hostname => hn2[h] = hn[h]
      /\ hn2 \in [DOMAIN hn2 -> SUBSET WorkloadIds]
  <2>1. hn \in [DOMAIN hn -> SUBSET WorkloadIds]
    BY DEF Rows
  <2> HIDE DEF more
  <2>2. QED
    BY <2>1, <1>0 DEF Put
<1>4. \A j \in DOMAIN wk : wk[j].workloadID # r.workloadID
  BY DEF Rows
<1> HIDE DEF wk2, ws2, hn2
<1>5. DOMAIN ws2 = {wk2[j].workloadID : j \in DOMAIN wk2}
  BY <1>1, <1>2 DEF Rows
<1>6. \A j \in DOMAIN wk2 : ws2[wk2[j].workloadID] = wk2[j].hostID
  BY <1>1, <1>2, <1>4 DEF Rows
<1>7. DOMAIN hn2 = {wk2[j].hostname : j \in DOMAIN wk2}
  BY <1>1, <1>3 DEF Rows
<1>8. Serving(hn, r.hostname) =
         {wk[j].workloadID : j \in {i \in DOMAIN wk : wk[i].hostname = r.hostname}}
  BY DEF Serving, Rows
<1>9. ASSUME NEW h \in DOMAIN hn2
      PROVE  hn2[h] = {wk2[j].workloadID : j \in {i \in DOMAIN wk2 : wk2[i].hostname = h}}
  <2>1. CASE h = r.hostname
    <3>1. QED
      BY <2>1, <1>1, <1>3, <1>8
  <2>2. CASE h # r.hostname
    <3>1. h \in DOMAIN hn /\ hn2[h] = hn[h]
      BY <2>2, <1>3
    <3>2. hn[h] = {wk[j].workloadID : j \in {i \in DOMAIN wk : wk[i].hostname = h}}
      BY <3>1 DEF Rows
    <3>3. QED
      BY <2>2, <3>1, <3>2, <1>1
  <2>3. QED
    BY <2>1, <2>2
<1>10. \A j \in DOMAIN wk2 : wk2[j].workloadID[1] = j
  BY <1>1 DEF Rows
<1>11. /\ DOMAIN wk2 \subseteq WorkloadKeys
       /\ DOMAIN ws2 \subseteq WorkloadIds
       /\ DOMAIN hn2 \subseteq Hostnames
  BY <1>0, <1>1, <1>2, <1>3 DEF Rows
<1>12. Rows(wk2, ws2, hn2)
  BY <1>1, <1>2, <1>3, <1>5, <1>6, <1>7, <1>9, <1>10, <1>11 DEF Rows
<1>13. QED
  BY <1>12 DEF wk2, ws2, hn2, more

\* RegisterWorkload keeps the tables in agreement, whatever route the key had.
LEMMA RegisterWorkloadRows ==
    ASSUME WorkloadRows, NEW k \in WorkloadKeys, NEW r \in Routes,
           r.workloadID[1] = k, RegisterWorkload(k, r)
    PROVE  /\ WorkloadRows'
           /\ DOMAIN workloadKeys' = DOMAIN workloadKeys \cup {k}
           /\ workloadKeys'[k] = r
           /\ \A j \in DOMAIN workloadKeys : j # k => workloadKeys'[j] = workloadKeys[j]
           /\ UNCHANGED <<hosts, hostKeys>>
<1>1. /\ workloadKeys' = Put(workloadKeys, k, r)
      /\ UNCHANGED <<hosts, hostKeys>>
  BY DEF RegisterWorkload
<1>2. /\ DOMAIN workloadKeys' = DOMAIN workloadKeys \cup {k}
      /\ workloadKeys'[k] = r
      /\ \A j \in DOMAIN workloadKeys : j # k => workloadKeys'[j] = workloadKeys[j]
  BY <1>1 DEF Put
<1>3. Rows(workloadKeys, workloads, hostnames)
  BY RowsOfTracker
<1>4. Rows(workloadKeys', workloads', hostnames')
  <2>1. CASE k \notin DOMAIN workloadKeys
    <3>1. /\ workloads' = Put(workloads, r.workloadID, r.hostID)
          /\ hostnames' = Put(hostnames, r.hostname,
                              Serving(hostnames, r.hostname) \cup {r.workloadID})
      BY <2>1 DEF RegisterWorkload
    <3>2. QED
      BY <1>1, <1>3, <2>1, <3>1, AddedRows
  <2>2. CASE k \in DOMAIN workloadKeys /\ workloadKeys[k] = r
    <3>1. /\ workloads' = Put(workloads, r.workloadID, r.hostID)
          /\ hostnames' = Put(hostnames, r.hostname,
                              Serving(hostnames, r.hostname) \cup {r.workloadID})
      BY <2>2 DEF RegisterWorkload
    <3>2. workloadKeys' = workloadKeys
      BY <1>1, <1>3, <2>2 DEF Put, Rows
    <3>3. workloads' = workloads
      BY <1>3, <2>2, <3>1 DEF Put, Rows
    <3>4. hostnames' = hostnames
      <4>1. r.hostname \in DOMAIN hostnames /\ r.workloadID \in hostnames[r.hostname]
        BY <1>3, <2>2 DEF Rows
      <4>2. Serving(hostnames, r.hostname) \cup {r.workloadID} = hostnames[r.hostname]
        BY <4>1 DEF Serving
      <4>3. hostnames = [h \in DOMAIN hostnames |-> hostnames[h]]
        BY <1>3 DEF Rows
      <4>4. QED
        BY <3>1, <4>1, <4>2, <4>3 DEF Put
    <3>5. QED
      BY <1>3, <3>2, <3>3, <3>4
  <2>3. CASE k \in DOMAIN workloadKeys /\ workloadKeys[k] # r
    <3> DEFINE wk == Without(workloadKeys, {k})
               ws == Without(workloads, {workloadKeys[k].workloadID})
               hn == RouteRemoved(workloadKeys[k])
    <3>1. Rows(wk, ws, hn)
      BY <2>3, RemovedRows
    <3>2. /\ workloads' = Put(ws, r.workloadID, r.hostID)
          /\ hostnames' = Put(hn, r.hostname, Serving(hn, r.hostname) \cup {r.workloadID})
      BY <2>3 DEF RegisterWorkload
    <3>3. k \notin DOMAIN wk /\ workloadKeys' = Put(wk, k, r)
      BY <1>1 DEF Put, Without
    <3> HIDE DEF wk, ws, hn
    <3>4. QED
      BY <3>1, <3>2, <3>3, AddedRows
  <2>4. QED
    BY <2>1, <2>2, <2>3
<1>5. QED
  BY <1>1, <1>2, <1>4, RowsOfTracker

\* DeregisterWorkload keeps the tables in agreement.
LEMMA DeregisterWorkloadRows ==
    ASSUME WorkloadRows, NEW k \in WorkloadKeys, DeregisterWorkload(k)
    PROVE  /\ WorkloadRows'
           /\ DOMAIN workloadKeys' = DOMAIN workloadKeys \ {k}
           /\ \A j \in DOMAIN workloadKeys' : workloadKeys'[j] = workloadKeys[j]
           /\ UNCHANGED <<hosts, hostKeys>>
<1>1. CASE k \in DOMAIN workloadKeys
  <2>1. /\ workloadKeys' = Without(workloadKeys, {k})
        /\ workloads' = Without(workloads, {workloadKeys[k].workloadID})
        /\ hostnames' = RouteRemoved(workloadKeys[k])
        /\ UNCHANGED <<hosts, hostKeys>>
    BY <1>1 DEF DeregisterWorkload
  <2>2. Rows(workloadKeys', workloads', hostnames')
    BY <1>1, <2>1, RemovedRows
  <2>3. /\ DOMAIN workloadKeys' = DOMAIN workloadKeys \ {k}
        /\ \A j \in DOMAIN workloadKeys' : workloadKeys'[j] = workloadKeys[j]
    BY <2>1 DEF Without
  <2>4. QED
    BY <2>1, <2>2, <2>3, RowsOfTracker
<1>2. CASE k \notin DOMAIN workloadKeys
  <2>1. UNCHANGED <<hosts, hostKeys, workloads, hostnames, workloadKeys>>
    BY <1>2 DEF DeregisterWorkload, tables, workloadTables
  <2>2. WorkloadRows'
    BY <2>1 DEF WorkloadRows, WorkloadTablesTyped, WorkloadTablesAgree, OwnWorkloadIds
  <2>3. QED
    BY <1>2, <2>1, <2>2
<1>3. QED
  BY <1>1, <1>2

-----------------------------------------------------------------------------
(* The inductive invariant, grouped by what an action can disturb.         *)

ObjectsTyped ==
    /\ hostObj \in [HostKeys -> Hosts]
    /\ workloadObj \in [WorkloadKeys -> Workloads]
    /\ hostQueue \subseteq HostKeys /\ workloadQueue \subseteq WorkloadKeys
    /\ hostAt \in HostKeys \cup {Nobody} /\ hostRead \in Hosts
    /\ workloadAt \in WorkloadKeys \cup {Nobody} /\ workloadRead \in Workloads
    /\ changes \in 0..MaxChanges /\ faults \in 0..MaxFaults

\* IndInv in the groups the proof works with.
LEMMA IndInvParts ==
    /\ IndInv <=> /\ ObjectsTyped /\ WorkloadRows /\ HostRows /\ ObjectsSane
                  /\ ReadsFresh /\ RoutesPlaced /\ NoStaleRoute /\ HostsFollow
    /\ IndInv' <=> /\ ObjectsTyped' /\ WorkloadRows' /\ HostRows' /\ ObjectsSane'
                   /\ ReadsFresh' /\ RoutesPlaced' /\ NoStaleRoute' /\ HostsFollow'
<1>1. IndInv <=> /\ ObjectsTyped /\ WorkloadRows /\ HostRows /\ ObjectsSane
                 /\ ReadsFresh /\ RoutesPlaced /\ NoStaleRoute /\ HostsFollow
  BY DEF IndInv, TypeOK, TablesAgree, ObjectsTyped, WorkloadRows, HostRows
<1>2. IndInv' <=> /\ ObjectsTyped' /\ WorkloadRows' /\ HostRows' /\ ObjectsSane'
                  /\ ReadsFresh' /\ RoutesPlaced' /\ NoStaleRoute' /\ HostsFollow'
  BY DEF IndInv, TypeOK, TablesAgree, ObjectsTyped, WorkloadRows, HostRows
<1>3. QED
  BY <1>1, <1>2

\* A step that calls no registry leaves the tables as they are.
LEMMA TablesKept ==
    ASSUME IndInv, UNCHANGED tables
    PROVE  /\ WorkloadRows' /\ HostRows'
           /\ UNCHANGED <<hosts, hostKeys, workloads, hostnames, workloadKeys>>
<1>1. UNCHANGED <<hosts, hostKeys, workloads, hostnames, workloadKeys>>
  BY DEF tables, workloadTables
<1>2. WorkloadRows'
  BY <1>1, IndInvParts DEF WorkloadRows, WorkloadTablesTyped, WorkloadTablesAgree, OwnWorkloadIds
<1>3. HostRows'
  BY <1>1, IndInvParts DEF HostRows, HostTablesTyped, HostTablesAgree, OwnHostIds
<1>4. QED
  BY <1>1, <1>2, <1>3

\* The empty objects have their types.
LEMMA EmptyTyped ==
    /\ NoHost(0) \in Hosts /\ HostSane(NoHost(0))
    /\ NoWorkload(0) \in Workloads /\ WorkloadSane(NoWorkload(0))
BY GatewayAssumption DEF NoHost, NoWorkload, Hosts, Workloads, HostSane, WorkloadSane, NoHostId

\* The initial tables are empty and agree.
LEMMA InitIndInv == Init => IndInv
<1> SUFFICES ASSUME Init PROVE IndInv
  OBVIOUS
<1>1. ObjectsTyped
  BY EmptyTyped, GatewayAssumption DEF Init, ObjectsTyped
<1>2. /\ DOMAIN hostKeys = {} /\ DOMAIN workloads = {}
      /\ DOMAIN hostnames = {} /\ DOMAIN workloadKeys = {}
  BY DEF Init
<1>3. WorkloadRows
  <2>1. WorkloadTablesTyped
    BY <1>2 DEF Init, WorkloadTablesTyped
  <2>2. QED
    BY <1>2, <2>1 DEF WorkloadRows, WorkloadTablesAgree, OwnWorkloadIds
<1>4. HostRows
  BY <1>2 DEF HostRows, HostTablesTyped, HostTablesAgree, OwnHostIds, Init
<1>5. ObjectsSane
  BY EmptyTyped DEF Init, ObjectsSane
<1>6. ReadsFresh /\ RoutesPlaced /\ NoStaleRoute /\ HostsFollow
  BY <1>2 DEF Init, ReadsFresh, RoutesPlaced, NoStaleRoute, HostsFollow
<1>7. QED
  BY <1>1, <1>3, <1>4, <1>5, <1>6, IndInvParts

\* A delivered Host is queued: nothing said of quiet names is disturbed.
LEMMA DeliverHostStep ==
    ASSUME IndInv, NEW k \in HostKeys, DeliverHost(k)
    PROVE  IndInv'
<1> USE IndInvParts
<1>0. hostObj[k] \in Hosts
  BY DEF ObjectsTyped
<1>1. PICK o \in Hosts :
         o \in HostFollows(hostObj[k]) /\ hostObj' = [hostObj EXCEPT ![k] = o]
  BY <1>0 DEF DeliverHost, HostFollows, HostVersions, NoHost, Hosts
<1>2. WorkloadRows' /\ HostRows' /\ UNCHANGED <<hosts, hostKeys, workloads, hostnames, workloadKeys>>
  BY TablesKept DEF DeliverHost
<1>3. /\ UNCHANGED <<workloadObj, workloadQueue, hostAt, hostRead, workloadAt, workloadRead>>
      /\ hostQueue' = hostQueue \cup {k}
  BY DEF DeliverHost, hostWorker, workloadWorker
<1>4. ObjectsTyped'
  BY <1>1, <1>3, GatewayAssumption DEF ObjectsTyped, DeliverHost
<1>5. HostSane(o)
  BY <1>1 DEF HostFollows, HostVersions, HostSane, NoHost
<1>6. ObjectsSane'
  BY <1>1, <1>3, <1>5 DEF ObjectsSane, ObjectsTyped
<1>7. ReadsFresh'
  BY <1>1, <1>3 DEF ReadsFresh, ObjectsTyped
<1>8. RoutesPlaced' /\ NoStaleRoute'
  BY <1>2, <1>3 DEF RoutesPlaced, NoStaleRoute, WorkloadQuiet
<1>9. HostsFollow'
  BY <1>1, <1>2, <1>3 DEF HostsFollow, HostQuiet, ObjectsTyped, HostRows, HostTablesTyped
<1>10. QED
  BY <1>2, <1>4, <1>6, <1>7, <1>8, <1>9

\* A delivered Workload is queued, and is the object of its routes or a later one.
LEMMA DeliverWorkloadStep ==
    ASSUME IndInv, NEW k \in WorkloadKeys, DeliverWorkload(k)
    PROVE  IndInv'
<1> USE IndInvParts
<1>0. workloadObj[k] \in Workloads /\ NoWorkload(workloadObj[k].uid) \in Workloads
  BY DEF ObjectsTyped, Workloads, NoWorkload
<1>1. PICK o \in Workloads :
         o \in WorkloadFollows(workloadObj[k]) /\ workloadObj' = [workloadObj EXCEPT ![k] = o]
  BY <1>0 DEF DeliverWorkload, WorkloadFollows, WorkloadVersions
<1>2. WorkloadRows' /\ HostRows' /\ UNCHANGED <<hosts, hostKeys, workloads, hostnames, workloadKeys>>
  BY TablesKept DEF DeliverWorkload
<1>3. /\ UNCHANGED <<hostObj, hostQueue, hostAt, hostRead, workloadAt, workloadRead>>
      /\ workloadQueue' = workloadQueue \cup {k}
  BY DEF DeliverWorkload, hostWorker, workloadWorker
<1>4. ObjectsTyped'
  BY <1>1, <1>3, GatewayAssumption DEF ObjectsTyped, DeliverWorkload
<1>5. workloadObj[k] \in Workloads /\ WorkloadSane(workloadObj[k])
  BY DEF ObjectsTyped, ObjectsSane
<1>6. WorkloadSane(o)
  BY <1>1, <1>5, GatewayAssumption DEF WorkloadFollows, WorkloadVersions, WorkloadSane, NoWorkload, Workloads
<1>7. ObjectsSane'
  BY <1>1, <1>3, <1>6 DEF ObjectsSane, ObjectsTyped
<1>8. ReadsFresh'
  BY <1>1, <1>3 DEF ReadsFresh, ObjectsTyped
<1>9. ASSUME NEW u \in Nat, PlacedBefore(u, workloadObj[k])
      PROVE  PlacedBefore(u, o)
  BY <1>1, <1>5, <1>9 DEF WorkloadFollows, WorkloadVersions, WorkloadSane, NoWorkload, PlacedBefore, Workloads
<1>10. RoutesPlaced'
  <2>1. \A j \in DOMAIN workloadKeys : workloadKeys[j].workloadID[2] \in Nat
    BY GatewayAssumption DEF WorkloadRows, WorkloadTablesTyped, Routes, WorkloadIds
  <2>2. workloadRead.uid \in Nat
    BY GatewayAssumption DEF ObjectsTyped, Workloads
  <2>3. DOMAIN workloadKeys \subseteq WorkloadKeys
    BY DEF WorkloadRows, WorkloadTablesTyped
  <2>4. \A j \in WorkloadKeys : workloadObj'[j] = IF j = k THEN o ELSE workloadObj[j]
    BY <1>1 DEF ObjectsTyped
  <2>5. QED
    BY <1>2, <1>3, <1>9, <2>1, <2>2, <2>3, <2>4 DEF RoutesPlaced, ObjectsTyped
<1>11. NoStaleRoute'
  BY <1>1, <1>2, <1>3 DEF NoStaleRoute, WorkloadQuiet, ObjectsTyped, WorkloadRows, WorkloadTablesTyped
<1>12. HostsFollow'
  BY <1>2, <1>3 DEF HostsFollow, HostQuiet
<1>13. QED
  BY <1>2, <1>4, <1>7, <1>8, <1>10, <1>11, <1>12

\* A resync only adds to the queues.
LEMMA ResyncStep ==
    ASSUME IndInv, Resync
    PROVE  IndInv'
<1> USE IndInvParts
<1>1. WorkloadRows' /\ HostRows' /\ UNCHANGED <<hosts, hostKeys, workloads, hostnames, workloadKeys>>
  BY TablesKept DEF Resync
<1>2. /\ UNCHANGED <<hostObj, workloadObj, hostAt, hostRead, workloadAt, workloadRead, changes, faults>>
      /\ hostQueue \subseteq hostQueue' /\ hostQueue' \subseteq HostKeys
      /\ workloadQueue \subseteq workloadQueue' /\ workloadQueue' \subseteq WorkloadKeys
  BY DEF Resync, objects, hostWorker, workloadWorker, ObjectsTyped
<1>3. ObjectsTyped' /\ ObjectsSane'
  BY <1>2 DEF ObjectsTyped, ObjectsSane
<1>4. ReadsFresh' /\ RoutesPlaced' /\ NoStaleRoute' /\ HostsFollow'
  BY <1>1, <1>2 DEF ReadsFresh, RoutesPlaced, NoStaleRoute, HostsFollow, HostQuiet, WorkloadQuiet
<1>5. QED
  BY <1>1, <1>3, <1>4

\* A read is fresh when it is made.
LEMMA GetHostStep ==
    ASSUME IndInv, NEW k \in HostKeys, GetHost(k)
    PROVE  IndInv'
<1> USE IndInvParts
<1>1. WorkloadRows' /\ HostRows' /\ UNCHANGED <<hosts, hostKeys, workloads, hostnames, workloadKeys>>
  BY TablesKept DEF GetHost
<1>2. /\ UNCHANGED <<hostObj, workloadObj, workloadQueue, workloadAt, workloadRead, changes, faults>>
      /\ hostAt = Nobody /\ hostAt' = k /\ hostRead' = hostObj[k] /\ hostQueue' = hostQueue \ {k}
  BY DEF GetHost, objects, workloadWorker
<1>3. ObjectsTyped' /\ ObjectsSane'
  BY <1>2 DEF ObjectsTyped, ObjectsSane
<1>4. ReadsFresh' /\ RoutesPlaced' /\ NoStaleRoute'
  BY <1>1, <1>2 DEF ReadsFresh, RoutesPlaced, NoStaleRoute, WorkloadQuiet
<1>5. HostsFollow'
  BY <1>1, <1>2, GatewayAssumption DEF HostsFollow, HostQuiet, HostRows, HostTablesTyped
<1>6. QED
  BY <1>1, <1>3, <1>4, <1>5

\* Likewise for a Workload.
LEMMA GetWorkloadStep ==
    ASSUME IndInv, NEW k \in WorkloadKeys, GetWorkload(k)
    PROVE  IndInv'
<1> USE IndInvParts
<1>1. WorkloadRows' /\ HostRows' /\ UNCHANGED <<hosts, hostKeys, workloads, hostnames, workloadKeys>>
  BY TablesKept DEF GetWorkload
<1>2. /\ UNCHANGED <<hostObj, workloadObj, hostQueue, hostAt, hostRead, changes, faults>>
      /\ workloadAt = Nobody /\ workloadAt' = k /\ workloadRead' = workloadObj[k]
      /\ workloadQueue' = workloadQueue \ {k}
  BY DEF GetWorkload, objects, hostWorker
<1>3. ObjectsTyped' /\ ObjectsSane'
  BY <1>2 DEF ObjectsTyped, ObjectsSane
<1>4. ReadsFresh' /\ HostsFollow'
  BY <1>1, <1>2 DEF ReadsFresh, HostsFollow, HostQuiet
<1>5. RoutesPlaced'
  <2>1. WorkloadSane(workloadObj[k]) /\ workloadObj[k].uid \in Nat
    BY GatewayAssumption DEF ObjectsSane, ObjectsTyped, Workloads
  <2>2. workloadObj[k].placed => PlacedBefore(workloadObj[k].uid, workloadObj[k])
    BY <2>1 DEF PlacedBefore
  <2>3. QED
    BY <1>1, <1>2, <2>2 DEF RoutesPlaced
<1>6. NoStaleRoute'
  BY <1>1, <1>2, GatewayAssumption DEF NoStaleRoute, WorkloadQuiet, WorkloadRows, WorkloadTablesTyped
<1>7. QED
  BY <1>1, <1>3, <1>4, <1>5, <1>6

\* A refused patch puts the key back in the queue.
LEMMA PatchFailsStep ==
    ASSUME IndInv, HostPatchFails \/ WorkloadPatchFails
    PROVE  IndInv'
<1> USE IndInvParts
<1>1. CASE HostPatchFails
  <2>1. WorkloadRows' /\ HostRows' /\ UNCHANGED <<hosts, hostKeys, workloads, hostnames, workloadKeys>>
    BY <1>1, TablesKept DEF HostPatchFails
  <2>2. /\ UNCHANGED <<hostObj, workloadObj, workloadQueue, workloadAt, workloadRead, changes>>
        /\ hostAt # Nobody /\ hostAt' = Nobody /\ hostRead' = NoHost(0)
        /\ hostQueue' = hostQueue \cup {hostAt}
        /\ faults < MaxFaults /\ faults' = faults + 1
    BY <1>1 DEF HostPatchFails, HostDone, objects, workloadWorker
  <2>3. ObjectsTyped' /\ ObjectsSane'
    BY <2>2, EmptyTyped, GatewayAssumption DEF ObjectsTyped, ObjectsSane
  <2>4. ReadsFresh' /\ RoutesPlaced' /\ NoStaleRoute' /\ HostsFollow'
    BY <2>1, <2>2 DEF ReadsFresh, RoutesPlaced, NoStaleRoute, HostsFollow, HostQuiet, WorkloadQuiet
  <2>5. QED
    BY <2>1, <2>3, <2>4
<1>2. CASE WorkloadPatchFails
  <2>1. WorkloadRows' /\ HostRows' /\ UNCHANGED <<hosts, hostKeys, workloads, hostnames, workloadKeys>>
    BY <1>2, TablesKept DEF WorkloadPatchFails
  <2>2. /\ UNCHANGED <<hostObj, workloadObj, hostQueue, hostAt, hostRead, changes>>
        /\ workloadAt # Nobody /\ workloadAt' = Nobody /\ workloadRead' = NoWorkload(0)
        /\ workloadQueue' = workloadQueue \cup {workloadAt}
        /\ faults < MaxFaults /\ faults' = faults + 1
    BY <1>2 DEF WorkloadPatchFails, WorkloadDone, objects, hostWorker
  <2>3. ObjectsTyped' /\ ObjectsSane'
    BY <2>2, EmptyTyped, GatewayAssumption DEF ObjectsTyped, ObjectsSane
  <2>4. RoutesPlaced'
    BY <2>1, <2>2, GatewayAssumption DEF RoutesPlaced, WorkloadRows, WorkloadTablesTyped
  <2>5. ReadsFresh' /\ NoStaleRoute' /\ HostsFollow'
    BY <2>1, <2>2 DEF ReadsFresh, NoStaleRoute, HostsFollow, HostQuiet, WorkloadQuiet
  <2>6. QED
    BY <2>1, <2>3, <2>4, <2>5
<1>3. QED
  BY <1>1, <1>2

\* What a host reconcile does to the tables, and that the row it leaves is one
\* the object it read asks for.
LEMMA ReconcileHostStep ==
    ASSUME IndInv, ReconcileHost
    PROVE  IndInv'
<1> USE IndInvParts
<1>1. /\ UNCHANGED <<hostObj, workloadObj, hostQueue, workloadQueue, workloadAt, workloadRead,
                     changes, faults>>
      /\ hostAt \in HostKeys /\ hostAt' = Nobody /\ hostRead' = NoHost(0)
      /\ HostVerdict(hostAt, hostRead)
  BY DEF ReconcileHost, HostDone, objects, workloadWorker, ObjectsTyped
<1>2. ObjectsTyped' /\ ObjectsSane'
  BY <1>1, EmptyTyped DEF ObjectsTyped, ObjectsSane
<1>3. ReadsFresh'
  BY <1>1 DEF ReadsFresh
<1>4. hostAt # Nobody /\ hostRead \in Hosts /\ HostSane(hostRead)
  BY <1>1, GatewayAssumption DEF ObjectsTyped, ObjectsSane
<1>5. /\ WorkloadRows' /\ HostRows'
      /\ DOMAIN workloadKeys' \subseteq DOMAIN workloadKeys
      /\ \A j \in DOMAIN workloadKeys' : workloadKeys'[j] = workloadKeys[j]
      /\ \A j \in DOMAIN hostKeys' : j # hostAt => (j \in DOMAIN hostKeys /\ hostKeys'[j] = hostKeys[j])
      /\ hostAt \in DOMAIN hostKeys' =>
            /\ hostRead.present /\ ~hostRead.deleting /\ hostRead.ready # "false"
            /\ \/ hostRead.ready = "true" /\ hostKeys'[hostAt] = HostID(hostAt, hostRead)
               \/ hostRead.ready = "unknown"
  <2>1. CASE ~hostRead.present \/ hostRead.deleting \/ hostRead.ready = "false"
    <3>1. DeregisterHost(hostAt)
      BY <1>1, <1>4, <2>1 DEF HostVerdict, Hosts
    <3>2. QED
      BY <1>1, <3>1, DeregisterHostRows
  <2>2. CASE hostRead.present /\ ~hostRead.deleting /\ hostRead.ready = "true"
    <3>1. RegisterHost(hostAt, HostID(hostAt, hostRead))
      BY <1>1, <1>4, <2>2 DEF HostVerdict, Hosts
    <3>2. HostID(hostAt, hostRead) \in HostIds /\ HostID(hostAt, hostRead)[1] = hostAt
      BY <1>1, <1>4, <2>2, GatewayAssumption DEF HostID, HostIds, Hosts, HostSane
    <3> DEFINE id == HostID(hostAt, hostRead)
    <3> HIDE DEF id
    <3>3. id \in HostIds /\ id[1] = hostAt /\ RegisterHost(hostAt, id)
      BY <3>1, <3>2 DEF id
    <3>4. /\ WorkloadRows' /\ HostRows'
          /\ DOMAIN hostKeys' = DOMAIN hostKeys \cup {hostAt}
          /\ hostKeys'[hostAt] = id
          /\ \A j \in DOMAIN hostKeys : j # hostAt => hostKeys'[j] = hostKeys[j]
          /\ DOMAIN workloadKeys' \subseteq DOMAIN workloadKeys
          /\ \A j \in DOMAIN workloadKeys' : workloadKeys'[j] = workloadKeys[j]
      BY <1>1, <3>3, RegisterHostRows
    <3>5. QED
      BY <3>4, <2>2 DEF id
  <2>3. CASE hostRead.present /\ ~hostRead.deleting /\ hostRead.ready = "unknown"
    <3>1. UNCHANGED tables
      BY <1>1, <1>4, <2>3 DEF HostVerdict, Hosts
    <3>2. QED
      BY <2>3, <3>1, TablesKept
  <2>4. hostRead.ready \in {"true", "false", "unknown"} /\ hostRead.present \in BOOLEAN
        /\ hostRead.deleting \in BOOLEAN
    BY <1>4 DEF Hosts
  <2>5. QED
    BY <2>1, <2>2, <2>3, <2>4
<1>6. RoutesPlaced' /\ NoStaleRoute'
  BY <1>1, <1>5 DEF RoutesPlaced, NoStaleRoute, WorkloadQuiet
<1>7. HostsFollow'
  <2> SUFFICES ASSUME NEW j \in DOMAIN hostKeys', HostQuiet(j)'
               PROVE  /\ hostObj[j].present /\ ~hostObj[j].deleting
                      /\ hostObj[j].ready # "false"
                      /\ hostObj[j].ready = "true" => HostID(j, hostObj[j]) = hostKeys'[j]
    BY <1>1 DEF HostsFollow, HostQuiet, HostID
  <2>1. CASE j = hostAt
    <3>1. hostRead = hostObj[j]
      BY <1>1, <1>4, <2>1 DEF ReadsFresh, HostQuiet
    <3>2. QED
      BY <1>5, <2>1, <3>1
  <2>2. CASE j # hostAt
    BY <1>1, <1>5, <2>2 DEF HostsFollow, HostQuiet
  <2>3. QED
    BY <2>1, <2>2
<1>8. QED
  BY <1>2, <1>3, <1>5, <1>6, <1>7

\* What a workload reconcile does to the tables.  The route it leaves is the one
\* the object it read asks for, or the object is not placed and was left alone.
LEMMA ReconcileWorkloadStep ==
    ASSUME IndInv, ReconcileWorkload
    PROVE  IndInv'
<1> USE IndInvParts
<1> DEFINE k == workloadAt
           o == workloadRead
<1>1. /\ UNCHANGED <<hostObj, workloadObj, hostQueue, workloadQueue, hostAt, hostRead, changes, faults>>
      /\ k \in WorkloadKeys /\ workloadAt' = Nobody /\ workloadRead' = NoWorkload(0)
      /\ WorkloadVerdict(k, o)
  BY DEF ReconcileWorkload, WorkloadDone, objects, hostWorker, ObjectsTyped
<1>2. ObjectsTyped' /\ ObjectsSane'
  BY <1>1, EmptyTyped DEF ObjectsTyped, ObjectsSane
<1>3. ReadsFresh'
  BY <1>1 DEF ReadsFresh
<1>4. /\ k # Nobody /\ o \in Workloads /\ WorkloadSane(o)
      /\ o.present \in BOOLEAN /\ o.deleting \in BOOLEAN /\ o.placed \in BOOLEAN /\ o.ready \in BOOLEAN
  BY <1>1, GatewayAssumption DEF ObjectsTyped, ObjectsSane, Workloads
<1>5. /\ WorkloadRows' /\ HostRows' /\ UNCHANGED hostKeys
      /\ \A j \in DOMAIN workloadKeys' :
            j # k => (j \in DOMAIN workloadKeys /\ workloadKeys'[j] = workloadKeys[j])
      /\ k \in DOMAIN workloadKeys' =>
            \/ /\ o.ready /\ o.placed /\ workloadKeys'[k] = Route(k, o)
            \/ /\ o.present /\ ~o.deleting /\ ~o.placed
               /\ k \in DOMAIN workloadKeys /\ workloadKeys'[k] = workloadKeys[k]
  <2>0. UNCHANGED <<hosts, hostKeys>> => HostRows'
    BY DEF HostRows, HostTablesTyped, HostTablesAgree, OwnHostIds
  <2>1. CASE ~o.present \/ o.deleting \/ (o.placed /\ (o.hostname = NoHostname \/ ~o.ready))
    <3>1. DeregisterWorkload(k)
      BY <1>1, <1>4, <2>1 DEF WorkloadVerdict, WorkloadSane
    <3>2. QED
      BY <1>1, <3>1, <2>0, DeregisterWorkloadRows
  <2>2. CASE o.present /\ ~o.deleting /\ ~o.placed
    <3>1. UNCHANGED tables
      BY <1>1, <1>4, <2>2 DEF WorkloadVerdict, WorkloadSane
    <3>2. QED
      BY <2>2, <3>1, TablesKept
  <2>3. CASE o.placed /\ o.hostname # NoHostname /\ o.ready
    <3> DEFINE r == Route(k, o)
    <3>1. RegisterWorkload(k, r)
      BY <1>1, <1>4, <2>3 DEF WorkloadVerdict, WorkloadSane
    <3>2. r \in Routes /\ r.workloadID[1] = k
      BY <1>1, <1>4, <2>3, GatewayAssumption
         DEF Route, Routes, WorkloadID, WorkloadIds, Workloads, WorkloadSane
    <3> HIDE DEF r
    <3>3. /\ WorkloadRows'
          /\ DOMAIN workloadKeys' = DOMAIN workloadKeys \cup {k}
          /\ workloadKeys'[k] = r
          /\ \A j \in DOMAIN workloadKeys : j # k => workloadKeys'[j] = workloadKeys[j]
          /\ UNCHANGED <<hosts, hostKeys>>
      BY <1>1, <3>1, <3>2, RegisterWorkloadRows
    <3>4. QED
      BY <2>0, <2>3, <3>3 DEF r
  <2>4. QED
    BY <1>4, <2>1, <2>2, <2>3 DEF WorkloadSane
<1>6. RoutesPlaced'
  <2> SUFFICES ASSUME NEW j \in DOMAIN workloadKeys'
               PROVE  PlacedBefore(workloadKeys'[j].workloadID[2], workloadObj[j])
    BY <1>1, <1>5, GatewayAssumption DEF RoutesPlaced, PlacedBefore, WorkloadRows, WorkloadTablesTyped
  <2>1. CASE j # k
    BY <1>5, <2>1 DEF RoutesPlaced
  <2>2. CASE j = k /\ o.placed
    <3>1. workloadKeys'[j].workloadID[2] = o.uid
      BY <1>5, <2>2 DEF Route, WorkloadID
    <3>2. QED
      BY <1>4, <2>2, <3>1 DEF RoutesPlaced
  <2>3. CASE j = k /\ ~o.placed
    BY <1>5, <2>3 DEF RoutesPlaced
  <2>4. QED
    BY <1>4, <2>1, <2>2, <2>3
<1>7. NoStaleRoute'
  <2> SUFFICES ASSUME NEW j \in DOMAIN workloadKeys', WorkloadQuiet(j)'
               PROVE  \/ /\ workloadObj[j].ready
                         /\ workloadKeys'[j] = Route(j, workloadObj[j])
                      \/ /\ workloadObj[j].present
                         /\ ~workloadObj[j].placed /\ ~workloadObj[j].deleting
                         /\ workloadKeys'[j].workloadID # WorkloadID(j, workloadObj[j])
    BY <1>1 DEF NoStaleRoute, WorkloadQuiet, Route, WorkloadID
  <2>1. CASE j # k
    BY <1>1, <1>5, <2>1 DEF NoStaleRoute, WorkloadQuiet
  <2>2. CASE j = k
    <3>1. o = workloadObj[k]
      BY <1>1, <1>4, <2>2 DEF ReadsFresh, WorkloadQuiet
    <3>2. CASE o.ready /\ workloadKeys'[k] = Route(k, o)
      BY <2>2, <3>1, <3>2
    <3>3. CASE /\ o.present /\ ~o.deleting /\ ~o.placed
               /\ k \in DOMAIN workloadKeys /\ workloadKeys'[k] = workloadKeys[k]
      <4>1. PlacedBefore(workloadKeys[k].workloadID[2], workloadObj[k])
        BY <3>3 DEF RoutesPlaced
      <4>2. workloadKeys[k].workloadID[2] # o.uid
        BY <3>1, <3>3, <4>1 DEF PlacedBefore
      <4>3. QED
        BY <2>2, <3>1, <3>3, <4>2 DEF WorkloadID
    <3>4. QED
      BY <1>5, <2>2, <3>2, <3>3
  <2>3. QED
    BY <2>1, <2>2
<1>8. HostsFollow'
  BY <1>1, <1>5 DEF HostsFollow, HostQuiet
<1>9. QED
  BY <1>2, <1>3, <1>5, <1>6, <1>7, <1>8

-----------------------------------------------------------------------------
\* The inductive invariant holds of every gateway, for any names, hostnames and
\* bounds.
THEOREM GatewayInvariance == Spec => []IndInv
<1>1. IndInv /\ [Next]_vars => IndInv'
  <2> SUFFICES ASSUME IndInv, [Next]_vars PROVE IndInv'
    OBVIOUS
  <2>1. CASE \E k \in HostKeys : DeliverHost(k) \/ GetHost(k)
    BY <2>1, DeliverHostStep, GetHostStep
  <2>2. CASE \E k \in WorkloadKeys : DeliverWorkload(k) \/ GetWorkload(k)
    BY <2>2, DeliverWorkloadStep, GetWorkloadStep
  <2>3. CASE Resync
    BY <2>3, ResyncStep
  <2>4. CASE ReconcileHost
    BY <2>4, ReconcileHostStep
  <2>5. CASE ReconcileWorkload
    BY <2>5, ReconcileWorkloadStep
  <2>6. CASE HostPatchFails \/ WorkloadPatchFails
    BY <2>6, PatchFailsStep
  <2>7. CASE UNCHANGED vars
    <3>1. /\ UNCHANGED <<hostObj, workloadObj, hostQueue, workloadQueue, hostAt, hostRead,
                         workloadAt, workloadRead, changes, faults>>
          /\ UNCHANGED tables
      BY <2>7 DEF vars, objects, hostWorker, workloadWorker
    <3>2. WorkloadRows' /\ HostRows' /\ UNCHANGED <<hosts, hostKeys, workloads, hostnames, workloadKeys>>
      BY <3>1, TablesKept
    <3>3. ObjectsTyped' /\ ObjectsSane'
      BY <3>1, IndInvParts DEF ObjectsTyped, ObjectsSane
    <3>4. ReadsFresh' /\ RoutesPlaced' /\ NoStaleRoute' /\ HostsFollow'
      BY <3>1, <3>2, IndInvParts
         DEF ReadsFresh, RoutesPlaced, NoStaleRoute, HostsFollow, HostQuiet, WorkloadQuiet
    <3>5. QED
      BY <3>2, <3>3, <3>4, IndInvParts
  <2>8. QED
    BY <2>1, <2>2, <2>3, <2>4, <2>5, <2>6, <2>7 DEF Next
<1>2. QED
  BY <1>1, InitIndInv, PTL DEF Spec

\* Every reachable state of the gateway is well typed: each map of the tracker
\* and each queue keeps its shape through both reconcilers.
THEOREM GatewayTyped == Spec => []TypeOK
<1>1. IndInv => TypeOK
  BY DEF IndInv
<1>2. QED
  BY <1>1, GatewayInvariance, PTL

\* The five maps of HostTracker are one table at all times (RegisterHost,
\* RegisterWorkload, their inverses and removeHost).
THEOREM GatewayTables == Spec => []TablesAgree
<1>1. IndInv => TablesAgree
  BY DEF IndInv
<1>2. QED
  BY <1>1, GatewayInvariance, PTL

\* No name that is quiet has a stale route (WorkloadReconciler.Reconcile).
THEOREM GatewayFresh == Spec => []NoStaleRoute
<1>1. IndInv => NoStaleRoute
  BY DEF IndInv
<1>2. QED
  BY <1>1, GatewayInvariance, PTL

\* Resolve sends requests to registered, live hosts only.
THEOREM GatewayReaches == Spec => []RequestsReachLiveHosts
<1>1. IndInv => RequestsReachLiveHosts
  <2> SUFFICES ASSUME IndInv, NEW h \in Hostnames, NEW w \in Resolve(h) \ {Nobody}
               PROVE  LET id == workloads[w]
                          o == hostObj[id[1]]
                      IN  /\ hostKeys[id[1]] = id
                          /\ HostQuiet(id[1]) =>
                                /\ o.present /\ ~o.deleting /\ o.ready # "false"
                                /\ o.ready = "true" => HostID(id[1], o) = id
    BY DEF RequestsReachLiveHosts
  <2>1. workloads[w] \in hosts
    BY DEF Resolve
  <2>2. PICK j \in DOMAIN hostKeys : hostKeys[j] = workloads[w]
    BY <2>1 DEF IndInv, TablesAgree, HostTablesAgree
  <2>3. workloads[w][1] = j
    BY <2>2 DEF IndInv, OwnHostIds
  <2>4. QED
    BY <2>2, <2>3 DEF IndInv, HostsFollow
<1>2. QED
  BY <1>1, GatewayInvariance, PTL
=============================================================================
