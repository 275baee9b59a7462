---------------------- MODULE WorkloadLifecycleProofs ----------------------
(* The inductive invariant of WorkloadLifecycle, one lemma per action, the     *)
(* safety properties that follow from it, and the refinement of WorkloadIds.   *)
EXTENDS WorkloadLifecycle, TLAPS

\* 0 and every reservation number lie in the range of a slot's number.
LEMMA Zero == 0 \in 0 .. MaxReservations /\ Reservation \subseteq 0 .. MaxReservations
BY ConstantsAssumption DEF Reservation

\* Every HostWorkload variant is a slot.
LEMMA SlotTypes ==
  /\ Free \in Slot /\ Error \in Slot
  /\ \A r \in 0 .. MaxReservations : /\ Starting(r) \in Slot /\ Running(r) \in Slot
                            /\ Stopping(r) \in Slot /\ Failing(r) \in Slot
BY Zero DEF Slot, SlotState, Free, Error, Starting, Running, Stopping, Failing

\* The reservation number of a slot.
LEMMA SlotR == \A x \in Slot : x.r \in 0 .. MaxReservations
BY DEF Slot

\* What each HostWorkload variant shows; the proofs use the variants only
\* through this lemma and the next.
LEMMA SlotFields ==
  /\ Free.st = "free" /\ Error.st = "error" /\ Free.r = 0 /\ Error.r = 0
  /\ \A r : /\ Starting(r).st = "starting" /\ Starting(r).r = r
            /\ Running(r).st = "running" /\ Running(r).r = r
            /\ Stopping(r).st = "stopping" /\ Stopping(r).r = r
            /\ Failing(r).st = "failing" /\ Failing(r).r = r
BY DEF Free, Error, Starting, Running, Stopping, Failing

\* A slot is rebuilt from its variant and its reservation.
LEMMA SlotShape ==
  \A x \in Slot : /\ x.st = "starting" => x = Starting(x.r)
                  /\ x.st = "running" => x = Running(x.r)
                  /\ x.st = "stopping" => x = Stopping(x.r)
                  /\ x.st = "failing" => x = Failing(x.r)
BY DEF Slot, Starting, Running, Stopping, Failing

\* The states of a workload_stop call.
LEMMA StopperTypes ==
  /\ Idle \in Stopper /\ Idle.pc = "idle"
  /\ \A i \in Ids, r \in 0 .. MaxReservations :
       /\ [pc |-> "recover", id |-> i, r |-> r] \in Stopper
       /\ [pc |-> "decide", id |-> i, r |-> 0] \in Stopper
  /\ \A x \in Stopper : [x EXCEPT !.pc = "collect"] \in Stopper
BY Zero DEF Stopper, Idle

\* The reservation counter, and that minting keeps it in range.
LEMMA NextNat == TypeOK => next \in Nat /\ (next \in Reservation => next + 1 \in 1 .. MaxReservations + 1)
BY ConstantsAssumption DEF TypeOK, Reservation

\* Reservations are positive.
LEMMA ResNat == \A r \in Reservation : r \in Nat /\ r # 0
BY ConstantsAssumption DEF Reservation

\* Bindings are numbers.
LEMMA BindNat == \A b \in Binding : b \in Nat
BY ConstantsAssumption DEF Binding

\* A step that writes neither slots nor entries keeps every entry accounted for.
LEMMA AccountedFrame ==
  ASSUME Accounted, UNCHANGED <<slot, bound, kind, of>>
  PROVE  Accounted'
BY DEF Accounted, Held, FailedByPlugin, Running

\* The same for the entries of running workloads.
LEMMA RunningFrame ==
  ASSUME RunningIntact, UNCHANGED <<slot, bound>>
  PROVE  RunningIntact'
BY DEF RunningIntact

\* A step that writes one slot keeps every entry accounted for if the entries
\* under that id are accounted for by the new slot.
LEMMA AccountedSlot ==
  ASSUME TypeOK, Accounted, NEW i \in Ids, NEW x \in Slot,
         slot' = [slot EXCEPT ![i] = x], UNCHANGED <<bound, kind, of>>,
         \A b \in Binding : bound[i][b] # 0 /\ ~FailedByPlugin(bound[i][b]) =>
            \/ x = Running(bound[i][b])
            \/ /\ x.st \in {"starting", "stopping", "failing"}
               /\ of[x.r] = bound[i][b]
  PROVE  Accounted'
<1> SUFFICES ASSUME NEW id \in Ids, NEW b \in Binding, bound[id][b] # 0
             PROVE  \/ slot'[id] = Running(bound[id][b])
                    \/ /\ slot'[id].st \in {"starting", "stopping", "failing"}
                       /\ of[slot'[id].r] = bound[id][b]
                    \/ FailedByPlugin(bound[id][b])
  BY DEF Accounted, Held, FailedByPlugin, Running
<1>1. CASE id = i
  BY <1>1 DEF TypeOK
<1>2. CASE id # i
  BY <1>2 DEF TypeOK, Accounted, Held
<1> QED
  BY <1>1, <1>2

\* Who has not finished holds its own id: the form in which Ownership is used.
LEMMA Holder ==
  ASSUME TypeOK, Minting, SlotOwners, Ownership, NEW r \in Reservation, Unfinished(r)
  PROVE  /\ r < next /\ wid[r] \in Ids /\ Held(wid[r]) /\ Mine(r)
         /\ slot[wid[r]] \in Slot /\ slot[wid[r]].r = r
         /\ kind[r] # "none"
<1>1. kind[r] # "none" /\ r < next
  BY ResNat, NextNat DEF Unfinished, Minting, Minted, TypeOK
<1>2. wid[r] \in Ids
  BY <1>1 DEF Minting
<1>3. Mine(r)
  BY DEF Ownership
<1> QED
  BY <1>1, <1>2, <1>3, SlotFields DEF Mine, Held, TypeOK

\* Ownership survives a write of r's slot if r keeps it or has finished.
LEMMA OwnershipAt ==
  ASSUME TypeOK, Minting, SlotOwners, Ownership, NEW r \in Reservation,
         wid[r] \in Ids, slot[wid[r]].r = r, NEW x,
         slot' = [slot EXCEPT ![wid[r]] = x], UNCHANGED wid,
         \A q \in Reservation : q # r /\ Unfinished(q)' => Unfinished(q),
         Unfinished(r)' => x \in {Starting(r), Stopping(r), Failing(r)}
  PROVE  Ownership'
<1> SUFFICES ASSUME NEW q \in Reservation, Unfinished(q)'
             PROVE  slot'[wid[q]] \in {Starting(q), Stopping(q), Failing(q)}
  BY DEF Ownership, Mine, Starting, Stopping, Failing
<1>1. CASE q = r
  BY <1>1 DEF TypeOK
<1>2. CASE q # r
  <2>1. Unfinished(q) /\ Mine(q) /\ wid[q] \in Ids /\ slot[wid[q]].r = q
    BY <1>2, Holder
  <2>2. wid[q] # wid[r]
    BY <2>1, <1>2
  <2> QED
    BY <2>1, <2>2 DEF TypeOK, Mine
<1> QED
  BY <1>1, <1>2

\* JournalsCover survives a step that touches only r's journal.
LEMMA JournalsAt ==
  ASSUME TypeOK, JournalsCover, NEW r \in Reservation,
         UNCHANGED <<next, kind, wid, of, bound>>,
         \A q \in Reservation : q # r =>
            /\ journal'[q] = journal[q] /\ todo'[q] = todo[q] /\ err'[q] = err[q]
            /\ pc'[q] = pc[q] /\ serial'[q] = serial[q]
            /\ Mine(q)' => Mine(q),
         JournalCovers(r)'
  PROVE  JournalsCover'
<1> SUFFICES ASSUME NEW q \in Reservation PROVE JournalCovers(q)'
  BY DEF JournalsCover
<1>1. CASE q # r
  <2>1. ReleaseRuns(q)' => ReleaseRuns(q)
    BY <1>1 DEF ReleaseRuns
  <2> QED
    BY <1>1, <2>1 DEF JournalsCover, JournalCovers, IsTop
<1> QED
  BY <1>1

\* A write of r's slot gives no other reservation a slot.
LEMMA MineElsewhere ==
  ASSUME TypeOK, NEW r \in Reservation, slot[wid[r]].r = r, NEW x,
         slot' = [slot EXCEPT ![wid[r]] = x], UNCHANGED wid, x.r \in {0, r},
         NEW q \in Reservation, q # r, Mine(q)'
  PROVE  Mine(q)
<1>1. slot'[wid[q]] \in {slot[wid[q]], x}
  BY DEF TypeOK
<1>2. \A y \in {Starting(q), Stopping(q), Failing(q)} : y.r = q
  BY SlotFields
<1> QED
  BY <1>1, <1>2, ResNat DEF Mine, Starting, Stopping, Failing

\* Reaching "done" finishes r and revives nobody.
LEMMA DoneFinishes ==
  ASSUME TypeOK, RecoveryOwners, NEW r \in Reservation, pc[r] # "dropped",
         wid[r] \in Ids, pc' = [pc EXCEPT ![r] = "done"],
         UNCHANGED <<kind, wid, serial, recov>>
  PROVE  /\ ~Unfinished(r)'
         /\ \A q \in Reservation : q # r /\ Unfinished(q)' => Unfinished(q)
BY ResNat DEF TypeOK, RecoveryOwners, Unfinished, Minted

\* NeverAbandoned survives a step that writes no slot and finishes nobody.
LEMMA AbandonedFrame ==
  ASSUME SlotOwners, NeverAbandoned, UNCHANGED <<slot, host>>,
         \A q \in Reservation :
            host # "stopped" /\ Unfinished(q) => Unfinished(q)'
  PROVE  NeverAbandoned'
BY DEF NeverAbandoned, SlotOwners, SlotOwner, Held

\* NeverAbandoned survives a write of one slot whose new holder is unfinished.
LEMMA AbandonedAt ==
  ASSUME TypeOK, SlotOwners, NeverAbandoned, NEW i \in Ids, NEW x,
         slot' = [slot EXCEPT ![i] = x], UNCHANGED host,
         \A q \in Reservation : wid[q] # i /\ Unfinished(q) => Unfinished(q)',
         x.st \in {"starting", "stopping", "failing"} =>
           x.r \in Reservation /\ (Unfinished(x.r)' \/ host = "stopped")
  PROVE  NeverAbandoned'
<1> SUFFICES ASSUME NEW j \in Ids, Held(j)', host # "stopped"
             PROVE  \A q \in Reservation : q = slot'[j].r => Unfinished(q)'
  <2>1. ASSUME NEW j \in Ids, Held(j)' PROVE slot'[j].r \in Reservation
    BY <2>1 DEF SlotOwners, SlotOwner, Held, TypeOK
  <2> QED
    BY <2>1 DEF NeverAbandoned
<1>1. CASE j = i
  BY <1>1 DEF Held, TypeOK
<1>2. CASE j # i
  <2>1. slot'[j] = slot[j] /\ Held(j)
    BY <1>2 DEF Held, TypeOK
  <2>2. Unfinished(slot[j].r) /\ slot[j].r \in Reservation /\ wid[slot[j].r] = j
    BY <2>1 DEF NeverAbandoned, SlotOwners, SlotOwner
  <2> QED
    BY <2>1, <2>2, <1>2
<1> QED
  BY <1>1, <1>2

\* Marked survives a write of r's slot that does not make it Starting.
LEMMA MarkedAt ==
  ASSUME TypeOK, Marked, NEW r \in Reservation, wid[r] \in Ids, NEW x,
         slot' = [slot EXCEPT ![wid[r]] = x], UNCHANGED wid,
         \A q \in Reservation : q # r =>
            ((ReleaseRuns(q) \/ pc[q] = "unbinding")' => ReleaseRuns(q) \/ pc[q] = "unbinding"),
         x.r \in {0, r}, x # Starting(r)
  PROVE  Marked'
<1> SUFFICES ASSUME NEW q \in Reservation, (ReleaseRuns(q) \/ pc[q] = "unbinding")'
             PROVE  slot'[wid[q]] # Starting(q)
  BY DEF Marked, Starting
<1>1. slot'[wid[q]] \in {x, slot[wid[q]]} /\ (wid[q] = wid[r] /\ wid[r] \in Ids => slot'[wid[q]] = x)
  BY DEF TypeOK
<1>2. Starting(q).r = q
  BY SlotFields
<1>3. CASE q = r
  BY <1>1, <1>3 DEF TypeOK
<1>4. CASE q # r
  BY <1>1, <1>2, <1>4, ResNat DEF Marked
<1> QED
  BY <1>3, <1>4

\* What the return of WorkloadRecovery::recover does to its caller.
LEMMA ReturnFacts ==
  ASSUME TypeOK, RecoveryOwners, NEW r \in Reservation,
         NEW x \in Stoppers \cup {Task}, NEW ok, Return(r, x, ok),
         x \in Stoppers => stopper[x].pc = "recover" /\ stopper[x].r = r
  PROVE  /\ task' \in [Reservation -> BOOLEAN]
         /\ stopper' \in [Stoppers -> Stopper]
         /\ \A q \in Reservation : task'[q] => task[q]
         /\ \A s \in Stoppers : s # x => stopper'[s] = stopper[s]
         /\ x \in Stoppers => /\ stopper'[x].pc = "collect"
                               /\ stopper'[x].id \in Ids
<1>1. task' = [task EXCEPT ![r] = task[r] /\ ~(x = Task /\ ok)]
  BY DEF Return
<1>2. task' \in [Reservation -> BOOLEAN] /\ \A q \in Reservation : task'[q] => task[q]
  BY <1>1 DEF TypeOK
<1>3. /\ \A s \in Stoppers : s # x => stopper'[s] = stopper[s]
      /\ x \in Stoppers => stopper'[x] = [stopper[x] EXCEPT !.pc = "collect"]
      /\ stopper' = [s \in Stoppers |-> stopper'[s]]
  BY DEF Return
<1>4. ASSUME NEW s \in Stoppers PROVE stopper'[s] \in Stopper
  <2>1. stopper[s] \in Stopper
    BY DEF TypeOK
  <2>2. [stopper[s] EXCEPT !.pc = "collect"] \in Stopper
    BY <2>1, StopperTypes
  <2> QED
    BY <2>1, <2>2, <1>3
<1>5. x \in Stoppers => stopper'[x].pc = "collect" /\ stopper'[x].id = stopper[x].id
  BY <1>3 DEF TypeOK, Stopper
<1> QED
  BY <1>2, <1>3, <1>4, <1>5 DEF RecoveryOwners

\* Reserve preserves the invariant.
LEMMA ReserveInv ==
  ASSUME IndInv, NEW id \in Ids, Reserve(id)
  PROVE  IndInv'
<1> /\ TypeOK /\ Minting /\ SlotOwners /\ RecoveryOwners
    /\ JournalsCover /\ Ownership /\ Marked /\ NeverAbandoned
    /\ RunningIntact /\ Accounted
  BY DEF IndInv
<1>a. /\ slot[id] = Free /\ next \in Reservation /\ slot' = [slot EXCEPT ![id] = Starting(next)]
      /\ Starting(next) \in Slot /\ next' = next + 1 /\ next \in Nat
  BY NextNat, SlotTypes, Zero DEF Reserve, Mint
<1>b. \A r \in Reservation : r # next => kind'[r] = kind[r] /\ of'[r] = of[r] /\ wid'[r] = wid[r] /\ pc'[r] = pc[r]
  BY DEF Reserve, Mint, TypeOK
<1>c. kind'[next] = "start" /\ of'[next] = next /\ wid'[next] = id /\ pc'[next] = "queued"
  BY <1>a DEF Reserve, Mint, TypeOK
<1>d. kind[next] = "none" /\ pc[next] = "idle"
  BY <1>a DEF Minting
<1>e. UNCHANGED <<journal, todo, err, retain, task, serial, recov, bound, stopper, host>>
  BY DEF Reserve, journals, recovery
<1>1. TypeOK'
  BY Zero, SlotTypes, SlotR, StopperTypes, NextNat
  DEF TypeOK, Reserve, Mint, Kinds, PCs, Minting, SlotOwners, SlotOwner, ops,
     journals, recovery
<1>2. Minting'
  BY ResNat, NextNat DEF TypeOK, Reserve, Mint, Minting, ops, journals, recovery
<1>3. SlotOwners'
  <2> SUFFICES ASSUME NEW i \in Ids
               PROVE  SlotOwner(i)'
    BY DEF SlotOwners
  <2>1. CASE i = id
    BY <2>1, <1>a, <1>c, SlotFields DEF TypeOK, Held, SlotOwner
  <2>2. CASE i # id
    <3>1. slot'[i] = slot[i]
      BY <2>2, <1>a DEF TypeOK
    <3>2. \A q \in Reservation : q < next => q # next /\ q < next'
      BY <1>a, ResNat
    <3> QED
      BY <3>1, <3>2, <1>b, <1>e DEF SlotOwners, SlotOwner, Held, Free, Error
  <2> QED
    BY <2>1, <2>2
<1>4. RecoveryOwners'
  BY ResNat, NextNat, StopperTypes, Zero
  DEF TypeOK, Reserve, Mint, RecoveryOwners, Minting, ops, journals, recovery
<1>5. JournalsCover'
  <2>1. \A i \in Ids, b \in Binding : bound[i][b] \in Nat /\ bound[i][b] < next
    BY DEF JournalsCover, JournalCovers, TypeOK
  <2>2. ASSUME NEW q \in Reservation, q # next PROVE Mine(q)' => Mine(q)
    <3>1. slot'[wid[q]] = slot[wid[q]] \/ slot'[wid[q]] = Starting(next)
      BY <1>a DEF TypeOK
    <3> QED
      BY <3>1, <2>2, <1>b, SlotFields DEF Mine, Starting, Stopping, Failing
  <2>3. journal[next] = {}
    BY <1>a, <1>d DEF Minting
  <2> QED
    BY <2>1, <2>2, <1>a, <1>b, <1>c, <1>d, <1>e
    DEF JournalsCover, JournalCovers, ReleaseRuns, Minting
<1>6. Ownership'
  BY ResNat, NextNat, SlotTypes, SlotFields, SlotShape
  DEF TypeOK, Reserve, Mint, Ownership, Unfinished, Mine, Minted, Minting,
     RecoveryOwners, ops, journals, recovery
<1>7. Marked'
  <2>1. \A q \in Reservation : (ReleaseRuns(q) \/ pc[q] = "unbinding")'
                                 => q # next /\ (ReleaseRuns(q) \/ pc[q] = "unbinding")
    BY <1>a, <1>b, <1>c, <1>d, <1>e DEF ReleaseRuns, Minting
  <2>2. \A q \in Reservation : q # next => slot'[wid'[q]] \in {slot[wid[q]], Starting(next)}
    BY <1>a, <1>b DEF TypeOK
  <2> QED
    BY <2>1, <2>2, SlotFields DEF Marked, Starting
<1>8. NeverAbandoned'
  BY ResNat, NextNat, SlotTypes, SlotFields, SlotShape
  DEF TypeOK, Reserve, Mint, NeverAbandoned, SlotOwners, SlotOwner, Held,
     Unfinished, Minted, Minting, RecoveryOwners, ops, journals, recovery
<1>9. RunningIntact'
  BY ResNat, NextNat, SlotTypes, SlotFields, SlotShape
  DEF TypeOK, Reserve, Mint, RunningIntact, SlotOwners, SlotOwner, JournalsCover,
     JournalCovers, Ownership, Unfinished, Mine, ops, journals, recovery
<1>10. Accounted'
  <2> SUFFICES ASSUME NEW i \in Ids, NEW b \in Binding, bound[i][b] # 0
               PROVE  (\/ slot[i] = Running(bound[i][b])
                       \/ Held(i) /\ of[slot[i].r] = bound[i][b]
                       \/ FailedByPlugin(bound[i][b]))'
    BY <1>e DEF Accounted
  <2>1. ASSUME FailedByPlugin(bound[i][b]) PROVE FailedByPlugin(bound[i][b])'
    BY <2>1, <1>b, <1>d, <1>e DEF FailedByPlugin
  <2>2. CASE i = id
    BY <2>1, <2>2, <1>a, SlotFields DEF Accounted, Held
  <2>3. CASE i # id
    <3>1. slot'[i] = slot[i]
      BY <2>3, <1>a DEF TypeOK
    <3>2. ASSUME Held(i) PROVE of'[slot[i].r] = of[slot[i].r]
      <4>1. slot[i].r \in Reservation /\ slot[i].r < next
        BY <3>2 DEF SlotOwners, SlotOwner
      <4> QED
        BY <4>1, <1>a, <1>b, ResNat
    <3>3. Held(i)' = Held(i)
      BY <3>1 DEF Held
    <3> QED
      BY <3>1, <3>2, <3>3, <2>1, <1>e DEF Accounted, Running
  <2> QED
    BY <2>2, <2>3
<1> QED
  BY <1>1, <1>2, <1>3, <1>4, <1>5, <1>6, <1>7, <1>8, <1>9, <1>10
  DEF IndInv

\* AcquirePermit preserves the invariant.
LEMMA AcquirePermitInv ==
  ASSUME IndInv, NEW r \in Reservation, AcquirePermit(r)
  PROVE  IndInv'
<1> /\ TypeOK /\ Minting /\ SlotOwners /\ RecoveryOwners
    /\ JournalsCover /\ Ownership /\ Marked /\ NeverAbandoned
    /\ RunningIntact /\ Accounted
  BY DEF IndInv
<1>1. TypeOK'
  BY Zero, SlotTypes, SlotR, StopperTypes, NextNat
  DEF TypeOK, AcquirePermit, Goto, Kinds, PCs, Minting, SlotOwners, SlotOwner, ops,
     journals, recovery
<1>2. Minting'
  BY ResNat, NextNat
  DEF TypeOK, AcquirePermit, Goto, Minting, ops, journals, recovery
<1>3. SlotOwners'
  BY ResNat, NextNat, SlotTypes, SlotFields, SlotShape
  DEF TypeOK, AcquirePermit, Goto, SlotOwners, SlotOwner, Minting, Held, ops,
     journals, recovery
<1>4. RecoveryOwners'
  BY ResNat, NextNat, StopperTypes, Zero
  DEF TypeOK, AcquirePermit, Goto, RecoveryOwners, Minting, ops, journals, recovery
<1>5. JournalsCover'
  BY ResNat, NextNat, SlotTypes, SlotFields, SlotShape
  DEF TypeOK, AcquirePermit, Goto, JournalsCover, JournalCovers, Minting,
     Ownership, Unfinished, Mine, ReleaseRuns, ops, journals, recovery
<1>6. Ownership'
  BY ResNat, NextNat, SlotTypes, SlotFields, SlotShape
  DEF TypeOK, AcquirePermit, Goto, Ownership, Unfinished, Mine, Minted, Minting,
     RecoveryOwners, ops, journals, recovery
<1>7. Marked'
  BY ResNat, NextNat, SlotTypes, SlotFields, SlotShape
  DEF TypeOK, AcquirePermit, Goto, Marked, ReleaseRuns, Minting, Ownership,
     Unfinished, Mine, Held, ops, journals, recovery
<1>8. NeverAbandoned'
  BY ResNat, NextNat, SlotTypes, SlotFields, SlotShape
  DEF TypeOK, AcquirePermit, Goto, NeverAbandoned, SlotOwners, SlotOwner, Held,
     Unfinished, Minted, Minting, RecoveryOwners, ops, journals, recovery
<1>9. RunningIntact'
  BY RunningFrame DEF AcquirePermit, Goto, ops, journals, recovery
<1>10. Accounted'
  BY AccountedFrame DEF AcquirePermit, Goto, ops, journals, recovery
<1> QED
  BY <1>1, <1>2, <1>3, <1>4, <1>5, <1>6, <1>7, <1>8, <1>9, <1>10
  DEF IndInv

\* PrepareFails preserves the invariant.
LEMMA PrepareFailsInv ==
  ASSUME IndInv, NEW r \in Reservation, PrepareFails(r)
  PROVE  IndInv'
<1> /\ TypeOK /\ Minting /\ SlotOwners /\ RecoveryOwners
    /\ JournalsCover /\ Ownership /\ Marked /\ NeverAbandoned
    /\ RunningIntact /\ Accounted
  BY DEF IndInv
<1>u. Unfinished(r)
  BY DEF PrepareFails, Unfinished
<1>h. /\ r < next /\ wid[r] \in Ids /\ Held(wid[r]) /\ Mine(r)
      /\ slot[wid[r]] \in Slot /\ slot[wid[r]].r = r /\ kind[r] # "none"
  BY <1>u, Holder
<1>k. kind[r] = "start" /\ journal[r] = {}
  BY SMTT(60), <1>h DEF Minting, JournalsCover, JournalCovers, PrepareFails, TypeOK, Kinds
<1>s. PICK x \in {Free, Error} : slot' = [slot EXCEPT ![wid[r]] = x]
  BY <1>h DEF PrepareFails, WorkloadRelease, TypeOK, Mine
<1>1. TypeOK'
  BY <1>s, SlotTypes DEF TypeOK, PrepareFails, Goto, PCs, ops, journals, recovery
<1>2. Minting'
  BY ResNat, NextNat
  DEF TypeOK, PrepareFails, Goto, WorkloadRelease, Minting, ops, journals, recovery
<1>3. SlotOwners'
  BY ResNat, NextNat, SlotTypes, SlotFields, SlotShape
  DEF TypeOK, PrepareFails, Goto, WorkloadRelease, SlotOwners, SlotOwner, Minting,
     Held, ops, journals, recovery
<1>4. RecoveryOwners'
  BY ResNat, NextNat, StopperTypes, Zero
  DEF TypeOK, PrepareFails, Goto, WorkloadRelease, RecoveryOwners, Minting, ops,
     journals, recovery
<1>5. JournalsCover'
  BY ResNat, NextNat, SlotTypes, SlotFields, SlotShape
  DEF TypeOK, PrepareFails, Goto, WorkloadRelease, JournalsCover, JournalCovers,
     Minting, Ownership, Unfinished, Mine, ReleaseRuns, ops, journals, recovery
<1>6. Ownership'
  <2>1. /\ ~Unfinished(r)'
        /\ \A q \in Reservation : q # r /\ Unfinished(q)' => Unfinished(q)
    BY <1>h, DoneFinishes DEF PrepareFails, Goto, recovery
  <2> QED
    BY <2>1, <1>s, <1>h, OwnershipAt DEF PrepareFails, Goto
<1>7. Marked'
  BY ResNat, NextNat, SlotTypes, SlotFields, SlotShape
  DEF TypeOK, PrepareFails, Goto, WorkloadRelease, Marked, ReleaseRuns, Minting,
     Ownership, Unfinished, Mine, Held, ops, journals, recovery
<1>8. NeverAbandoned'
  <2>1. \A q \in Reservation : wid[q] # wid[r] /\ Unfinished(q) => Unfinished(q)'
    BY DEF PrepareFails, Goto, Unfinished, Minted, recovery, TypeOK
  <2> QED
    BY <2>1, <1>s, <1>h, AbandonedAt, SlotFields DEF PrepareFails
<1>9. RunningIntact'
  BY ResNat, NextNat, SlotTypes, SlotFields, SlotShape
  DEF TypeOK, PrepareFails, Goto, WorkloadRelease, RunningIntact, SlotOwners,
     SlotOwner, JournalsCover, JournalCovers, Ownership, Unfinished, Mine, ops,
     journals, recovery
<1>10. Accounted'
  <2>1. \A b \in Binding : bound[wid[r]][b] # 0 => FailedByPlugin(bound[wid[r]][b])
    BY <1>h, <1>k, SlotFields
    DEF Accounted, JournalsCover, JournalCovers, Held, Minting
  <2> QED
    BY <2>1, <1>s, <1>h, AccountedSlot, SlotTypes DEF PrepareFails, Goto
<1> QED
  BY <1>1, <1>2, <1>3, <1>4, <1>5, <1>6, <1>7, <1>8, <1>9, <1>10
  DEF IndInv

\* PrepareDone preserves the invariant.
LEMMA PrepareDoneInv ==
  ASSUME IndInv, NEW r \in Reservation, PrepareDone(r)
  PROVE  IndInv'
<1> /\ TypeOK /\ Minting /\ SlotOwners /\ RecoveryOwners
    /\ JournalsCover /\ Ownership /\ Marked /\ NeverAbandoned
    /\ RunningIntact /\ Accounted
  BY DEF IndInv
<1>1. TypeOK'
  BY Zero, SlotTypes, SlotR, StopperTypes, NextNat
  DEF TypeOK, PrepareDone, Goto, Kinds, PCs, Minting, SlotOwners, SlotOwner, ops,
     journals, recovery
<1>2. Minting'
  BY ResNat, NextNat DEF TypeOK, PrepareDone, Goto, Minting, ops, journals, recovery
<1>3. SlotOwners'
  BY ResNat, NextNat, SlotTypes, SlotFields, SlotShape
  DEF TypeOK, PrepareDone, Goto, SlotOwners, SlotOwner, Minting, Held, ops,
     journals, recovery
<1>4. RecoveryOwners'
  BY ResNat, NextNat, StopperTypes, Zero
  DEF TypeOK, PrepareDone, Goto, RecoveryOwners, Minting, ops, journals, recovery
<1>5. JournalsCover'
  BY ResNat, NextNat, SlotTypes, SlotFields, SlotShape
  DEF TypeOK, PrepareDone, Goto, JournalsCover, JournalCovers, Minting, Ownership,
     Unfinished, Mine, ReleaseRuns, ops, journals, recovery
<1>6. Ownership'
  BY ResNat, NextNat, SlotTypes, SlotFields, SlotShape
  DEF TypeOK, PrepareDone, Goto, Ownership, Unfinished, Mine, Minted, Minting,
     RecoveryOwners, ops, journals, recovery
<1>7. Marked'
  BY ResNat, NextNat, SlotTypes, SlotFields, SlotShape
  DEF TypeOK, PrepareDone, Goto, Marked, ReleaseRuns, Minting, Ownership,
     Unfinished, Mine, Held, ops, journals, recovery
<1>8. NeverAbandoned'
  BY ResNat, NextNat, SlotTypes, SlotFields, SlotShape
  DEF TypeOK, PrepareDone, Goto, NeverAbandoned, SlotOwners, SlotOwner, Held,
     Unfinished, Minted, Minting, RecoveryOwners, ops, journals, recovery
<1>9. RunningIntact'
  BY RunningFrame DEF PrepareDone, Goto, ops, journals, recovery
<1>10. Accounted'
  BY AccountedFrame DEF PrepareDone, Goto, ops, journals, recovery
<1> QED
  BY <1>1, <1>2, <1>3, <1>4, <1>5, <1>6, <1>7, <1>8, <1>9, <1>10
  DEF IndInv

\* BindBegin preserves the invariant.
LEMMA BindBeginInv ==
  ASSUME IndInv, NEW r \in Reservation, BindBegin(r)
  PROVE  IndInv'
<1> /\ TypeOK /\ Minting /\ SlotOwners /\ RecoveryOwners
    /\ JournalsCover /\ Ownership /\ Marked /\ NeverAbandoned
    /\ RunningIntact /\ Accounted
  BY DEF IndInv
<1>u. Unfinished(r)
  BY DEF BindBegin, Unfinished
<1>h. /\ r < next /\ wid[r] \in Ids /\ Held(wid[r]) /\ Mine(r)
      /\ slot[wid[r]] \in Slot /\ slot[wid[r]].r = r /\ kind[r] # "none"
  BY <1>u, Holder
<1>1. TypeOK'
  BY Zero, SlotTypes, SlotR, StopperTypes, NextNat
  DEF TypeOK, BindBegin, Goto, NextBinding, Kinds, PCs, Minting, SlotOwners,
     SlotOwner, ops, journals, recovery
<1>2. Minting'
  BY ResNat, NextNat
  DEF TypeOK, BindBegin, Goto, NextBinding, Minting, ops, journals, recovery
<1>3. SlotOwners'
  BY ResNat, NextNat, SlotTypes, SlotFields, SlotShape
  DEF TypeOK, BindBegin, Goto, NextBinding, SlotOwners, SlotOwner, Minting, Held,
     ops, journals, recovery
<1>4. RecoveryOwners'
  BY ResNat, NextNat, StopperTypes, Zero
  DEF TypeOK, BindBegin, Goto, NextBinding, RecoveryOwners, Minting, ops, journals,
     recovery
<1>5. JournalsCover'
  <2>1. PICK b \in Binding : NextBinding(r, b) /\ journal' = [journal EXCEPT ![r] = @ \cup {b}]
    BY DEF BindBegin
  <2>2. journal'[r] = journal[r] \cup {b} /\ journal[r] \subseteq Binding
    BY <2>1 DEF TypeOK
  <2>3. \A q \in Reservation : q # r => journal'[q] = journal[q] /\ pc'[q] = pc[q]
    BY <2>1 DEF TypeOK, BindBegin, Goto
  <2>4. pc[r] = "native" /\ pc'[r] = "binding" /\ wid' = wid /\ bound' = bound
    BY DEF BindBegin, Goto, TypeOK
  <2>5. \A c \in journal[r] : c <= b
    BY <2>1, <2>2, <2>4, BindNat DEF JournalsCover, JournalCovers, NextBinding
  <2>6. \A c \in journal'[r] : IsTop(c, journal'[r]) \/ bound[wid[r]][c] = r
    BY <2>2, <2>4, <2>5, BindNat DEF JournalsCover, JournalCovers, IsTop
  <2>7. \A c \in journal'[r], d \in Binding : d < c => d \in journal'[r]
    BY <2>1, <2>2, <2>4, BindNat DEF JournalsCover, JournalCovers, NextBinding
  <2>8. ~ReleaseRuns(r)' /\ \A q \in Reservation : q # r => (ReleaseRuns(q)' <=> ReleaseRuns(q))
    BY <2>3, <2>4 DEF ReleaseRuns, RecoveryOwners, BindBegin, recovery
  <2>9. \A q \in Reservation : Mine(q)' <=> Mine(q)
    BY <2>4 DEF Mine, BindBegin, Starting, Stopping, Failing
  <2> SUFFICES ASSUME NEW q \in Reservation
               PROVE  JournalCovers(q)'
    BY DEF JournalsCover, JournalCovers, BindBegin
  <2>10. CASE q = r
    BY <2>2, <2>4, <2>6, <2>7, <2>8, <2>9, <2>10
    DEF JournalsCover, JournalCovers, BindBegin, Goto, IsTop
  <2>11. CASE q # r
    BY <2>3, <2>4, <2>8, <2>9, <2>11
    DEF JournalsCover, JournalCovers, BindBegin, Goto, IsTop
  <2> QED
    BY <2>10, <2>11
<1>6. Ownership'
  BY ResNat, NextNat, SlotTypes, SlotFields, SlotShape
  DEF TypeOK, BindBegin, Goto, NextBinding, Ownership, Unfinished, Mine, Minted,
     Minting, RecoveryOwners, ops, journals, recovery
<1>7. Marked'
  BY ResNat, NextNat, SlotTypes, SlotFields, SlotShape
  DEF TypeOK, BindBegin, Goto, NextBinding, Marked, ReleaseRuns, Minting,
     Ownership, Unfinished, Mine, Held, ops, journals, recovery
<1>8. NeverAbandoned'
  BY ResNat, NextNat, SlotTypes, SlotFields, SlotShape
  DEF TypeOK, BindBegin, Goto, NextBinding, NeverAbandoned, SlotOwners, SlotOwner,
     Held, Unfinished, Minted, Minting, RecoveryOwners, ops, journals, recovery
<1>9. RunningIntact'
  BY RunningFrame DEF BindBegin, Goto, NextBinding, ops, journals, recovery
<1>10. Accounted'
  BY AccountedFrame DEF BindBegin, Goto, NextBinding, ops, journals, recovery
<1> QED
  BY <1>1, <1>2, <1>3, <1>4, <1>5, <1>6, <1>7, <1>8, <1>9, <1>10
  DEF IndInv

\* BindApply preserves the invariant.
LEMMA BindApplyInv ==
  ASSUME IndInv, NEW r \in Reservation, BindApply(r)
  PROVE  IndInv'
<1> /\ TypeOK /\ Minting /\ SlotOwners /\ RecoveryOwners
    /\ JournalsCover /\ Ownership /\ Marked /\ NeverAbandoned
    /\ RunningIntact /\ Accounted
  BY DEF IndInv
<1>u. Unfinished(r)
  BY DEF BindApply, Unfinished
<1>h. /\ r < next /\ wid[r] \in Ids /\ Held(wid[r]) /\ Mine(r)
      /\ slot[wid[r]] \in Slot /\ slot[wid[r]].r = r /\ kind[r] # "none"
  BY <1>u, Holder
<1>k. kind[r] = "start" /\ of[r] = r
  BY <1>h DEF Minting, BindApply, TypeOK, Kinds
<1>b. PICK b \in journal[r] :
        /\ IsTop(b, journal[r])
        /\ bound' = [bound EXCEPT ![wid[r]][b] = r]
  BY DEF BindApply
<1>c. /\ b \in Binding /\ bound'[wid[r]][b] = r
      /\ \A i \in Ids, c \in Binding : <<i, c>> # <<wid[r], b>> => bound'[i][c] = bound[i][c]
  BY <1>b, <1>h DEF TypeOK
<1>1. TypeOK'
  <2>1. bound' \in [Ids -> [Binding -> 0 .. MaxReservations]]
    BY <1>b, <1>c, <1>h, Zero DEF TypeOK
  <2> QED
    BY <2>1 DEF TypeOK, BindApply, ops, journals, recovery
<1>2. Minting'
  BY ResNat, NextNat DEF TypeOK, BindApply, Minting, ops, journals, recovery
<1>3. SlotOwners'
  BY ResNat, NextNat, SlotTypes, SlotFields, SlotShape
  DEF TypeOK, BindApply, SlotOwners, SlotOwner, Minting, Held, ops, journals,
     recovery
<1>4. RecoveryOwners'
  BY ResNat, NextNat, StopperTypes, Zero
  DEF TypeOK, BindApply, RecoveryOwners, Minting, ops, journals, recovery
<1>5. JournalsCover'
  <2>0. UNCHANGED <<slot, next, kind, wid, of, pc, journal, todo, err, serial>>
    BY DEF BindApply, ops, journals, recovery
  <2>1. \A q \in Reservation : (Mine(q)' <=> Mine(q)) /\ (ReleaseRuns(q)' <=> ReleaseRuns(q))
    BY <2>0 DEF Mine, ReleaseRuns, Starting, Stopping, Failing
  <2>2. \A i \in Ids, c \in Binding : bound'[i][c] < next
    BY <1>c, <1>h DEF JournalsCover
  <2> SUFFICES ASSUME NEW q \in Reservation
               PROVE  JournalCovers(q)'
    BY <2>0, <2>1, <2>2 DEF JournalsCover, JournalCovers, IsTop
  <2>3. CASE q = r
    BY <2>0, <2>1, <2>3, <1>b, <1>c, <1>h, <1>k
    DEF JournalsCover, JournalCovers, TypeOK, IsTop, BindApply
  <2>4. CASE q # r
    <3>1. pc[q] \in {"native", "binding"} => Unfinished(q)
      BY DEF Unfinished
    <3>2. pc[q] \in {"native", "binding"} => wid[q] \in Ids /\ slot[wid[q]].r = q
      BY <3>1, Holder
    <3>3. Mine(q) => slot[wid[q]].r = q
      BY SlotFields DEF Mine
    <3>4. pc[q] \in {"native", "binding"} \/ Mine(q) => wid[q] # wid[r]
      BY <3>2, <3>3, <2>4, <1>h
    <3>5. kind[q] # "none" => wid[q] \in Ids
      BY NextNat, ResNat DEF Minting, TypeOK
    <3> QED
      BY <3>2, <3>4, <3>5, <2>0, <2>1, <1>c
      DEF JournalsCover, JournalCovers, TypeOK, IsTop
  <2> QED
    BY <2>3, <2>4
<1>6. Ownership'
  BY ResNat, NextNat, SlotTypes, SlotFields, SlotShape
  DEF TypeOK, BindApply, Ownership, Unfinished, Mine, Minted, Minting,
     RecoveryOwners, ops, journals, recovery
<1>7. Marked'
  BY ResNat, NextNat, SlotTypes, SlotFields, SlotShape
  DEF TypeOK, BindApply, Marked, ReleaseRuns, Minting, Ownership, Unfinished, Mine,
     Held, ops, journals, recovery
<1>8. NeverAbandoned'
  BY ResNat, NextNat, SlotTypes, SlotFields, SlotShape
  DEF TypeOK, BindApply, NeverAbandoned, SlotOwners, SlotOwner, Held, Unfinished,
     Minted, Minting, RecoveryOwners, ops, journals, recovery
<1>9. RunningIntact'
  BY <1>b, <1>c, <1>h DEF RunningIntact, BindApply, Held
<1>10. Accounted'
  <2>0. UNCHANGED <<slot, kind, of>>
    BY DEF BindApply, ops
  <2> SUFFICES ASSUME NEW i \in Ids, NEW c \in Binding, bound'[i][c] # 0
               PROVE  \/ slot[i] = Running(bound'[i][c])
                      \/ Held(i) /\ of[slot[i].r] = bound'[i][c]
                      \/ FailedByPlugin(bound'[i][c])
    BY <2>0 DEF Accounted, Held, FailedByPlugin, Running
  <2>1. CASE <<i, c>> = <<wid[r], b>>
    BY <2>1, <1>c, <1>h, <1>k
  <2>2. CASE <<i, c>> # <<wid[r], b>>
    BY <2>2, <1>c DEF Accounted
  <2> QED
    BY <2>1, <2>2
<1> QED
  BY <1>1, <1>2, <1>3, <1>4, <1>5, <1>6, <1>7, <1>8, <1>9, <1>10
  DEF IndInv

\* BindDone preserves the invariant.
LEMMA BindDoneInv ==
  ASSUME IndInv, NEW r \in Reservation, BindDone(r)
  PROVE  IndInv'
<1> /\ TypeOK /\ Minting /\ SlotOwners /\ RecoveryOwners
    /\ JournalsCover /\ Ownership /\ Marked /\ NeverAbandoned
    /\ RunningIntact /\ Accounted
  BY DEF IndInv
<1>1. TypeOK'
  BY Zero, SlotTypes, SlotR, StopperTypes, NextNat
  DEF TypeOK, BindDone, Goto, Kinds, PCs, Minting, SlotOwners, SlotOwner, ops,
     journals, recovery
<1>2. Minting'
  BY ResNat, NextNat DEF TypeOK, BindDone, Goto, Minting, ops, journals, recovery
<1>3. SlotOwners'
  BY ResNat, NextNat, SlotTypes, SlotFields, SlotShape
  DEF TypeOK, BindDone, Goto, SlotOwners, SlotOwner, Minting, Held, ops, journals,
     recovery
<1>4. RecoveryOwners'
  BY ResNat, NextNat, StopperTypes, Zero
  DEF TypeOK, BindDone, Goto, RecoveryOwners, Minting, ops, journals, recovery
<1>5. JournalsCover'
  <2>0. /\ UNCHANGED <<slot, next, kind, wid, of, journal, todo, err, serial, bound>>
        /\ pc' = [pc EXCEPT ![r] = "native"] /\ pc[r] = "binding"
    BY DEF BindDone, Goto, journals, recovery
  <2>1. \A b \in journal[r] : bound[wid[r]][b] = r
    <3>1. PICK c \in journal[r] : IsTop(c, journal[r]) /\ bound[wid[r]][c] = r
      BY DEF BindDone
    <3>2. \A b \in journal[r] : b \in Nat
      BY BindNat DEF TypeOK
    <3> QED
      BY <3>1, <3>2, <2>0 DEF JournalsCover, JournalCovers, IsTop
  <2>2. \A q \in Reservation : (Mine(q)' <=> Mine(q)) /\ (ReleaseRuns(q)' <=> ReleaseRuns(q))
    BY <2>0 DEF Mine, ReleaseRuns, Starting, Stopping, Failing, TypeOK
  <2> SUFFICES ASSUME NEW q \in Reservation
               PROVE  JournalCovers(q)'
    BY <2>0 DEF JournalsCover
  <2> QED
    BY <2>0, <2>1, <2>2 DEF JournalsCover, JournalCovers, IsTop, TypeOK
<1>6. Ownership'
  BY ResNat, NextNat, SlotTypes, SlotFields, SlotShape
  DEF TypeOK, BindDone, Goto, Ownership, Unfinished, Mine, Minted, Minting,
     RecoveryOwners, ops, journals, recovery
<1>7. Marked'
  BY ResNat, NextNat, SlotTypes, SlotFields, SlotShape
  DEF TypeOK, BindDone, Goto, Marked, ReleaseRuns, Minting, Ownership, Unfinished,
     Mine, Held, ops, journals, recovery
<1>8. NeverAbandoned'
  BY ResNat, NextNat, SlotTypes, SlotFields, SlotShape
  DEF TypeOK, BindDone, Goto, NeverAbandoned, SlotOwners, SlotOwner, Held,
     Unfinished, Minted, Minting, RecoveryOwners, ops, journals, recovery
<1>9. RunningIntact'
  BY RunningFrame DEF BindDone, Goto, ops, journals, recovery
<1>10. Accounted'
  BY AccountedFrame DEF BindDone, Goto, ops, journals, recovery
<1> QED
  BY <1>1, <1>2, <1>3, <1>4, <1>5, <1>6, <1>7, <1>8, <1>9, <1>10
  DEF IndInv

\* Commit preserves the invariant.
LEMMA CommitInv ==
  ASSUME IndInv, NEW r \in Reservation, Commit(r)
  PROVE  IndInv'
<1> /\ TypeOK /\ Minting /\ SlotOwners /\ RecoveryOwners
    /\ JournalsCover /\ Ownership /\ Marked /\ NeverAbandoned
    /\ RunningIntact /\ Accounted
  BY DEF IndInv
<1>u. Unfinished(r)
  BY DEF Commit, Unfinished
<1>h. /\ r < next /\ wid[r] \in Ids /\ Held(wid[r]) /\ Mine(r)
      /\ slot[wid[r]] \in Slot /\ slot[wid[r]].r = r /\ kind[r] # "none"
  BY <1>u, Holder
<1>k. kind[r] = "start" /\ of[r] = r
  BY <1>h DEF Minting, Commit, TypeOK, Kinds
<1>s. slot' = [slot EXCEPT ![wid[r]] = Running(r)] /\ Running(r) \in Slot
  BY SlotTypes, Zero DEF Commit
<1>1. TypeOK'
  BY Zero, SlotTypes, SlotR, StopperTypes, NextNat
  DEF TypeOK, Commit, Goto, Kinds, PCs, Minting, SlotOwners, SlotOwner, ops,
     journals, recovery
<1>2. Minting'
  BY ResNat, NextNat DEF TypeOK, Commit, Goto, Minting, ops, journals, recovery
<1>3. SlotOwners'
  BY ResNat, NextNat, SlotTypes, SlotFields, SlotShape
  DEF TypeOK, Commit, Goto, SlotOwners, SlotOwner, Minting, Held, ops, journals,
     recovery
<1>4. RecoveryOwners'
  BY ResNat, NextNat, StopperTypes, Zero
  DEF TypeOK, Commit, Goto, RecoveryOwners, Minting, ops, journals, recovery
<1>5. JournalsCover'
  <2>0. /\ UNCHANGED <<next, kind, wid, of, journal, todo, err, serial, bound>>
        /\ pc' = [pc EXCEPT ![r] = "done"] /\ pc[r] = "native"
    BY DEF Commit, Goto, journals, recovery
  <2>1. ~Mine(r)' /\ ~ReleaseRuns(r)'
    BY <2>0, <1>s, <1>h, SlotFields DEF Mine, ReleaseRuns, RecoveryOwners, TypeOK,
       Starting, Stopping, Failing
  <2>2. \A q \in Reservation : q # r => (Mine(q)' => Mine(q))
    BY ZenonT(60), <2>0, <1>s, <1>h, MineElsewhere, SlotFields
  <2>3. JournalCovers(r)'
    BY <2>0, <2>1 DEF JournalCovers, TypeOK
  <2> QED
    BY <2>0, <2>2, <2>3, JournalsAt DEF TypeOK
<1>6. Ownership'
  <2>1. /\ ~Unfinished(r)'
        /\ \A q \in Reservation : q # r /\ Unfinished(q)' => Unfinished(q)
    BY <1>h, DoneFinishes DEF Commit, Goto, recovery
  <2> QED
    BY <2>1, <1>s, <1>h, OwnershipAt DEF Commit, Goto
<1>7. Marked'
  BY ResNat, NextNat, SlotTypes, SlotFields, SlotShape
  DEF TypeOK, Commit, Goto, Marked, ReleaseRuns, Minting, Ownership, Unfinished,
     Mine, Held, ops, journals, recovery
<1>8. NeverAbandoned'
  BY ResNat, NextNat, SlotTypes, SlotFields, SlotShape
  DEF TypeOK, Commit, Goto, NeverAbandoned, SlotOwners, SlotOwner, Held,
     Unfinished, Minted, Minting, RecoveryOwners, ops, journals, recovery
<1>9. RunningIntact'
  BY ResNat, NextNat, SlotTypes, SlotFields, SlotShape
  DEF TypeOK, Commit, Goto, RunningIntact, SlotOwners, SlotOwner, JournalsCover,
     JournalCovers, Ownership, Unfinished, Mine, ops, journals, recovery
<1>10. Accounted'
  <2>1. \A b \in Binding : bound[wid[r]][b] # 0 /\ ~FailedByPlugin(bound[wid[r]][b]) =>
          \/ Running(r) = Running(bound[wid[r]][b])
          \/ /\ Running(r).st \in {"starting", "stopping", "failing"}
             /\ of[Running(r).r] = bound[wid[r]][b]
    BY <1>h, <1>k, SlotFields DEF Accounted, Held
  <2>2. UNCHANGED <<bound, kind, of>>
    BY DEF Commit, Goto
  <2> QED
    BY <2>1, <2>2, <1>s, <1>h, AccountedSlot
<1> QED
  BY <1>1, <1>2, <1>3, <1>4, <1>5, <1>6, <1>7, <1>8, <1>9, <1>10
  DEF IndInv

\* Abort preserves the invariant.
LEMMA AbortInv ==
  ASSUME IndInv, NEW r \in Reservation, Abort(r)
  PROVE  IndInv'
<1> /\ TypeOK /\ Minting /\ SlotOwners /\ RecoveryOwners
    /\ JournalsCover /\ Ownership /\ Marked /\ NeverAbandoned
    /\ RunningIntact /\ Accounted
  BY DEF IndInv
<1>u. Unfinished(r)
  BY DEF Abort, Unfinished
<1>h. /\ r < next /\ wid[r] \in Ids /\ Held(wid[r]) /\ Mine(r)
      /\ slot[wid[r]] \in Slot /\ slot[wid[r]].r = r /\ kind[r] # "none"
  BY <1>u, Holder
<1>k. kind[r] = "start" /\ of[r] = r
  BY <1>h DEF Minting, Abort, TypeOK, Kinds
<1>s. PICK x \in {slot[wid[r]], Failing(r)} : slot' = [slot EXCEPT ![wid[r]] = x]
  BY <1>h DEF Abort, TypeOK
<1>x. x \in Slot /\ x.r = r /\ x \in {Starting(r), Stopping(r), Failing(r)}
  BY <1>s, <1>h, SlotTypes, SlotFields, Zero DEF Mine
<1>j. /\ journal' = journal
      /\ todo' = [todo EXCEPT ![r] = journal[r]] /\ err' = [err EXCEPT ![r] = FALSE]
      /\ pc' = [pc EXCEPT ![r] = "releasing"]
      /\ UNCHANGED <<next, kind, wid, of, retain, task, serial, recov, bound, stopper, host>>
  BY DEF Abort, BeginRelease, Goto, recovery, TypeOK
<1>1. TypeOK'
  BY <1>s, <1>x, <1>j DEF TypeOK, PCs
<1>2. Minting'
  BY ResNat, NextNat
  DEF TypeOK, Abort, Goto, BeginRelease, Minting, ops, journals, recovery
<1>3. SlotOwners'
  <2> SUFFICES ASSUME NEW i \in Ids PROVE SlotOwner(i)'
    BY DEF SlotOwners
  <2>1. CASE i = wid[r]
    BY <2>1, <1>s, <1>x, <1>j, <1>h, <1>k, SlotFields DEF SlotOwner, TypeOK, Held
  <2>2. CASE i # wid[r]
    <3>1. slot'[i] = slot[i] /\ (slot[i].st = "running" => slot[i].r # r)
      BY <2>2, <1>s, <1>h DEF TypeOK, SlotOwners, SlotOwner, Abort
    <3> QED
      BY <3>1, <1>j DEF SlotOwners, SlotOwner, TypeOK, Held, Free, Error
  <2> QED
    BY <2>1, <2>2
<1>4. RecoveryOwners'
  BY ResNat, NextNat, StopperTypes, Zero
  DEF TypeOK, Abort, Goto, BeginRelease, RecoveryOwners, Minting, ops, journals,
     recovery
<1>5. JournalsCover'
  <2>2. \A q \in Reservation : q # r => (Mine(q)' => Mine(q))
    BY <1>s, <1>x, <1>h, <1>j, MineElsewhere
  <2>3. Mine(r)
    BY <1>h
  <2>4. JournalCovers(r)'
    BY <2>3, <1>j DEF JournalsCover, JournalCovers, TypeOK
  <2> QED
    BY <2>2, <2>4, <1>j, JournalsAt DEF TypeOK
<1>6. Ownership'
  <2>1. \A q \in Reservation : q # r /\ Unfinished(q)' => Unfinished(q)
    BY <1>j DEF Unfinished, Minted, TypeOK
  <2> QED
    BY <2>1, <1>s, <1>x, <1>h, <1>j, OwnershipAt
<1>7. Marked'
  <2>1. x # Starting(r)
    BY SMTT(60), <1>s, <1>h, SlotFields DEF Abort, TypeOK
  <2>2. \A q \in Reservation : q # r =>
          ((ReleaseRuns(q) \/ pc[q] = "unbinding")' => ReleaseRuns(q) \/ pc[q] = "unbinding")
    BY <1>j DEF ReleaseRuns, TypeOK
  <2> QED
    BY <2>1, <2>2, <1>s, <1>x, <1>h, <1>j, MarkedAt
<1>8. NeverAbandoned'
  <2>1. \A q \in Reservation : Unfinished(q) => Unfinished(q)'
    BY <1>j DEF Unfinished, Minted, TypeOK
  <2> QED
    BY <2>1, <1>s, <1>x, <1>h, <1>u, <1>j, AbandonedAt
<1>9. RunningIntact'
  BY <1>s, <1>x, <1>j, SlotFields DEF RunningIntact, TypeOK
<1>10. Accounted'
  <2>1. \A b \in Binding : bound[wid[r]][b] # 0 /\ ~FailedByPlugin(bound[wid[r]][b]) =>
          \/ x = Running(bound[wid[r]][b])
          \/ /\ x.st \in {"starting", "stopping", "failing"}
             /\ of[x.r] = bound[wid[r]][b]
    BY <1>h, <1>x, SlotFields DEF Accounted, Held
  <2> QED
    BY <2>1, <1>s, <1>x, <1>j, <1>h, AccountedSlot
<1> QED
  BY <1>1, <1>2, <1>3, <1>4, <1>5, <1>6, <1>7, <1>8, <1>9, <1>10
  DEF IndInv

\* UnbindApply preserves the invariant.
LEMMA UnbindApplyInv ==
  ASSUME IndInv, NEW r \in Reservation, UnbindApply(r)
  PROVE  IndInv'
<1> /\ TypeOK /\ Minting /\ SlotOwners /\ RecoveryOwners
    /\ JournalsCover /\ Ownership /\ Marked /\ NeverAbandoned
    /\ RunningIntact /\ Accounted
  BY DEF IndInv
<1>u. Unfinished(r)
  BY DEF UnbindApply, Unfinished, ReleaseRuns
<1>h. /\ r < next /\ wid[r] \in Ids /\ Held(wid[r]) /\ Mine(r)
      /\ slot[wid[r]] \in Slot /\ slot[wid[r]].r = r /\ kind[r] # "none"
  BY <1>u, Holder
<1>b. PICK b \in todo[r] : bound' = [bound EXCEPT ![wid[r]][b] = 0] /\ b \in Binding
  BY DEF UnbindApply, TypeOK
<1>c. /\ bound' = [bound EXCEPT ![wid[r]][b] = 0] \/ bound' = bound
      /\ bound'[wid[r]][b] \in {0, bound[wid[r]][b]}
      /\ \A i \in Ids, c \in Binding : bound'[i][c] \in {0, bound[i][c]}
      /\ \A i \in Ids, c \in Binding : i # wid[r] => bound'[i][c] = bound[i][c]
  BY <1>b, <1>h DEF TypeOK
<1>e. UNCHANGED <<slot, next, kind, wid, of, pc, journal, err, retain, task, serial, recov, stopper, host>>
  BY DEF UnbindApply, ops, journals, recovery
<1>1. TypeOK'
  <2>1. bound' \in [Ids -> [Binding -> 0 .. MaxReservations]]
    BY <1>b, <1>c, <1>h, Zero DEF TypeOK
  <2> QED
    BY <2>1, <1>b, <1>e DEF TypeOK, UnbindApply, journals
<1>2. Minting'
  BY ResNat, NextNat DEF TypeOK, UnbindApply, Minting, ops, journals, recovery
<1>3. SlotOwners'
  BY ResNat, NextNat, SlotTypes, SlotFields, SlotShape
  DEF TypeOK, UnbindApply, SlotOwners, SlotOwner, Minting, Held, ops, journals,
     recovery
<1>4. RecoveryOwners'
  BY ResNat, NextNat, StopperTypes, Zero
  DEF TypeOK, UnbindApply, RecoveryOwners, Minting, ops, journals, recovery
<1>5. JournalsCover'
  <2>1. \A q \in Reservation : (Mine(q)' <=> Mine(q)) /\ (ReleaseRuns(q)' <=> ReleaseRuns(q))
    BY <1>e DEF Mine, ReleaseRuns, Starting, Stopping, Failing
  <2>2. \A i \in Ids, c \in Binding : bound'[i][c] < next
    <3>1. 0 < next
      BY ConstantsAssumption DEF TypeOK
    <3> QED
      BY <3>1, <1>c DEF JournalsCover
  <2> SUFFICES ASSUME NEW q \in Reservation PROVE JournalCovers(q)'
    BY <1>e, <2>2 DEF JournalsCover
  <2>3. pc[q] \in {"native", "binding"} => wid[q] \in Ids /\ wid[q] # wid[r]
    BY <1>h, Holder DEF Unfinished, UnbindApply, ReleaseRuns, RecoveryOwners
  <2>4. kind[q] # "none" => wid[q] \in Ids /\ of[q] # 0
    BY NextNat, ResNat DEF Minting, TypeOK
  <2>5. journal[q] \subseteq Binding /\ (ReleaseRuns(q) /\ ~err[q] => todo'[q] = todo[q])
    BY <1>b DEF TypeOK, UnbindApply, journals, ReleaseRuns, RecoveryOwners
  <2> QED
    BY <1>c, <1>e, <2>1, <2>3, <2>4, <2>5 DEF JournalsCover, JournalCovers, IsTop
<1>6. Ownership'
  BY ResNat, NextNat, SlotTypes, SlotFields, SlotShape
  DEF TypeOK, UnbindApply, Ownership, Unfinished, Mine, Minted, Minting,
     RecoveryOwners, ops, journals, recovery
<1>7. Marked'
  BY ResNat, NextNat, SlotTypes, SlotFields, SlotShape
  DEF TypeOK, UnbindApply, Marked, ReleaseRuns, Minting, Ownership, Unfinished,
     Mine, Held, ops, journals, recovery
<1>8. NeverAbandoned'
  BY ResNat, NextNat, SlotTypes, SlotFields, SlotShape
  DEF TypeOK, UnbindApply, NeverAbandoned, SlotOwners, SlotOwner, Held, Unfinished,
     Minted, Minting, RecoveryOwners, ops, journals, recovery
<1>9. RunningIntact'
  BY <1>c, <1>e, <1>h DEF RunningIntact, Held
<1>10. Accounted'
  <2> SUFFICES ASSUME NEW i \in Ids, NEW c \in Binding, bound'[i][c] # 0
               PROVE  \/ slot[i] = Running(bound'[i][c])
                      \/ Held(i) /\ of[slot[i].r] = bound'[i][c]
                      \/ FailedByPlugin(bound'[i][c])
    BY <1>e DEF Accounted, Held, FailedByPlugin, Running
  <2> QED
    BY <1>c DEF Accounted
<1> QED
  BY <1>1, <1>2, <1>3, <1>4, <1>5, <1>6, <1>7, <1>8, <1>9, <1>10
  DEF IndInv

\* UnbindOk preserves the invariant.
LEMMA UnbindOkInv ==
  ASSUME IndInv, NEW r \in Reservation, UnbindOk(r)
  PROVE  IndInv'
<1> /\ TypeOK /\ Minting /\ SlotOwners /\ RecoveryOwners
    /\ JournalsCover /\ Ownership /\ Marked /\ NeverAbandoned
    /\ RunningIntact /\ Accounted
  BY DEF IndInv
<1>u. Unfinished(r)
  BY DEF UnbindOk, Unfinished, ReleaseRuns
<1>h. /\ r < next /\ wid[r] \in Ids /\ Held(wid[r]) /\ Mine(r)
      /\ slot[wid[r]] \in Slot /\ slot[wid[r]].r = r /\ kind[r] # "none"
  BY <1>u, Holder
<1>b. PICK b \in todo[r] :
        /\ b \in Binding /\ bound[wid[r]][b] = 0
        /\ journal' = [journal EXCEPT ![r] = @ \ {b}]
        /\ todo' = [todo EXCEPT ![r] = @ \ {b}]
  BY DEF UnbindOk, TypeOK
<1>e. UNCHANGED <<slot, next, kind, wid, of, pc, err, retain, task, serial, recov, bound, stopper, host>>
  BY DEF UnbindOk, ops, recovery
<1>1. TypeOK'
  BY Zero, SlotTypes, SlotR, StopperTypes, NextNat
  DEF TypeOK, UnbindOk, Kinds, PCs, Minting, SlotOwners, SlotOwner, ops, journals,
     recovery
<1>2. Minting'
  BY ResNat, NextNat DEF TypeOK, UnbindOk, Minting, ops, journals, recovery
<1>3. SlotOwners'
  <2>1. pc[r] # "done"
    BY DEF UnbindOk, ReleaseRuns, RecoveryOwners
  <2> QED
    BY <2>1, <1>b, <1>e DEF SlotOwners, SlotOwner, Held, Free, Error, TypeOK
<1>4. RecoveryOwners'
  BY ResNat, NextNat, StopperTypes, Zero
  DEF TypeOK, UnbindOk, RecoveryOwners, Minting, ops, journals, recovery
<1>5. JournalsCover'
  <2>1. \A q \in Reservation : (Mine(q)' <=> Mine(q)) /\ (ReleaseRuns(q)' <=> ReleaseRuns(q))
    BY <1>e DEF Mine, ReleaseRuns, Starting, Stopping, Failing
  <2>2. pc[r] \in {"releasing", "dropped"} /\ of[r] # 0
    BY <1>h, NextNat, ResNat
    DEF UnbindOk, ReleaseRuns, RecoveryOwners, Minting, TypeOK
  <2>3. JournalCovers(r)'
    BY <2>1, <2>2, <1>b, <1>e DEF JournalsCover, JournalCovers, TypeOK
  <2> QED
    BY <2>1, <2>3, <1>b, <1>e, JournalsAt DEF TypeOK
<1>6. Ownership'
  BY ResNat, NextNat, SlotTypes, SlotFields, SlotShape
  DEF TypeOK, UnbindOk, Ownership, Unfinished, Mine, Minted, Minting,
     RecoveryOwners, ops, journals, recovery
<1>7. Marked'
  BY ResNat, NextNat, SlotTypes, SlotFields, SlotShape
  DEF TypeOK, UnbindOk, Marked, ReleaseRuns, Minting, Ownership, Unfinished, Mine,
     Held, ops, journals, recovery
<1>8. NeverAbandoned'
  BY ResNat, NextNat, SlotTypes, SlotFields, SlotShape
  DEF TypeOK, UnbindOk, NeverAbandoned, SlotOwners, SlotOwner, Held, Unfinished,
     Minted, Minting, RecoveryOwners, ops, journals, recovery
<1>9. RunningIntact'
  BY RunningFrame DEF UnbindOk, ops, journals, recovery
<1>10. Accounted'
  BY AccountedFrame DEF UnbindOk, ops, journals, recovery
<1> QED
  BY <1>1, <1>2, <1>3, <1>4, <1>5, <1>6, <1>7, <1>8, <1>9, <1>10
  DEF IndInv

\* UnbindErr preserves the invariant.
LEMMA UnbindErrInv ==
  ASSUME IndInv, NEW r \in Reservation, UnbindErr(r)
  PROVE  IndInv'
<1> /\ TypeOK /\ Minting /\ SlotOwners /\ RecoveryOwners
    /\ JournalsCover /\ Ownership /\ Marked /\ NeverAbandoned
    /\ RunningIntact /\ Accounted
  BY DEF IndInv
<1>1. TypeOK'
  BY Zero, SlotTypes, SlotR, StopperTypes, NextNat
  DEF TypeOK, UnbindErr, Kinds, PCs, Minting, SlotOwners, SlotOwner, ops, journals,
     recovery
<1>2. Minting'
  BY ResNat, NextNat DEF TypeOK, UnbindErr, Minting, ops, journals, recovery
<1>3. SlotOwners'
  BY ResNat, NextNat, SlotTypes, SlotFields, SlotShape
  DEF TypeOK, UnbindErr, SlotOwners, SlotOwner, Minting, Held, ops, journals,
     recovery
<1>4. RecoveryOwners'
  BY ResNat, NextNat, StopperTypes, Zero
  DEF TypeOK, UnbindErr, RecoveryOwners, Minting, ops, journals, recovery
<1>5. JournalsCover'
  BY ResNat, NextNat, SlotTypes, SlotFields, SlotShape
  DEF TypeOK, UnbindErr, JournalsCover, JournalCovers, Minting, Ownership,
     Unfinished, Mine, ReleaseRuns, ops, journals, recovery
<1>6. Ownership'
  BY ResNat, NextNat, SlotTypes, SlotFields, SlotShape
  DEF TypeOK, UnbindErr, Ownership, Unfinished, Mine, Minted, Minting,
     RecoveryOwners, ops, journals, recovery
<1>7. Marked'
  BY ResNat, NextNat, SlotTypes, SlotFields, SlotShape
  DEF TypeOK, UnbindErr, Marked, ReleaseRuns, Minting, Ownership, Unfinished, Mine,
     Held, ops, journals, recovery
<1>8. NeverAbandoned'
  BY ResNat, NextNat, SlotTypes, SlotFields, SlotShape
  DEF TypeOK, UnbindErr, NeverAbandoned, SlotOwners, SlotOwner, Held, Unfinished,
     Minted, Minting, RecoveryOwners, ops, journals, recovery
<1>9. RunningIntact'
  BY RunningFrame DEF UnbindErr, ops, journals, recovery
<1>10. Accounted'
  BY AccountedFrame DEF UnbindErr, ops, journals, recovery
<1> QED
  BY <1>1, <1>2, <1>3, <1>4, <1>5, <1>6, <1>7, <1>8, <1>9, <1>10
  DEF IndInv

\* ReleaseOk preserves the invariant.
LEMMA ReleaseOkInv ==
  ASSUME IndInv, NEW r \in Reservation, ReleaseOk(r)
  PROVE  IndInv'
<1> /\ TypeOK /\ Minting /\ SlotOwners /\ RecoveryOwners
    /\ JournalsCover /\ Ownership /\ Marked /\ NeverAbandoned
    /\ RunningIntact /\ Accounted
  BY DEF IndInv
<1>u. Unfinished(r)
  BY DEF ReleaseOk, Unfinished
<1>h. /\ r < next /\ wid[r] \in Ids /\ Held(wid[r]) /\ Mine(r)
      /\ slot[wid[r]] \in Slot /\ slot[wid[r]].r = r /\ kind[r] # "none"
  BY <1>u, Holder
<1>k. \A b \in Binding : bound[wid[r]][b] # of[r]
  <2>1. journal[r] = {} /\ kind[r] \in {"start", "stop"}
    BY SMTT(60), <1>h
    DEF ReleaseOk, ReleaseSucceeded, ReleaseRuns, JournalsCover, JournalCovers,
       Minting,
       RecoveryOwners, TypeOK, Kinds
  <2> QED
    BY <2>1, <1>h DEF JournalsCover, JournalCovers
<1>s. PICK x \in {Free, Error} : slot' = [slot EXCEPT ![wid[r]] = x]
  BY <1>h DEF ReleaseOk, FinishTeardown, TypeOK, Mine, Marked, ReleaseRuns
<1>x. x \in Slot /\ x.r = 0
  BY <1>s, SlotTypes, SlotFields
<1>1. TypeOK'
  BY Zero, SlotTypes, SlotR, StopperTypes, NextNat
  DEF TypeOK, ReleaseOk, Goto, FinishTeardown, ReleaseSucceeded, Kinds, PCs,
     Minting, SlotOwners, SlotOwner, ops, journals, recovery
<1>2. Minting'
  BY ResNat, NextNat
  DEF TypeOK, ReleaseOk, Goto, FinishTeardown, ReleaseSucceeded, Minting, ops,
     journals, recovery
<1>3. SlotOwners'
  BY ResNat, NextNat, SlotTypes, SlotFields, SlotShape
  DEF TypeOK, ReleaseOk, Goto, FinishTeardown, ReleaseSucceeded, SlotOwners,
     SlotOwner, Minting, Held, ops, journals, recovery
<1>4. RecoveryOwners'
  BY ResNat, NextNat, StopperTypes, Zero
  DEF TypeOK, ReleaseOk, Goto, FinishTeardown, ReleaseSucceeded, RecoveryOwners,
     Minting, ops, journals, recovery
<1>5. JournalsCover'
  BY ResNat, NextNat, SlotTypes, SlotFields, SlotShape
  DEF TypeOK, ReleaseOk, Goto, FinishTeardown, ReleaseSucceeded, JournalsCover,
     JournalCovers, Minting, Ownership, Unfinished, Mine, ReleaseRuns, ops,
     journals, recovery
<1>6. Ownership'
  <2>1. /\ ~Unfinished(r)'
        /\ \A q \in Reservation : q # r /\ Unfinished(q)' => Unfinished(q)
    BY <1>h, DoneFinishes DEF ReleaseOk, Goto, recovery
  <2> QED
    BY <2>1, <1>s, <1>h, OwnershipAt DEF ReleaseOk, Goto
<1>7. Marked'
  BY ResNat, NextNat, SlotTypes, SlotFields, SlotShape
  DEF TypeOK, ReleaseOk, Goto, FinishTeardown, ReleaseSucceeded, Marked,
     ReleaseRuns, Minting, Ownership, Unfinished, Mine, Held, ops, journals,
     recovery
<1>8. NeverAbandoned'
  <2>1. \A q \in Reservation : wid[q] # wid[r] /\ Unfinished(q) => Unfinished(q)'
    BY DEF ReleaseOk, Goto, Unfinished, Minted, recovery, TypeOK
  <2> QED
    BY <2>1, <1>s, <1>h, AbandonedAt, SlotFields DEF ReleaseOk
<1>9. RunningIntact'
  BY ResNat, NextNat, SlotTypes, SlotFields, SlotShape
  DEF TypeOK, ReleaseOk, Goto, FinishTeardown, ReleaseSucceeded, RunningIntact,
     SlotOwners, SlotOwner, JournalsCover, JournalCovers, Ownership, Unfinished,
     Mine, ops, journals, recovery
<1>10. Accounted'
  <2>1. \A b \in Binding : bound[wid[r]][b] # 0 => FailedByPlugin(bound[wid[r]][b])
    BY <1>h, <1>k, SlotFields DEF Accounted, Held
  <2>2. UNCHANGED <<bound, kind, of>>
    BY DEF ReleaseOk, Goto
  <2> QED
    BY <2>1, <2>2, <1>s, <1>x, <1>h, AccountedSlot
<1> QED
  BY <1>1, <1>2, <1>3, <1>4, <1>5, <1>6, <1>7, <1>8, <1>9, <1>10
  DEF IndInv

\* ReleaseErr preserves the invariant.
LEMMA ReleaseErrInv ==
  ASSUME IndInv, NEW r \in Reservation, ReleaseErr(r)
  PROVE  IndInv'
<1> /\ TypeOK /\ Minting /\ SlotOwners /\ RecoveryOwners
    /\ JournalsCover /\ Ownership /\ Marked /\ NeverAbandoned
    /\ RunningIntact /\ Accounted
  BY DEF IndInv
<1>u. Unfinished(r)
  BY DEF ReleaseErr, Unfinished
<1>h. /\ r < next /\ wid[r] \in Ids /\ Held(wid[r]) /\ Mine(r)
      /\ slot[wid[r]] \in Slot /\ slot[wid[r]].r = r /\ kind[r] # "none"
  BY <1>u, Holder
<1>1. TypeOK'
  <2>1. task' \in [Reservation -> BOOLEAN]
    BY DEF ReleaseErr, GuardDrop, TypeOK
  <2>2. retain' \in [Reservation -> BOOLEAN] /\ recov' \in [Ids -> 0 .. MaxReservations]
    BY Zero DEF ReleaseErr, GuardDrop, TypeOK
  <2> QED
    BY <2>1, <2>2 DEF ReleaseErr, GuardDrop, Goto, TypeOK, PCs, journals, ops
<1>2. Minting'
  BY ResNat, NextNat
  DEF TypeOK, ReleaseErr, Goto, GuardDrop, Minting, ops, journals, recovery
<1>3. SlotOwners'
  BY ResNat, NextNat, SlotTypes, SlotFields, SlotShape
  DEF TypeOK, ReleaseErr, Goto, GuardDrop, SlotOwners, SlotOwner, Minting, Held,
     ops, journals, recovery
<1>4. RecoveryOwners'
  <2>1. /\ pc' = [pc EXCEPT ![r] = "dropped"] /\ recov' = [recov EXCEPT ![wid[r]] = r]
        /\ UNCHANGED <<wid, next, serial, stopper, host>>
        /\ \A q \in Reservation : task'[q] => q = r \/ task[q]
    BY DEF ReleaseErr, GuardDrop, Goto, TypeOK
  <2>2. \A q \in Reservation : serial[q] # Nobody => q # r /\ wid[q] \in Ids /\ wid[q] # wid[r]
    BY <1>h, Holder DEF ReleaseErr, Unfinished, RecoveryOwners
  <2> QED
    BY <2>1, <2>2, <1>h DEF RecoveryOwners, TypeOK
<1>5. JournalsCover'
  BY ResNat, NextNat, SlotTypes, SlotFields, SlotShape
  DEF TypeOK, ReleaseErr, Goto, GuardDrop, JournalsCover, JournalCovers, Minting,
     Ownership, Unfinished, Mine, ReleaseRuns, ops, journals, recovery
<1>6. Ownership'
  BY ResNat, NextNat, SlotTypes, SlotFields, SlotShape
  DEF TypeOK, ReleaseErr, Goto, GuardDrop, Ownership, Unfinished, Mine, Minted,
     Minting, RecoveryOwners, ops, journals, recovery
<1>7. Marked'
  BY ResNat, NextNat, SlotTypes, SlotFields, SlotShape
  DEF TypeOK, ReleaseErr, Goto, GuardDrop, Marked, ReleaseRuns, Minting, Ownership,
     Unfinished, Mine, Held, ops, journals, recovery
<1>8. NeverAbandoned'
  <2>1. ASSUME NEW q \in Reservation, Unfinished(q) PROVE Unfinished(q)'
    <3>1. wid[q] = wid[r] => q = r
      BY <2>1, <1>h, Holder
    <3> QED
      BY <2>1, <3>1, <1>h
      DEF ReleaseErr, GuardDrop, Goto, Unfinished, Minted, TypeOK
  <2> QED
    BY <2>1, AbandonedFrame DEF ReleaseErr
<1>9. RunningIntact'
  BY RunningFrame DEF ReleaseErr, Goto, GuardDrop, ops, journals, recovery
<1>10. Accounted'
  BY AccountedFrame DEF ReleaseErr, Goto, GuardDrop, ops, journals, recovery
<1> QED
  BY <1>1, <1>2, <1>3, <1>4, <1>5, <1>6, <1>7, <1>8, <1>9, <1>10
  DEF IndInv

\* Cancel preserves the invariant.
LEMMA CancelInv ==
  ASSUME IndInv, NEW r \in Reservation, Cancel(r)
  PROVE  IndInv'
<1> /\ TypeOK /\ Minting /\ SlotOwners /\ RecoveryOwners
    /\ JournalsCover /\ Ownership /\ Marked /\ NeverAbandoned
    /\ RunningIntact /\ Accounted
  BY DEF IndInv
<1>u. Unfinished(r)
  BY DEF Cancel, Unfinished
<1>h. /\ r < next /\ wid[r] \in Ids /\ Held(wid[r]) /\ Mine(r)
      /\ slot[wid[r]] \in Slot /\ slot[wid[r]].r = r /\ kind[r] # "none"
  BY <1>u, Holder
<1>1. TypeOK'
  <2>1. task' \in [Reservation -> BOOLEAN]
    BY DEF Cancel, GuardDrop, TypeOK
  <2>2. retain' \in [Reservation -> BOOLEAN] /\ recov' \in [Ids -> 0 .. MaxReservations]
    BY Zero DEF Cancel, GuardDrop, TypeOK
  <2> QED
    BY <2>1, <2>2 DEF Cancel, GuardDrop, Goto, TypeOK, PCs, journals, ops
<1>2. Minting'
  BY ResNat, NextNat
  DEF TypeOK, Cancel, Goto, GuardDrop, Minting, ops, journals, recovery
<1>3. SlotOwners'
  BY ResNat, NextNat, SlotTypes, SlotFields, SlotShape
  DEF TypeOK, Cancel, Goto, GuardDrop, SlotOwners, SlotOwner, Minting, Held, ops,
     journals, recovery
<1>4. RecoveryOwners'
  <2>1. /\ pc' = [pc EXCEPT ![r] = "dropped"] /\ recov' = [recov EXCEPT ![wid[r]] = r]
        /\ UNCHANGED <<wid, next, serial, stopper, host>>
        /\ \A q \in Reservation : task'[q] => q = r \/ task[q]
    BY DEF Cancel, GuardDrop, Goto, TypeOK
  <2>2. \A q \in Reservation : serial[q] # Nobody => q # r /\ wid[q] \in Ids /\ wid[q] # wid[r]
    BY <1>h, Holder DEF Cancel, Unfinished, RecoveryOwners
  <2> QED
    BY <2>1, <2>2, <1>h DEF RecoveryOwners, TypeOK
<1>5. JournalsCover'
  BY ResNat, NextNat, SlotTypes, SlotFields, SlotShape
  DEF TypeOK, Cancel, Goto, GuardDrop, JournalsCover, JournalCovers, Minting,
     Ownership, Unfinished, Mine, ReleaseRuns, ops, journals, recovery
<1>6. Ownership'
  BY ResNat, NextNat, SlotTypes, SlotFields, SlotShape
  DEF TypeOK, Cancel, Goto, GuardDrop, Ownership, Unfinished, Mine, Minted,
     Minting, RecoveryOwners, ops, journals, recovery
<1>7. Marked'
  BY ResNat, NextNat, SlotTypes, SlotFields, SlotShape
  DEF TypeOK, Cancel, Goto, GuardDrop, Marked, ReleaseRuns, Minting, Ownership,
     Unfinished, Mine, Held, ops, journals, recovery
<1>8. NeverAbandoned'
  <2>1. ASSUME NEW q \in Reservation, Unfinished(q) PROVE Unfinished(q)'
    <3>1. wid[q] = wid[r] => q = r
      BY <2>1, <1>h, Holder
    <3> QED
      BY <2>1, <3>1, <1>h DEF Cancel, GuardDrop, Goto, Unfinished, Minted, TypeOK
  <2> QED
    BY <2>1, AbandonedFrame DEF Cancel
<1>9. RunningIntact'
  BY RunningFrame DEF Cancel, Goto, GuardDrop, ops, journals, recovery
<1>10. Accounted'
  BY AccountedFrame DEF Cancel, Goto, GuardDrop, ops, journals, recovery
<1> QED
  BY <1>1, <1>2, <1>3, <1>4, <1>5, <1>6, <1>7, <1>8, <1>9, <1>10
  DEF IndInv

\* RecoverGone preserves the invariant.
LEMMA RecoverGoneInv ==
  ASSUME IndInv, NEW r \in Reservation, NEW x \in Stoppers \cup {Task}, RecoverGone(r, x)
  PROVE  IndInv'
<1> /\ TypeOK /\ Minting /\ SlotOwners /\ RecoveryOwners
    /\ JournalsCover /\ Ownership /\ Marked /\ NeverAbandoned
    /\ RunningIntact /\ Accounted
  BY DEF IndInv
<1>e. UNCHANGED <<slot, next, kind, wid, of, pc, journal, todo, err, retain, serial, recov, bound, host>>
  BY DEF RecoverGone, ops, journals
<1>r. /\ task' \in [Reservation -> BOOLEAN] /\ stopper' \in [Stoppers -> Stopper]
      /\ \A q \in Reservation : task'[q] => task[q]
      /\ \A s \in Stoppers : s # x => stopper'[s] = stopper[s]
      /\ x \in Stoppers => stopper'[x].pc = "collect" /\ stopper'[x].id \in Ids
  BY ZenonT(60), ReturnFacts, ConstantsAssumption DEF RecoverGone, Callers
<1>1. TypeOK'
  BY <1>e, <1>r DEF TypeOK
<1>2. Minting'
  BY <1>e, <1>r DEF Minting
<1>3. SlotOwners'
  BY ResNat, NextNat, SlotTypes, SlotFields, SlotShape
  DEF TypeOK, RecoverGone, Callers, Return, SlotOwners, SlotOwner, Minting, Held,
     ops, journals, recovery
<1>4. RecoveryOwners'
  <2>1. \A q \in Reservation : serial[q] \in Stoppers => serial[q] # x
    BY ConstantsAssumption DEF RecoverGone, Callers, RecoveryOwners
  <2> QED
    BY <2>1, <1>e, <1>r DEF RecoveryOwners
<1>5. JournalsCover'
  BY ResNat, NextNat, SlotTypes, SlotFields, SlotShape
  DEF TypeOK, RecoverGone, Callers, Return, JournalsCover, JournalCovers, Minting,
     Ownership, Unfinished, Mine, ReleaseRuns, ops, journals, recovery
<1>6. Ownership'
  BY ResNat, NextNat, SlotTypes, SlotFields, SlotShape
  DEF TypeOK, RecoverGone, Callers, Return, Ownership, Unfinished, Mine, Minted,
     Minting, RecoveryOwners, ops, journals, recovery
<1>7. Marked'
  BY ResNat, NextNat, SlotTypes, SlotFields, SlotShape
  DEF TypeOK, RecoverGone, Callers, Return, Marked, ReleaseRuns, Minting,
     Ownership, Unfinished, Mine, Held, ops, journals, recovery
<1>8. NeverAbandoned'
  BY ResNat, NextNat, SlotTypes, SlotFields, SlotShape
  DEF TypeOK, RecoverGone, Callers, Return, NeverAbandoned, SlotOwners, SlotOwner,
     Held, Unfinished, Minted, Minting, RecoveryOwners, ops, journals, recovery
<1>9. RunningIntact'
  BY RunningFrame DEF RecoverGone, Callers, Return, ops, journals, recovery
<1>10. Accounted'
  BY AccountedFrame DEF RecoverGone, Callers, Return, ops, journals, recovery
<1> QED
  BY <1>1, <1>2, <1>3, <1>4, <1>5, <1>6, <1>7, <1>8, <1>9, <1>10
  DEF IndInv

\* RecoverBegin preserves the invariant.
LEMMA RecoverBeginInv ==
  ASSUME IndInv, NEW r \in Reservation, NEW x \in Stoppers \cup {Task}, RecoverBegin(r, x)
  PROVE  IndInv'
<1> /\ TypeOK /\ Minting /\ SlotOwners /\ RecoveryOwners
    /\ JournalsCover /\ Ownership /\ Marked /\ NeverAbandoned
    /\ RunningIntact /\ Accounted
  BY DEF IndInv
<1>d. /\ x \in Callers(r) /\ serial[r] = Nobody /\ recov[wid[r]] = r
      /\ UNCHANGED <<next, kind, wid, of, pc, retain, bound, host>>
  BY DEF RecoverBegin, ops
<1>p. pc[r] = "dropped" /\ kind[r] # "none"
  <2>1. pc[r] = "dropped"
    BY <1>d DEF Callers, RecoveryOwners
  <2> QED
    BY <2>1, ResNat, NextNat DEF Minting
<1>u. Unfinished(r)
  BY <1>d, <1>p DEF Unfinished, Minted
<1>h. /\ r < next /\ wid[r] \in Ids /\ Held(wid[r]) /\ Mine(r)
      /\ slot[wid[r]] \in Slot /\ slot[wid[r]].r = r /\ kind[r] # "none"
  BY <1>u, Holder
<1>s. PICK y \in {Stopping(r), Failing(r)} :
        /\ slot' = [slot EXCEPT ![wid[r]] = y]
        /\ y = Failing(r) => y = slot[wid[r]]
  BY <1>h, SlotFields DEF RecoverBegin, TypeOK
<1>x. y \in Slot /\ y.r = r /\ y \in {Starting(r), Stopping(r), Failing(r)} /\ y # Starting(r)
      /\ y.st \in {"stopping", "failing"}
  BY <1>s, SlotTypes, SlotFields, Zero
<1>j. /\ todo' = [todo EXCEPT ![r] = journal[r]] /\ err' = [err EXCEPT ![r] = FALSE]
      /\ serial' = [serial EXCEPT ![r] = x]
      /\ UNCHANGED <<journal, task, recov, stopper>>
  BY <1>h DEF RecoverBegin, BeginRelease, TypeOK
<1>1. TypeOK'
  BY <1>d, <1>s, <1>x, <1>j DEF TypeOK
<1>2. Minting'
  BY <1>d, <1>h, <1>j, ResNat, NextNat DEF Minting, TypeOK
<1>3. SlotOwners'
  <2> SUFFICES ASSUME NEW i \in Ids PROVE SlotOwner(i)'
    BY DEF SlotOwners
  <2>1. CASE i = wid[r]
    BY <2>1, <1>s, <1>x, <1>d, <1>h, SlotFields
    DEF SlotOwners, SlotOwner, TypeOK, Held
  <2>2. CASE i # wid[r]
    <3>1. slot'[i] = slot[i]
      BY <2>2, <1>s DEF TypeOK
    <3> QED
      BY <3>1, <1>d, <1>j DEF SlotOwners, SlotOwner, Held, Free, Error
  <2> QED
    BY <2>1, <2>2
<1>4. RecoveryOwners'
  BY <1>d, <1>p, <1>j, ConstantsAssumption DEF RecoveryOwners, Callers, TypeOK
<1>5. JournalsCover'
  <2>1. \A q \in Reservation : q # r => (Mine(q)' => Mine(q))
    BY <1>s, <1>x, <1>h, <1>d, MineElsewhere
  <2>2. JournalCovers(r)'
    BY <1>h, <1>d, <1>j, <1>p DEF JournalsCover, JournalCovers, TypeOK
  <2> QED
    BY <2>1, <2>2, <1>d, <1>j, JournalsAt DEF TypeOK
<1>6. Ownership'
  <2>1. \A q \in Reservation : q # r /\ Unfinished(q)' => Unfinished(q)
    BY <1>d, <1>j DEF Unfinished, Minted, TypeOK
  <2> QED
    BY <2>1, <1>s, <1>x, <1>h, <1>d, OwnershipAt
<1>7. Marked'
  <2>1. \A q \in Reservation : q # r =>
          ((ReleaseRuns(q) \/ pc[q] = "unbinding")' => ReleaseRuns(q) \/ pc[q] = "unbinding")
    BY <1>d, <1>j DEF ReleaseRuns, TypeOK
  <2> QED
    BY <2>1, <1>s, <1>x, <1>h, <1>d, MarkedAt
<1>8. NeverAbandoned'
  <2>1. \A q \in Reservation : Unfinished(q) => Unfinished(q)'
    BY <1>d, <1>j, ConstantsAssumption DEF Unfinished, Minted, TypeOK
  <2> QED
    BY <2>1, <1>s, <1>x, <1>h, <1>u, <1>d, AbandonedAt
<1>9. RunningIntact'
  BY <1>s, <1>x, <1>d DEF RunningIntact, TypeOK
<1>10. Accounted'
  <2>1. \A b \in Binding : bound[wid[r]][b] # 0 /\ ~FailedByPlugin(bound[wid[r]][b]) =>
          \/ y = Running(bound[wid[r]][b])
          \/ /\ y.st \in {"starting", "stopping", "failing"}
             /\ of[y.r] = bound[wid[r]][b]
    BY <1>h, <1>x, SlotFields DEF Accounted, Held
  <2> QED
    BY <2>1, <1>s, <1>x, <1>d, <1>h, AccountedSlot
<1> QED
  BY <1>1, <1>2, <1>3, <1>4, <1>5, <1>6, <1>7, <1>8, <1>9, <1>10
  DEF IndInv

\* RecoverErr preserves the invariant.
LEMMA RecoverErrInv ==
  ASSUME IndInv, NEW r \in Reservation, RecoverErr(r)
  PROVE  IndInv'
<1> /\ TypeOK /\ Minting /\ SlotOwners /\ RecoveryOwners
    /\ JournalsCover /\ Ownership /\ Marked /\ NeverAbandoned
    /\ RunningIntact /\ Accounted
  BY DEF IndInv
<1>u. Unfinished(r)
  BY DEF RecoverErr, Unfinished
<1>h. /\ r < next /\ wid[r] \in Ids /\ Held(wid[r]) /\ Mine(r)
      /\ slot[wid[r]] \in Slot /\ slot[wid[r]].r = r /\ kind[r] # "none"
  BY <1>u, Holder
<1>e. /\ UNCHANGED <<slot, next, kind, wid, of, pc, journal, todo, err, retain, recov, bound, host>>
      /\ serial' = [serial EXCEPT ![r] = Nobody]
  BY DEF RecoverErr, ops, journals
<1>r. /\ task' \in [Reservation -> BOOLEAN] /\ stopper' \in [Stoppers -> Stopper]
      /\ \A q \in Reservation : task'[q] => task[q]
      /\ \A s \in Stoppers : s # serial[r] => stopper'[s] = stopper[s]
      /\ serial[r] \in Stoppers => /\ stopper'[serial[r]].pc = "collect"
                                    /\ stopper'[serial[r]].id \in Ids
  <2>1. serial[r] \in Stoppers \cup {Task}
    BY DEF RecoverErr, TypeOK
  <2>2. serial[r] \in Stoppers => stopper[serial[r]].pc = "recover" /\ stopper[serial[r]].r = r
    BY DEF RecoveryOwners
  <2>3. Return(r, serial[r], FALSE)
    BY DEF RecoverErr
  <2> QED
    BY <2>1, <2>2, <2>3, ReturnFacts
<1>1. TypeOK'
  BY <1>e, <1>r DEF TypeOK
<1>2. Minting'
  BY <1>e, <1>r DEF Minting, TypeOK
<1>3. SlotOwners'
  BY ResNat, NextNat, SlotTypes, SlotFields, SlotShape
  DEF TypeOK, RecoverErr, Return, SlotOwners, SlotOwner, Minting, Held, ops,
     journals, recovery
<1>4. RecoveryOwners'
  <2>1. \A q \in Reservation : q # r /\ serial[q] \in Stoppers => serial[q] # serial[r]
    BY DEF RecoveryOwners
  <2>2. \A s \in Stoppers : s # serial[r] \/ (stopper'[s].pc = "collect" /\ stopper'[s].id \in Ids)
    BY <1>r
  <2> QED
    BY <2>1, <2>2, <1>e, <1>r, ConstantsAssumption DEF RecoveryOwners, TypeOK
<1>5. JournalsCover'
  BY ResNat, NextNat, SlotTypes, SlotFields, SlotShape
  DEF TypeOK, RecoverErr, Return, JournalsCover, JournalCovers, Minting, Ownership,
     Unfinished, Mine, ReleaseRuns, ops, journals, recovery
<1>6. Ownership'
  BY ResNat, NextNat, SlotTypes, SlotFields, SlotShape
  DEF TypeOK, RecoverErr, Return, Ownership, Unfinished, Mine, Minted, Minting,
     RecoveryOwners, ops, journals, recovery
<1>7. Marked'
  BY ResNat, NextNat, SlotTypes, SlotFields, SlotShape
  DEF TypeOK, RecoverErr, Return, Marked, ReleaseRuns, Minting, Ownership,
     Unfinished, Mine, Held, ops, journals, recovery
<1>8. NeverAbandoned'
  <2>1. recov[wid[r]] = r \/ host = "stopped"
    BY DEF RecoveryOwners, RecoverErr
  <2>2. \A q \in Reservation : host # "stopped" /\ Unfinished(q) => Unfinished(q)'
    BY <2>1, <1>h, <1>e DEF Unfinished, Minted, TypeOK
  <2> QED
    BY <2>2, <1>e, AbandonedFrame
<1>9. RunningIntact'
  BY RunningFrame DEF RecoverErr, Return, ops, journals, recovery
<1>10. Accounted'
  BY AccountedFrame DEF RecoverErr, Return, ops, journals, recovery
<1> QED
  BY <1>1, <1>2, <1>3, <1>4, <1>5, <1>6, <1>7, <1>8, <1>9, <1>10
  DEF IndInv

\* RecoverOk preserves the invariant.
LEMMA RecoverOkInv ==
  ASSUME IndInv, NEW r \in Reservation, RecoverOk(r)
  PROVE  IndInv'
<1> /\ TypeOK /\ Minting /\ SlotOwners /\ RecoveryOwners
    /\ JournalsCover /\ Ownership /\ Marked /\ NeverAbandoned
    /\ RunningIntact /\ Accounted
  BY DEF IndInv
<1>u. Unfinished(r)
  BY DEF RecoverOk, Unfinished
<1>h. /\ r < next /\ wid[r] \in Ids /\ Held(wid[r]) /\ Mine(r)
      /\ slot[wid[r]] \in Slot /\ slot[wid[r]].r = r /\ kind[r] # "none"
  BY <1>u, Holder
<1>p. pc[r] = "dropped" /\ kind[r] \in {"start", "stop"}
  <2>1. pc[r] = "dropped"
    BY DEF RecoverOk, RecoveryOwners
  <2>2. kind[r] # "fail" /\ kind[r] \in Kinds
    BY <2>1 DEF Minting, TypeOK
  <2> QED
    BY <2>1, <2>2, <1>h DEF Kinds
<1>m. slot[wid[r]] \in {Stopping(r), Failing(r)}
  BY <1>h DEF Mine, Marked, ReleaseRuns, RecoverOk
<1>s. PICK y \in {Free, Error} : slot' = [slot EXCEPT ![wid[r]] = y]
  BY <1>h, <1>m DEF RecoverOk, FinishTeardown, TypeOK
<1>x. y \in Slot /\ y.r = 0 /\ y.st \in {"free", "error"}
  BY <1>s, SlotTypes, SlotFields
<1>e. /\ UNCHANGED <<next, kind, wid, of, pc, journal, todo, err, retain, bound, host>>
      /\ serial' = [serial EXCEPT ![r] = Nobody]
      /\ recov' = [recov EXCEPT ![wid[r]] = IF @ = r THEN 0 ELSE @]
  BY <1>m DEF RecoverOk, Forget, ops, journals
<1>f. /\ recov'[wid[r]] \in {0, recov[wid[r]]} /\ recov'[wid[r]] # r
      /\ \A i \in Ids : i # wid[r] => recov'[i] = recov[i]
      /\ recov' \in [Ids -> 0 .. MaxReservations]
  BY <1>e, <1>h, ResNat, Zero DEF TypeOK
<1>g. ~Unfinished(r)' /\ \A q \in Reservation : q # r /\ Unfinished(q)' => Unfinished(q)
  <2>1. ~Unfinished(r)'
    BY <1>e, <1>f, <1>p, <1>h DEF Unfinished, TypeOK
  <2>2. ASSUME NEW q \in Reservation, q # r, Unfinished(q)' PROVE Unfinished(q)
    <3>1. Minted(q) => wid[q] \in Ids
      BY NextNat, ResNat DEF Minting, Minted
    <3> QED
      BY <2>2, <3>1, <1>e, <1>f, ResNat DEF Unfinished, Minted, TypeOK
  <2> QED
    BY <2>1, <2>2
<1>r. /\ task' \in [Reservation -> BOOLEAN] /\ stopper' \in [Stoppers -> Stopper]
      /\ \A q \in Reservation : task'[q] => task[q]
      /\ \A s \in Stoppers : s # serial[r] => stopper'[s] = stopper[s]
      /\ serial[r] \in Stoppers => /\ stopper'[serial[r]].pc = "collect"
                                    /\ stopper'[serial[r]].id \in Ids
  <2>1. serial[r] \in Stoppers \cup {Task}
    BY DEF RecoverOk, TypeOK
  <2>2. serial[r] \in Stoppers => stopper[serial[r]].pc = "recover" /\ stopper[serial[r]].r = r
    BY DEF RecoveryOwners
  <2>3. Return(r, serial[r], TRUE)
    BY DEF RecoverOk
  <2> QED
    BY <2>1, <2>2, <2>3, ReturnFacts
<1>1. TypeOK'
  BY <1>e, <1>f, <1>r, <1>s, <1>x DEF TypeOK
<1>2. Minting'
  BY <1>e, <1>r DEF Minting, TypeOK
<1>3. SlotOwners'
  <2> SUFFICES ASSUME NEW i \in Ids PROVE SlotOwner(i)'
    BY DEF SlotOwners
  <2>1. CASE i = wid[r]
    BY <2>1, <1>s, <1>x, <1>h, SlotFields DEF SlotOwner, TypeOK, Held, Free, Error
  <2>2. CASE i # wid[r]
    <3>1. slot'[i] = slot[i]
      BY <2>2, <1>s DEF TypeOK
    <3> QED
      BY <3>1, <1>e DEF SlotOwners, SlotOwner, Held, Free, Error
  <2> QED
    BY <2>1, <2>2
<1>4. RecoveryOwners'
  <2>1. \A q \in Reservation : q # r /\ serial[q] \in Stoppers => serial[q] # serial[r]
    BY DEF RecoveryOwners
  <2>2. \A s \in Stoppers : s # serial[r] \/ (stopper'[s].pc = "collect" /\ stopper'[s].id \in Ids)
    BY <1>r
  <2>3. \A q \in Reservation : q # r /\ serial[q] # Nobody => wid[q] \in Ids /\ wid[q] # wid[r]
    BY <1>h, Holder DEF Unfinished
  <2>4. \A i \in Ids : recov'[i] # 0 => recov'[i] = recov[i]
    BY <1>f
  <2> QED
    BY <2>1, <2>2, <2>3, <2>4, <1>e, <1>f, <1>r, ConstantsAssumption
    DEF RecoveryOwners, TypeOK
<1>5. JournalsCover'
  <2>1. \A q \in Reservation : q # r => (Mine(q)' => Mine(q))
    BY <1>s, <1>x, <1>h, <1>e, MineElsewhere
  <2>2. ~ReleaseRuns(r)'
    BY <1>e, <1>p DEF ReleaseRuns, TypeOK
  <2>3. JournalCovers(r)'
    BY <1>h, <1>e, <1>p, <2>2 DEF JournalsCover, JournalCovers, TypeOK
  <2> QED
    BY <2>1, <2>3, <1>e, JournalsAt DEF TypeOK
<1>6. Ownership'
  BY <1>g, <1>s, <1>h, <1>e, OwnershipAt
<1>7. Marked'
  <2>1. \A q \in Reservation : q # r =>
          ((ReleaseRuns(q) \/ pc[q] = "unbinding")' => ReleaseRuns(q) \/ pc[q] = "unbinding")
    BY <1>e DEF ReleaseRuns, TypeOK
  <2>2. y # Starting(r)
    BY <1>x, SlotFields
  <2> QED
    BY <2>1, <2>2, <1>s, <1>x, <1>h, <1>e, MarkedAt
<1>8. NeverAbandoned'
  <2>1. ASSUME NEW q \in Reservation, wid[q] # wid[r], Unfinished(q)
        PROVE  Unfinished(q)'
    <3>1. wid[q] \in Ids
      BY <2>1, Holder
    <3> QED
      BY <2>1, <3>1, <1>e, <1>f DEF Unfinished, Minted, TypeOK
  <2> QED
    BY <2>1, <1>s, <1>x, <1>h, <1>e, AbandonedAt
<1>9. RunningIntact'
  BY <1>s, <1>x, <1>e DEF RunningIntact, TypeOK
<1>10. Accounted'
  <2>1. journal[r] = {}
    BY
    DEF RecoverOk, ReleaseSucceeded, ReleaseRuns, JournalsCover, JournalCovers,
       TypeOK
  <2>2. \A b \in Binding : bound[wid[r]][b] # of[r]
    BY <2>1, <1>h, <1>p DEF JournalsCover, JournalCovers
  <2>3. \A b \in Binding : bound[wid[r]][b] # 0 => FailedByPlugin(bound[wid[r]][b])
    BY <2>2, <1>h, <1>m, SlotFields DEF Accounted, Held
  <2> QED
    BY <2>3, <1>s, <1>x, <1>h, <1>e, AccountedSlot
<1> QED
  BY <1>1, <1>2, <1>3, <1>4, <1>5, <1>6, <1>7, <1>8, <1>9, <1>10
  DEF IndInv

\* StopBegin preserves the invariant.
LEMMA StopBeginInv ==
  ASSUME IndInv, NEW s \in Stoppers, NEW id \in Ids, StopBegin(s, id)
  PROVE  IndInv'
<1> /\ TypeOK /\ Minting /\ SlotOwners /\ RecoveryOwners
    /\ JournalsCover /\ Ownership /\ Marked /\ NeverAbandoned
    /\ RunningIntact /\ Accounted
  BY DEF IndInv
<1>1. TypeOK'
  BY Zero, SlotTypes, SlotR, StopperTypes, NextNat
  DEF TypeOK, StopBegin, Kinds, PCs, Minting, SlotOwners, SlotOwner, ops, journals,
     recovery
<1>2. Minting'
  BY ResNat, NextNat DEF TypeOK, StopBegin, Minting, ops, journals, recovery
<1>3. SlotOwners'
  BY ResNat, NextNat, SlotTypes, SlotFields, SlotShape
  DEF TypeOK, StopBegin, SlotOwners, SlotOwner, Minting, Held, ops, journals,
     recovery
<1>4. RecoveryOwners'
  <2>1. /\ \A t \in Stoppers : t # s => stopper'[t] = stopper[t]
        /\ UNCHANGED <<next, pc, wid, task, serial, recov, host>>
        /\ \A q \in Reservation : serial[q] # s
    BY DEF StopBegin, ops, recovery, TypeOK, RecoveryOwners
  <2>2. /\ stopper'[s].id = id
        /\ stopper'[s].pc = "recover" => stopper'[s].r = recov[id] /\ recov[id] # 0
    BY DEF StopBegin, TypeOK
  <2>3. recov[id] # 0 => recov[id] \in Reservation
    BY ConstantsAssumption DEF TypeOK, Reservation
  <2> QED
    BY <2>1, <2>2, <2>3 DEF RecoveryOwners
<1>5. JournalsCover'
  BY ResNat, NextNat, SlotTypes, SlotFields, SlotShape
  DEF TypeOK, StopBegin, JournalsCover, JournalCovers, Minting, Ownership,
     Unfinished, Mine, ReleaseRuns, ops, journals, recovery
<1>6. Ownership'
  BY ResNat, NextNat, SlotTypes, SlotFields, SlotShape
  DEF TypeOK, StopBegin, Ownership, Unfinished, Mine, Minted, Minting,
     RecoveryOwners, ops, journals, recovery
<1>7. Marked'
  BY ResNat, NextNat, SlotTypes, SlotFields, SlotShape
  DEF TypeOK, StopBegin, Marked, ReleaseRuns, Minting, Ownership, Unfinished, Mine,
     Held, ops, journals, recovery
<1>8. NeverAbandoned'
  BY ResNat, NextNat, SlotTypes, SlotFields, SlotShape
  DEF TypeOK, StopBegin, NeverAbandoned, SlotOwners, SlotOwner, Held, Unfinished,
     Minted, Minting, RecoveryOwners, ops, journals, recovery
<1>9. RunningIntact'
  BY RunningFrame DEF StopBegin, ops, journals, recovery
<1>10. Accounted'
  BY AccountedFrame DEF StopBegin, ops, journals, recovery
<1> QED
  BY <1>1, <1>2, <1>3, <1>4, <1>5, <1>6, <1>7, <1>8, <1>9, <1>10
  DEF IndInv

\* StopRunning preserves the invariant.
LEMMA StopRunningInv ==
  ASSUME IndInv, NEW s \in Stoppers, StopRunning(s)
  PROVE  IndInv'
<1> /\ TypeOK /\ Minting /\ SlotOwners /\ RecoveryOwners
    /\ JournalsCover /\ Ownership /\ Marked /\ NeverAbandoned
    /\ RunningIntact /\ Accounted
  BY DEF IndInv
<1>i. PICK id \in Ids : id = stopper[s].id
  BY DEF StopRunning, RecoveryOwners
<1>w. PICK w \in Reservation : /\ w = slot[id].r /\ slot[id].st = "running" /\ w < next
                               /\ journal[w] = Binding /\ w \in 1 .. next
  BY <1>i, ResNat, NextNat DEF StopRunning, SlotOwners, SlotOwner
<1>a. /\ next \in Reservation /\ slot' = [slot EXCEPT ![id] = Stopping(next)]
      /\ Stopping(next) \in Slot /\ next' = next + 1 /\ next \in Nat
  BY <1>i, NextNat, SlotTypes, Zero DEF StopRunning, Mint
<1>b. \A q \in Reservation : q # next =>
        /\ kind'[q] = kind[q] /\ of'[q] = of[q] /\ wid'[q] = wid[q] /\ pc'[q] = pc[q]
        /\ journal'[q] = journal[q] /\ todo'[q] = todo[q] /\ err'[q] = err[q]
  BY DEF StopRunning, Mint, BeginRelease, TypeOK
<1>c. /\ kind'[next] = "stop" /\ of'[next] = w /\ wid'[next] = id /\ pc'[next] = "releasing"
      /\ journal'[next] = Binding /\ todo'[next] = Binding /\ ~err'[next]
  BY <1>i, <1>a, <1>w DEF StopRunning, Mint, BeginRelease, TypeOK
<1>d. kind[next] = "none" /\ pc[next] = "idle" /\ serial[next] = Nobody
  BY <1>a DEF Minting
<1>e. UNCHANGED <<retain, task, serial, recov, bound, host>>
  BY DEF StopRunning, recovery
<1>n. \A q \in Reservation : q < next => q # next /\ q < next'
  BY <1>a, ResNat
<1>1. TypeOK'
  <2>1. /\ slot' \in [Ids -> Slot] /\ next' \in 1 .. MaxReservations + 1
    BY <1>a, NextNat DEF TypeOK
  <2>2. kind' \in [Reservation -> Kinds] /\ pc' \in [Reservation -> PCs]
    BY DEF StopRunning, Mint, TypeOK, Kinds, PCs
  <2>3. wid' \in [Reservation -> Ids \cup {NoId}] /\ of' \in [Reservation -> 0 .. MaxReservations]
    BY <1>i, <1>w, Zero DEF StopRunning, Mint, TypeOK
  <2>4. journal' \in [Reservation -> SUBSET Binding] /\ todo' \in [Reservation -> SUBSET Binding]
    BY <1>i, <1>w DEF StopRunning, BeginRelease, TypeOK
  <2>5. err' \in [Reservation -> BOOLEAN] /\ stopper' \in [Stoppers -> Stopper]
    BY StopperTypes DEF StopRunning, BeginRelease, TypeOK
  <2> QED
    BY <2>1, <2>2, <2>3, <2>4, <2>5, <1>e DEF TypeOK
<1>2. Minting'
  <2> SUFFICES ASSUME NEW q \in Reservation
               PROVE  (/\ q >= next => /\ kind[q] = "none" /\ pc[q] = "idle"
                                       /\ serial[q] = Nobody /\ ~task[q] /\ journal[q] = {}
                       /\ q < next => /\ kind[q] # "none" /\ pc[q] # "idle"
                                      /\ wid[q] \in Ids /\ of[q] \in 1 .. q
                       /\ kind[q] = "start" => of[q] = q
                       /\ kind[q] = "stop" => pc[q] \in {"releasing", "done", "dropped"}
                       /\ kind[q] = "fail" => pc[q] \in {"unbinding", "done"}
                       /\ kind[q] = "start" => pc[q] # "unbinding")'
    BY DEF Minting
  <2>1. CASE q = next
    BY <2>1, <1>w, <1>a, <1>c
  <2>2. CASE q # next
    <3>1. (q >= next' => q >= next) /\ (q < next' => q < next)
      BY <2>2, <1>a, ResNat
    <3> QED
      BY <2>2, <3>1, <1>b, <1>e DEF Minting
  <2> QED
    BY <2>1, <2>2
<1>3. SlotOwners'
  <2> SUFFICES ASSUME NEW i \in Ids PROVE SlotOwner(i)'
    BY DEF SlotOwners
  <2>1. CASE i = id
    BY <2>1, <1>a, <1>c, SlotFields DEF TypeOK, Held, SlotOwner
  <2>2. CASE i # id
    <3>1. slot'[i] = slot[i]
      BY <2>2, <1>a DEF TypeOK
    <3> QED
      BY <3>1, <1>n, <1>b, <1>e DEF SlotOwners, SlotOwner, Held, Free, Error
  <2> QED
    BY <2>1, <2>2
<1>4. RecoveryOwners'
  <2>1. \A q \in Reservation : pc[q] = "dropped" => q # next
    BY <1>d
  <2>2. \A i \in Ids : recov[i] # 0 => recov[i] \in Reservation
    BY ConstantsAssumption DEF TypeOK, Reservation
  <2>3. \A t \in Stoppers : stopper'[t] = IF t = s THEN Idle ELSE stopper[t]
    BY DEF StopRunning, TypeOK
  <2>4. \A q \in Reservation : serial[q] # s
    BY DEF StopRunning, RecoveryOwners
  <2> QED
    BY <2>1, <2>2, <2>3, <2>4, <1>a, <1>b, <1>d, <1>e, <1>n, StopperTypes
    DEF RecoveryOwners
<1>5. JournalsCover'
  <2>1. \A i \in Ids, b \in Binding : bound[i][b] \in Nat /\ bound[i][b] < next
    BY DEF JournalsCover, TypeOK
  <2>2. ASSUME NEW q \in Reservation, q # next PROVE Mine(q)' => Mine(q)
    <3>1. slot'[wid[q]] = slot[wid[q]] \/ slot'[wid[q]] = Stopping(next)
      BY <1>a DEF TypeOK
    <3> QED
      BY <3>1, <2>2, <1>b, SlotFields DEF Mine, Starting, Stopping, Failing
  <2>3. \A q \in Reservation : q = next => JournalCovers(q)'
    BY <1>c, <1>d, <1>e DEF JournalCovers, ReleaseRuns
  <2>4. ASSUME NEW q \in Reservation, q # next PROVE JournalCovers(q)'
    <3>1. ReleaseRuns(q)' => ReleaseRuns(q)
      BY <2>4, <1>b, <1>e DEF ReleaseRuns
    <3> QED
      BY <2>2, <2>4, <3>1, <1>b, <1>e DEF JournalsCover, JournalCovers, IsTop
  <2>5. \A i \in Ids, b \in Binding : bound'[i][b] < next'
    BY <2>1, <1>a, <1>e
  <2> QED
    BY <2>3, <2>4, <2>5 DEF JournalsCover
<1>6. Ownership'
  <2> SUFFICES ASSUME NEW q \in Reservation, Unfinished(q)'
               PROVE  slot'[wid'[q]] \in {Starting(q), Stopping(q), Failing(q)}
    BY DEF Ownership, Mine, Starting, Stopping, Failing
  <2>1. CASE q = next
    BY <2>1, <1>a, <1>c DEF TypeOK
  <2>2. CASE q # next
    <3>1. Unfinished(q)
      BY <2>2, <1>b, <1>e DEF Unfinished, Minted
    <3>2. Mine(q) /\ wid[q] \in Ids /\ Held(wid[q])
      BY <3>1, Holder
    <3>3. wid[q] # id
      BY <3>2, <1>w DEF Held
    <3> QED
      BY <2>2, <3>2, <3>3, <1>a, <1>b DEF Mine, TypeOK
  <2> QED
    BY <2>1, <2>2
<1>7. Marked'
  <2> SUFFICES ASSUME NEW q \in Reservation, (ReleaseRuns(q) \/ pc[q] = "unbinding")'
               PROVE  slot'[wid'[q]] # Starting(q)
    BY DEF Marked, Starting
  <2>1. Stopping(next) # Starting(q)
    BY SlotFields
  <2>2. CASE q = next
    BY <2>1, <2>2, <1>a, <1>c DEF TypeOK
  <2>3. CASE q # next
    <3>1. slot'[wid'[q]] \in {slot[wid[q]], Stopping(next)}
      BY <2>3, <1>a, <1>b DEF TypeOK
    <3> QED
      BY <2>1, <2>3, <3>1, <1>b, <1>e DEF Marked, ReleaseRuns
  <2> QED
    BY <2>2, <2>3
<1>8. NeverAbandoned'
  <2>1. \A q \in Reservation : wid[q] # id /\ Unfinished(q) => Unfinished(q)'
    BY <1>b, <1>d, <1>e DEF Unfinished, Minted
  <2>2. PICK n \in Reservation : n = next
    BY <1>a
  <2>3. Unfinished(n)'
    BY <2>2, <1>c DEF Unfinished
  <2>4. slot' = [slot EXCEPT ![id] = Stopping(n)] /\ Stopping(n).r = n
    BY <2>2, <1>a, SlotFields
  <2> QED
    BY <2>1, <2>3, <2>4, <1>e, AbandonedAt
<1>9. RunningIntact'
  BY <1>a, <1>e, SlotFields DEF RunningIntact, TypeOK
<1>10. Accounted'
  <2> SUFFICES ASSUME NEW i \in Ids, NEW b \in Binding, bound[i][b] # 0
               PROVE  (\/ slot[i] = Running(bound[i][b])
                       \/ Held(i) /\ of[slot[i].r] = bound[i][b]
                       \/ FailedByPlugin(bound[i][b]))'
    BY <1>e DEF Accounted
  <2>1. ASSUME FailedByPlugin(bound[i][b]) PROVE FailedByPlugin(bound[i][b])'
    BY <2>1, <1>b, <1>d, <1>e DEF FailedByPlugin
  <2>2. CASE i = id
    BY <2>2, <1>w, <1>a, <1>c, <1>e, SlotFields DEF RunningIntact, Held, TypeOK
  <2>3. CASE i # id
    <3>1. slot'[i] = slot[i]
      BY <2>3, <1>a DEF TypeOK
    <3>2. ASSUME Held(i) PROVE of'[slot[i].r] = of[slot[i].r]
      <4>1. slot[i].r \in Reservation /\ slot[i].r < next
        BY <3>2 DEF SlotOwners, SlotOwner
      <4> QED
        BY <4>1, <1>n, <1>b
    <3>3. Held(i)' = Held(i)
      BY <3>1 DEF Held
    <3> QED
      BY <3>1, <3>2, <3>3, <2>1, <1>e DEF Accounted, Running
  <2> QED
    BY <2>2, <2>3
<1> QED
  BY <1>1, <1>2, <1>3, <1>4, <1>5, <1>6, <1>7, <1>8, <1>9, <1>10
  DEF IndInv

\* StopOther preserves the invariant.
LEMMA StopOtherInv ==
  ASSUME IndInv, NEW s \in Stoppers, StopOther(s)
  PROVE  IndInv'
<1> /\ TypeOK /\ Minting /\ SlotOwners /\ RecoveryOwners
    /\ JournalsCover /\ Ownership /\ Marked /\ NeverAbandoned
    /\ RunningIntact /\ Accounted
  BY DEF IndInv
<1>i. PICK id \in Ids : id = stopper[s].id
  BY DEF StopOther, RecoveryOwners
<1>s. PICK y \in Slot : /\ slot' = [slot EXCEPT ![id] = y]
                        /\ \/ slot[id].st \in {"starting", "failing"} /\ y = Stopping(slot[id].r)
                           \/ slot[id].st = "stopping" /\ y = slot[id]
                           \/ slot[id].st \in {"free", "error"} /\ y = Free
  <2>1. slot[id] \in Slot /\ slot[id].st \in SlotState /\ slot[id].st # "running"
    BY <1>i DEF StopOther, TypeOK, Slot
  <2> QED
    BY <2>1, <1>i, SlotTypes, SlotR DEF StopOther, TypeOK, SlotState
<1>e. UNCHANGED <<next, kind, wid, of, pc, journal, todo, err, retain, task, serial, recov, bound, host>>
  BY DEF StopOther, ops, journals, recovery
<1>1. TypeOK'
  BY ZenonT(60), <1>s, <1>e, StopperTypes DEF TypeOK, StopOther
<1>2. Minting'
  BY ResNat, NextNat DEF TypeOK, StopOther, Minting, ops, journals, recovery
<1>3. SlotOwners'
  <2>1. SlotOwner(id)'
    <3>1. slot'[id] = y /\ SlotOwner(id)
      BY <1>s DEF TypeOK, SlotOwners
    <3>2. y.st \in {"stopping", "free"} /\ (y.st = "free" => y = Free)
      BY <1>s, SlotFields
    <3>3. y.st = "stopping" => Held(id) /\ y.r = slot[id].r
      BY <1>s, SlotFields DEF Held
    <3> QED
      BY <3>1, <3>2, <3>3, <1>e DEF SlotOwner, Held
  <2>2. ASSUME NEW i \in Ids, i # id PROVE SlotOwner(i)'
    <3>1. slot'[i] = slot[i] /\ SlotOwner(i)
      BY <2>2, <1>s DEF TypeOK, SlotOwners
    <3> QED
      BY <3>1, <1>e DEF SlotOwner, Held
  <2> QED
    BY <2>1, <2>2 DEF SlotOwners
<1>4. RecoveryOwners'
  BY ResNat, NextNat, StopperTypes, Zero
  DEF TypeOK, StopOther, RecoveryOwners, Minting, ops, journals, recovery
<1>5. JournalsCover'
  BY ResNat, NextNat, SlotTypes, SlotFields, SlotShape
  DEF TypeOK, StopOther, JournalsCover, JournalCovers, Minting, Ownership,
     Unfinished, Mine, ReleaseRuns, ops, journals, recovery
<1>6. Ownership'
  BY ResNat, NextNat, SlotTypes, SlotFields, SlotShape
  DEF TypeOK, StopOther, Ownership, Unfinished, Mine, Minted, Minting,
     RecoveryOwners, ops, journals, recovery
<1>7. Marked'
  <2>1. \A q \in Reservation : (ReleaseRuns(q) \/ pc[q] = "unbinding")'
                                 => ReleaseRuns(q) \/ pc[q] = "unbinding"
    BY <1>e DEF ReleaseRuns
  <2>2. \A q \in Reservation : slot'[wid[q]] = slot[wid[q]] \/ slot'[wid[q]] = y
    BY <1>s DEF TypeOK
  <2>3. \A q : y = Starting(q) => y = slot[id]
    BY <1>s, SlotFields
  <2>4. \A q \in Reservation : slot'[wid[q]] = Starting(q) => slot[wid[q]] = Starting(q)
    BY <2>2, <2>3, <1>s, SlotFields DEF TypeOK
  <2> QED
    BY <2>1, <2>4, <1>e DEF Marked, Starting
<1>8. NeverAbandoned'
  <2>1. \A q \in Reservation : Unfinished(q) => Unfinished(q)'
    BY <1>e DEF Unfinished, Minted
  <2>2. y.st \in {"starting", "stopping", "failing"} =>
          y.r \in Reservation /\ (Unfinished(y.r)' \/ host = "stopped")
    BY <2>1, <1>s, SlotFields DEF SlotOwners, SlotOwner, NeverAbandoned, Held
  <2> QED
    BY <2>1, <2>2, <1>s, <1>e, AbandonedAt
<1>9. RunningIntact'
  BY ResNat, NextNat, SlotTypes, SlotFields, SlotShape
  DEF TypeOK, StopOther, RunningIntact, SlotOwners, SlotOwner, JournalsCover,
     JournalCovers, Ownership, Unfinished, Mine, ops, journals, recovery
<1>10. Accounted'
  <2>1. \A b \in Binding : bound[id][b] # 0 /\ ~FailedByPlugin(bound[id][b]) =>
          \/ y = Running(bound[id][b])
          \/ /\ y.st \in {"starting", "stopping", "failing"}
             /\ of[y.r] = bound[id][b]
    BY <1>s, SlotFields DEF Accounted, Held
  <2> QED
    BY <2>1, <1>s, <1>e, AccountedSlot
<1> QED
  BY <1>1, <1>2, <1>3, <1>4, <1>5, <1>6, <1>7, <1>8, <1>9, <1>10
  DEF IndInv

\* StopCollect preserves the invariant.
LEMMA StopCollectInv ==
  ASSUME IndInv, NEW s \in Stoppers, StopCollect(s)
  PROVE  IndInv'
<1> /\ TypeOK /\ Minting /\ SlotOwners /\ RecoveryOwners
    /\ JournalsCover /\ Ownership /\ Marked /\ NeverAbandoned
    /\ RunningIntact /\ Accounted
  BY DEF IndInv
<1>i. PICK id \in Ids : id = stopper[s].id
  BY DEF StopCollect, RecoveryOwners
<1>s. PICK y \in Slot : /\ slot' = [slot EXCEPT ![id] = y]
                        /\ \/ slot[id] = Error /\ y = Free
                           \/ y = slot[id]
  BY <1>i, SlotTypes DEF StopCollect, TypeOK
<1>e. UNCHANGED <<next, kind, wid, of, pc, journal, todo, err, retain, task, serial, recov, bound, host>>
  BY DEF StopCollect, ops, journals, recovery
<1>1. TypeOK'
  <2>1. stopper' \in [Stoppers -> Stopper]
    BY StopperTypes DEF TypeOK, StopCollect
  <2>2. slot' \in [Ids -> Slot]
    BY <1>s DEF TypeOK
  <2> QED
    BY <2>1, <2>2, <1>e DEF TypeOK
<1>2. Minting'
  BY ResNat, NextNat DEF TypeOK, StopCollect, Minting, ops, journals, recovery
<1>3. SlotOwners'
  BY SMTT(60), ResNat, NextNat, SlotTypes, SlotFields, SlotShape
  DEF TypeOK, StopCollect, SlotOwners, SlotOwner, Minting, Held, ops, journals,
     recovery
<1>4. RecoveryOwners'
  BY ResNat, NextNat, StopperTypes, Zero
  DEF TypeOK, StopCollect, RecoveryOwners, Minting, ops, journals, recovery
<1>5. JournalsCover'
  BY ResNat, NextNat, SlotTypes, SlotFields, SlotShape
  DEF TypeOK, StopCollect, JournalsCover, JournalCovers, Minting, Ownership,
     Unfinished, Mine, ReleaseRuns, ops, journals, recovery
<1>6. Ownership'
  BY ResNat, NextNat, SlotTypes, SlotFields, SlotShape
  DEF TypeOK, StopCollect, Ownership, Unfinished, Mine, Minted, Minting,
     RecoveryOwners, ops, journals, recovery
<1>7. Marked'
  BY ResNat, NextNat, SlotTypes, SlotFields, SlotShape
  DEF TypeOK, StopCollect, Marked, ReleaseRuns, Minting, Ownership, Unfinished,
     Mine, Held, ops, journals, recovery
<1>8. NeverAbandoned'
  <2>1. \A q \in Reservation : Unfinished(q) => Unfinished(q)'
    BY <1>e DEF Unfinished, Minted
  <2>2. y.st \in {"starting", "stopping", "failing"} =>
          y.r \in Reservation /\ (Unfinished(y.r)' \/ host = "stopped")
    BY <2>1, <1>s, SlotFields DEF SlotOwners, SlotOwner, NeverAbandoned, Held
  <2> QED
    BY <2>1, <2>2, <1>s, <1>e, AbandonedAt
<1>9. RunningIntact'
  BY ResNat, NextNat, SlotTypes, SlotFields, SlotShape
  DEF TypeOK, StopCollect, RunningIntact, SlotOwners, SlotOwner, JournalsCover,
     JournalCovers, Ownership, Unfinished, Mine, ops, journals, recovery
<1>10. Accounted'
  <2>1. \A b \in Binding : bound[id][b] # 0 /\ ~FailedByPlugin(bound[id][b]) =>
          \/ y = Running(bound[id][b])
          \/ /\ y.st \in {"starting", "stopping", "failing"}
             /\ of[y.r] = bound[id][b]
    BY <1>s, SlotFields DEF Accounted, Held
  <2> QED
    BY <2>1, <1>s, <1>e, AccountedSlot
<1> QED
  BY <1>1, <1>2, <1>3, <1>4, <1>5, <1>6, <1>7, <1>8, <1>9, <1>10
  DEF IndInv

\* StopCancelled preserves the invariant.
LEMMA StopCancelledInv ==
  ASSUME IndInv, NEW s \in Stoppers, StopCancelled(s)
  PROVE  IndInv'
<1> /\ TypeOK /\ Minting /\ SlotOwners /\ RecoveryOwners
    /\ JournalsCover /\ Ownership /\ Marked /\ NeverAbandoned
    /\ RunningIntact /\ Accounted
  BY DEF IndInv
<1>1. TypeOK'
  BY Zero, SlotTypes, SlotR, StopperTypes, NextNat
  DEF TypeOK, StopCancelled, Kinds, PCs, Minting, SlotOwners, SlotOwner, ops,
     journals, recovery
<1>2. Minting'
  BY ResNat, NextNat DEF TypeOK, StopCancelled, Minting, ops, journals, recovery
<1>3. SlotOwners'
  BY ResNat, NextNat, SlotTypes, SlotFields, SlotShape
  DEF TypeOK, StopCancelled, SlotOwners, SlotOwner, Minting, Held, ops, journals,
     recovery
<1>4. RecoveryOwners'
  <2>1. /\ \A q \in Reservation : serial'[q] \in {serial[q], Nobody} /\ serial'[q] # s
        /\ \A t \in Stoppers : stopper'[t] = IF t = s THEN Idle ELSE stopper[t]
        /\ UNCHANGED <<next, pc, wid, task, recov, host>>
    BY ConstantsAssumption DEF StopCancelled, ops, TypeOK
  <2> QED
    BY <2>1, StopperTypes, ConstantsAssumption DEF RecoveryOwners
<1>5. JournalsCover'
  BY ResNat, NextNat, SlotTypes, SlotFields, SlotShape
  DEF TypeOK, StopCancelled, JournalsCover, JournalCovers, Minting, Ownership,
     Unfinished, Mine, ReleaseRuns, ops, journals, recovery
<1>6. Ownership'
  BY ResNat, NextNat, SlotTypes, SlotFields, SlotShape
  DEF TypeOK, StopCancelled, Ownership, Unfinished, Mine, Minted, Minting,
     RecoveryOwners, ops, journals, recovery
<1>7. Marked'
  BY ResNat, NextNat, SlotTypes, SlotFields, SlotShape
  DEF TypeOK, StopCancelled, Marked, ReleaseRuns, Minting, Ownership, Unfinished,
     Mine, Held, ops, journals, recovery
<1>8. NeverAbandoned'
  <2>1. ASSUME NEW q \in Reservation, host # "stopped", Unfinished(q)
        PROVE  Unfinished(q)'
    <3>1. kind[q] # "none"
      BY <2>1, Holder
    <3> QED
      BY <2>1, <3>1 DEF StopCancelled, Unfinished, Minted, RecoveryOwners, ops
  <2> QED
    BY <2>1, AbandonedFrame DEF StopCancelled
<1>9. RunningIntact'
  BY RunningFrame DEF StopCancelled, ops, journals, recovery
<1>10. Accounted'
  BY AccountedFrame DEF StopCancelled, ops, journals, recovery
<1> QED
  BY <1>1, <1>2, <1>3, <1>4, <1>5, <1>6, <1>7, <1>8, <1>9, <1>10
  DEF IndInv

\* FailRunning preserves the invariant.
LEMMA FailRunningInv ==
  ASSUME IndInv, NEW id \in Ids, FailRunning(id)
  PROVE  IndInv'
<1> /\ TypeOK /\ Minting /\ SlotOwners /\ RecoveryOwners
    /\ JournalsCover /\ Ownership /\ Marked /\ NeverAbandoned
    /\ RunningIntact /\ Accounted
  BY DEF IndInv
<1>w. PICK w \in Reservation : /\ w = slot[id].r /\ slot[id].st = "running" /\ w < next
                               /\ journal[w] = Binding /\ w \in 1 .. next
  BY ResNat, NextNat DEF FailRunning, SlotOwners, SlotOwner
<1>a. /\ next \in Reservation /\ slot' = [slot EXCEPT ![id] = Stopping(next)]
      /\ Stopping(next) \in Slot /\ next' = next + 1 /\ next \in Nat
  BY NextNat, SlotTypes, Zero DEF FailRunning, Mint
<1>b. \A q \in Reservation : q # next =>
        /\ kind'[q] = kind[q] /\ of'[q] = of[q] /\ wid'[q] = wid[q] /\ pc'[q] = pc[q]
        /\ journal'[q] = journal[q] /\ todo'[q] = todo[q] /\ err'[q] = err[q]
  BY DEF FailRunning, Mint, TypeOK
<1>c. /\ kind'[next] = "fail" /\ of'[next] = w /\ wid'[next] = id /\ pc'[next] = "unbinding"
  BY <1>a, <1>w DEF FailRunning, Mint, TypeOK
<1>d. kind[next] = "none" /\ pc[next] = "idle" /\ serial[next] = Nobody
  BY <1>a DEF Minting
<1>e. UNCHANGED <<retain, task, serial, recov, bound, host, stopper, journal, err>>
  BY DEF FailRunning, recovery
<1>n. \A q \in Reservation : q < next => q # next /\ q < next'
  BY <1>a, ResNat
<1>1. TypeOK'
  <2>1. /\ slot' \in [Ids -> Slot] /\ next' \in 1 .. MaxReservations + 1
    BY <1>a, NextNat DEF TypeOK
  <2>2. kind' \in [Reservation -> Kinds] /\ pc' \in [Reservation -> PCs]
    BY DEF FailRunning, Mint, TypeOK, Kinds, PCs
  <2>3. wid' \in [Reservation -> Ids \cup {NoId}] /\ of' \in [Reservation -> 0 .. MaxReservations]
    BY <1>w, Zero DEF FailRunning, Mint, TypeOK
  <2>4. journal' \in [Reservation -> SUBSET Binding] /\ todo' \in [Reservation -> SUBSET Binding]
    BY <1>w DEF FailRunning, BeginRelease, TypeOK
  <2>5. err' \in [Reservation -> BOOLEAN] /\ stopper' \in [Stoppers -> Stopper]
    BY StopperTypes DEF FailRunning, BeginRelease, TypeOK
  <2> QED
    BY <2>1, <2>2, <2>3, <2>4, <2>5, <1>e DEF TypeOK
<1>2. Minting'
  <2> SUFFICES ASSUME NEW q \in Reservation
               PROVE  (/\ q >= next => /\ kind[q] = "none" /\ pc[q] = "idle"
                                       /\ serial[q] = Nobody /\ ~task[q] /\ journal[q] = {}
                       /\ q < next => /\ kind[q] # "none" /\ pc[q] # "idle"
                                      /\ wid[q] \in Ids /\ of[q] \in 1 .. q
                       /\ kind[q] = "start" => of[q] = q
                       /\ kind[q] = "stop" => pc[q] \in {"releasing", "done", "dropped"}
                       /\ kind[q] = "fail" => pc[q] \in {"unbinding", "done"}
                       /\ kind[q] = "start" => pc[q] # "unbinding")'
    BY DEF Minting
  <2>1. CASE q = next
    BY <2>1, <1>w, <1>a, <1>c
  <2>2. CASE q # next
    <3>1. (q >= next' => q >= next) /\ (q < next' => q < next)
      BY <2>2, <1>a, ResNat
    <3> QED
      BY <2>2, <3>1, <1>b, <1>e DEF Minting
  <2> QED
    BY <2>1, <2>2
<1>3. SlotOwners'
  <2> SUFFICES ASSUME NEW i \in Ids PROVE SlotOwner(i)'
    BY DEF SlotOwners
  <2>1. CASE i = id
    BY <2>1, <1>a, <1>c, SlotFields DEF TypeOK, Held, SlotOwner
  <2>2. CASE i # id
    <3>1. slot'[i] = slot[i]
      BY <2>2, <1>a DEF TypeOK
    <3> QED
      BY <3>1, <1>n, <1>b, <1>e DEF SlotOwners, SlotOwner, Held, Free, Error
  <2> QED
    BY <2>1, <2>2
<1>4. RecoveryOwners'
  <2>1. \A q \in Reservation : pc[q] = "dropped" => q # next
    BY <1>d
  <2>2. \A i \in Ids : recov[i] # 0 => recov[i] \in Reservation
    BY ConstantsAssumption DEF TypeOK, Reservation
  <2> QED
    <3>1. \A i \in Ids : recov'[i] # 0 =>
            recov'[i] < next' /\ pc'[recov'[i]] = "dropped" /\ wid'[recov'[i]] = i
      BY <2>1, <2>2, <1>b, <1>e, <1>n DEF RecoveryOwners
    <3>2. \A q \in Reservation : pc[q] = "dropped" => pc'[q] = "dropped" /\ wid'[q] = wid[q]
      BY <2>1, <1>b
    <3> QED
      BY <3>1, <3>2, <1>e DEF RecoveryOwners
<1>5. JournalsCover'
  <2>1. \A i \in Ids, b \in Binding : bound[i][b] \in Nat /\ bound[i][b] < next
    BY DEF JournalsCover, TypeOK
  <2>2. ASSUME NEW q \in Reservation, q # next PROVE Mine(q)' => Mine(q)
    <3>1. slot'[wid[q]] = slot[wid[q]] \/ slot'[wid[q]] = Stopping(next)
      BY <1>a DEF TypeOK
    <3> QED
      BY <3>1, <2>2, <1>b, SlotFields DEF Mine, Starting, Stopping, Failing
  <2>3. \A q \in Reservation : q = next => JournalCovers(q)'
    BY <1>c, <1>d, <1>e DEF JournalCovers, ReleaseRuns
  <2>4. ASSUME NEW q \in Reservation, q # next PROVE JournalCovers(q)'
    <3>1. ReleaseRuns(q)' => ReleaseRuns(q)
      BY <2>4, <1>b, <1>e DEF ReleaseRuns
    <3> QED
      BY <2>2, <2>4, <3>1, <1>b, <1>e DEF JournalsCover, JournalCovers, IsTop
  <2>5. \A i \in Ids, b \in Binding : bound'[i][b] < next'
    BY <2>1, <1>a, <1>e
  <2> QED
    BY <2>3, <2>4, <2>5 DEF JournalsCover
<1>6. Ownership'
  <2> SUFFICES ASSUME NEW q \in Reservation, Unfinished(q)'
               PROVE  slot'[wid'[q]] \in {Starting(q), Stopping(q), Failing(q)}
    BY DEF Ownership, Mine, Starting, Stopping, Failing
  <2>1. CASE q = next
    BY <2>1, <1>a, <1>c DEF TypeOK
  <2>2. CASE q # next
    <3>1. Unfinished(q)
      BY <2>2, <1>b, <1>e DEF Unfinished, Minted
    <3>2. Mine(q) /\ wid[q] \in Ids /\ Held(wid[q])
      BY <3>1, Holder
    <3>3. wid[q] # id
      BY <3>2, <1>w DEF Held
    <3> QED
      BY <2>2, <3>2, <3>3, <1>a, <1>b DEF Mine, TypeOK
  <2> QED
    BY <2>1, <2>2
<1>7. Marked'
  <2> SUFFICES ASSUME NEW q \in Reservation, (ReleaseRuns(q) \/ pc[q] = "unbinding")'
               PROVE  slot'[wid'[q]] # Starting(q)
    BY DEF Marked, Starting
  <2>1. Stopping(next) # Starting(q)
    BY SlotFields
  <2>2. CASE q = next
    BY <2>1, <2>2, <1>a, <1>c DEF TypeOK
  <2>3. CASE q # next
    <3>1. slot'[wid'[q]] \in {slot[wid[q]], Stopping(next)}
      BY <2>3, <1>a, <1>b DEF TypeOK
    <3> QED
      BY <2>1, <2>3, <3>1, <1>b, <1>e DEF Marked, ReleaseRuns
  <2> QED
    BY <2>2, <2>3
<1>8. NeverAbandoned'
  <2>1. \A q \in Reservation : wid[q] # id /\ Unfinished(q) => Unfinished(q)'
    BY <1>b, <1>d, <1>e DEF Unfinished, Minted
  <2>2. PICK n \in Reservation : n = next
    BY <1>a
  <2>3. Unfinished(n)'
    BY <2>2, <1>c DEF Unfinished
  <2>4. slot' = [slot EXCEPT ![id] = Stopping(n)] /\ Stopping(n).r = n
    BY <2>2, <1>a, SlotFields
  <2> QED
    BY <2>1, <2>3, <2>4, <1>e, AbandonedAt
<1>9. RunningIntact'
  BY <1>a, <1>e, SlotFields DEF RunningIntact, TypeOK
<1>10. Accounted'
  <2> SUFFICES ASSUME NEW i \in Ids, NEW b \in Binding, bound[i][b] # 0
               PROVE  (\/ slot[i] = Running(bound[i][b])
                       \/ Held(i) /\ of[slot[i].r] = bound[i][b]
                       \/ FailedByPlugin(bound[i][b]))'
    BY <1>e DEF Accounted
  <2>1. ASSUME FailedByPlugin(bound[i][b]) PROVE FailedByPlugin(bound[i][b])'
    BY <2>1, <1>b, <1>d, <1>e DEF FailedByPlugin
  <2>2. CASE i = id
    BY <2>2, <1>w, <1>a, <1>c, <1>e, SlotFields DEF RunningIntact, Held, TypeOK
  <2>3. CASE i # id
    <3>1. slot'[i] = slot[i]
      BY <2>3, <1>a DEF TypeOK
    <3>2. ASSUME Held(i) PROVE of'[slot[i].r] = of[slot[i].r]
      <4>1. slot[i].r \in Reservation /\ slot[i].r < next
        BY <3>2 DEF SlotOwners, SlotOwner
      <4> QED
        BY <4>1, <1>n, <1>b
    <3>3. Held(i)' = Held(i)
      BY <3>1 DEF Held
    <3> QED
      BY <3>1, <3>2, <3>3, <2>1, <1>e DEF Accounted, Running
  <2> QED
    BY <2>2, <2>3
<1> QED
  BY <1>1, <1>2, <1>3, <1>4, <1>5, <1>6, <1>7, <1>8, <1>9, <1>10
  DEF IndInv

\* FailStarting preserves the invariant.
LEMMA FailStartingInv ==
  ASSUME IndInv, NEW id \in Ids, FailStarting(id)
  PROVE  IndInv'
<1> /\ TypeOK /\ Minting /\ SlotOwners /\ RecoveryOwners
    /\ JournalsCover /\ Ownership /\ Marked /\ NeverAbandoned
    /\ RunningIntact /\ Accounted
  BY DEF IndInv
<1>1. TypeOK'
  BY Zero, SlotTypes, SlotR, StopperTypes, NextNat
  DEF TypeOK, FailStarting, Kinds, PCs, Minting, SlotOwners, SlotOwner, ops,
     journals, recovery
<1>2. Minting'
  BY ResNat, NextNat DEF TypeOK, FailStarting, Minting, ops, journals, recovery
<1>3. SlotOwners'
  BY ResNat, NextNat, SlotTypes, SlotFields, SlotShape
  DEF TypeOK, FailStarting, SlotOwners, SlotOwner, Minting, Held, ops, journals,
     recovery
<1>4. RecoveryOwners'
  BY ResNat, NextNat, StopperTypes, Zero
  DEF TypeOK, FailStarting, RecoveryOwners, Minting, ops, journals, recovery
<1>5. JournalsCover'
  BY ResNat, NextNat, SlotTypes, SlotFields, SlotShape
  DEF TypeOK, FailStarting, JournalsCover, JournalCovers, Minting, Ownership,
     Unfinished, Mine, ReleaseRuns, ops, journals, recovery
<1>6. Ownership'
  BY ResNat, NextNat, SlotTypes, SlotFields, SlotShape
  DEF TypeOK, FailStarting, Ownership, Unfinished, Mine, Minted, Minting,
     RecoveryOwners, ops, journals, recovery
<1>7. Marked'
  <2>1. UNCHANGED <<wid, pc, serial>> /\ slot' = [slot EXCEPT ![id] = Failing(slot[id].r)]
    BY DEF FailStarting, ops, recovery
  <2>2. \A q \in Reservation : slot'[wid[q]] \in {slot[wid[q]], Failing(slot[id].r)}
    BY <2>1 DEF TypeOK
  <2>3. \A q \in Reservation : (ReleaseRuns(q) \/ pc[q] = "unbinding")'
                                 => ReleaseRuns(q) \/ pc[q] = "unbinding"
    BY <2>1 DEF ReleaseRuns
  <2>4. \A q : Failing(slot[id].r) # Starting(q)
    BY SlotFields
  <2> QED
    BY <2>1, <2>2, <2>3, <2>4 DEF Marked, Starting
<1>8. NeverAbandoned'
  BY ResNat, NextNat, SlotTypes, SlotFields, SlotShape
  DEF TypeOK, FailStarting, NeverAbandoned, SlotOwners, SlotOwner, Held,
     Unfinished, Minted, Minting, RecoveryOwners, ops, journals, recovery
<1>9. RunningIntact'
  BY ResNat, NextNat, SlotTypes, SlotFields, SlotShape
  DEF TypeOK, FailStarting, RunningIntact, SlotOwners, SlotOwner, JournalsCover,
     JournalCovers, Ownership, Unfinished, Mine, ops, journals, recovery
<1>10. Accounted'
  <2>1. PICK y \in Slot : y = Failing(slot[id].r)
    BY SlotTypes, SlotR DEF TypeOK
  <2>2. slot' = [slot EXCEPT ![id] = y] /\ slot[id].st = "starting" /\ UNCHANGED <<bound, kind, of>>
    BY <2>1 DEF FailStarting, ops
  <2>3. \A b \in Binding : bound[id][b] # 0 /\ ~FailedByPlugin(bound[id][b]) =>
          \/ y = Running(bound[id][b])
          \/ /\ y.st \in {"starting", "stopping", "failing"}
             /\ of[y.r] = bound[id][b]
    BY <2>1, <2>2, SlotFields DEF Accounted, Held
  <2> QED
    BY <2>2, <2>3, AccountedSlot
<1> QED
  BY <1>1, <1>2, <1>3, <1>4, <1>5, <1>6, <1>7, <1>8, <1>9, <1>10
  DEF IndInv

\* FailUnbind preserves the invariant.
LEMMA FailUnbindInv ==
  ASSUME IndInv, NEW r \in Reservation, FailUnbind(r)
  PROVE  IndInv'
<1> /\ TypeOK /\ Minting /\ SlotOwners /\ RecoveryOwners
    /\ JournalsCover /\ Ownership /\ Marked /\ NeverAbandoned
    /\ RunningIntact /\ Accounted
  BY DEF IndInv
<1>u. Unfinished(r)
  BY DEF FailUnbind, Unfinished
<1>h. /\ r < next /\ wid[r] \in Ids /\ Held(wid[r]) /\ Mine(r)
      /\ slot[wid[r]] \in Slot /\ slot[wid[r]].r = r /\ kind[r] # "none"
  BY <1>u, Holder
<1>b. PICK b \in todo[r] : /\ b \in Binding
                           /\ todo' = [todo EXCEPT ![r] = @ \ {b}]
                           /\ \/ bound' = [bound EXCEPT ![wid[r]][b] = 0]
                              \/ bound' = bound
  BY DEF FailUnbind, TypeOK
<1>c. /\ bound' \in [Ids -> [Binding -> 0 .. MaxReservations]]
      /\ \A i \in Ids, c \in Binding : bound'[i][c] \in {0, bound[i][c]}
      /\ \A i \in Ids, c \in Binding : i # wid[r] => bound'[i][c] = bound[i][c]
  <2>1. CASE bound' = [bound EXCEPT ![wid[r]][b] = 0]
    BY <2>1, <1>b, <1>h, Zero DEF TypeOK
  <2>2. CASE bound' = bound
    BY <2>2 DEF TypeOK
  <2> QED
    BY <1>b, <2>1, <2>2
<1>e. UNCHANGED <<slot, next, kind, wid, of, pc, journal, err, retain, task, serial, recov, stopper, host>>
  BY DEF FailUnbind, ops, recovery
<1>1. TypeOK'
  BY <1>b, <1>c, <1>e DEF TypeOK
<1>2. Minting'
  BY ResNat, NextNat DEF TypeOK, FailUnbind, Minting, ops, journals, recovery
<1>3. SlotOwners'
  BY ResNat, NextNat, SlotTypes, SlotFields, SlotShape
  DEF TypeOK, FailUnbind, SlotOwners, SlotOwner, Minting, Held, ops, journals,
     recovery
<1>4. RecoveryOwners'
  BY ResNat, NextNat, StopperTypes, Zero
  DEF TypeOK, FailUnbind, RecoveryOwners, Minting, ops, journals, recovery
<1>5. JournalsCover'
  <2>1. \A q \in Reservation : (Mine(q)' <=> Mine(q)) /\ (ReleaseRuns(q)' <=> ReleaseRuns(q))
    BY <1>e DEF Mine, ReleaseRuns, Starting, Stopping, Failing
  <2>2. \A i \in Ids, c \in Binding : bound'[i][c] < next
    <3>1. 0 < next
      BY ConstantsAssumption DEF TypeOK
    <3> QED
      BY <3>1, <1>c DEF JournalsCover
  <2> SUFFICES ASSUME NEW q \in Reservation PROVE JournalCovers(q)'
    BY <1>e, <2>2 DEF JournalsCover
  <2>3. pc[q] \in {"native", "binding"} => wid[q] \in Ids /\ wid[q] # wid[r]
    BY <1>h, Holder DEF Unfinished, FailUnbind, ReleaseRuns, RecoveryOwners
  <2>4. kind[q] # "none" => wid[q] \in Ids /\ of[q] # 0
    BY NextNat, ResNat DEF Minting, TypeOK
  <2>5. journal[q] \subseteq Binding /\ (ReleaseRuns(q) /\ ~err[q] => todo'[q] = todo[q])
    BY <1>b DEF TypeOK, FailUnbind, journals, ReleaseRuns, RecoveryOwners
  <2> QED
    BY <1>c, <1>e, <2>1, <2>3, <2>4, <2>5 DEF JournalsCover, JournalCovers, IsTop
<1>6. Ownership'
  BY ResNat, NextNat, SlotTypes, SlotFields, SlotShape
  DEF TypeOK, FailUnbind, Ownership, Unfinished, Mine, Minted, Minting,
     RecoveryOwners, ops, journals, recovery
<1>7. Marked'
  BY ResNat, NextNat, SlotTypes, SlotFields, SlotShape
  DEF TypeOK, FailUnbind, Marked, ReleaseRuns, Minting, Ownership, Unfinished,
     Mine, Held, ops, journals, recovery
<1>8. NeverAbandoned'
  BY ResNat, NextNat, SlotTypes, SlotFields, SlotShape
  DEF TypeOK, FailUnbind, NeverAbandoned, SlotOwners, SlotOwner, Held, Unfinished,
     Minted, Minting, RecoveryOwners, ops, journals, recovery
<1>9. RunningIntact'
  BY <1>c, <1>e, <1>h DEF RunningIntact, Held
<1>10. Accounted'
  <2> SUFFICES ASSUME NEW i \in Ids, NEW c \in Binding, bound'[i][c] # 0
               PROVE  \/ slot[i] = Running(bound'[i][c])
                      \/ Held(i) /\ of[slot[i].r] = bound'[i][c]
                      \/ FailedByPlugin(bound'[i][c])
    BY <1>e DEF Accounted, Held, FailedByPlugin, Running
  <2> QED
    BY <1>c DEF Accounted
<1> QED
  BY <1>1, <1>2, <1>3, <1>4, <1>5, <1>6, <1>7, <1>8, <1>9, <1>10
  DEF IndInv

\* FailDone preserves the invariant.
LEMMA FailDoneInv ==
  ASSUME IndInv, NEW r \in Reservation, FailDone(r)
  PROVE  IndInv'
<1> /\ TypeOK /\ Minting /\ SlotOwners /\ RecoveryOwners
    /\ JournalsCover /\ Ownership /\ Marked /\ NeverAbandoned
    /\ RunningIntact /\ Accounted
  BY DEF IndInv
<1>u. Unfinished(r)
  BY DEF FailDone, Unfinished
<1>h. /\ r < next /\ wid[r] \in Ids /\ Held(wid[r]) /\ Mine(r)
      /\ slot[wid[r]] \in Slot /\ slot[wid[r]].r = r /\ kind[r] # "none"
  BY <1>u, Holder
<1>k. FailedByPlugin(of[r])
  BY <1>h DEF FailedByPlugin, FailDone, Minting, TypeOK, Kinds
<1>s. PICK x \in {Free, Error} : slot' = [slot EXCEPT ![wid[r]] = x]
  BY <1>h DEF FailDone, FinishTeardown, TypeOK, Mine, Marked
<1>x. x \in Slot /\ x.r = 0
  BY <1>s, SlotTypes, SlotFields
<1>1. TypeOK'
  BY Zero, SlotTypes, SlotR, StopperTypes, NextNat
  DEF TypeOK, FailDone, Goto, FinishTeardown, Kinds, PCs, Minting, SlotOwners,
     SlotOwner, ops, journals, recovery
<1>2. Minting'
  BY ResNat, NextNat
  DEF TypeOK, FailDone, Goto, FinishTeardown, Minting, ops, journals, recovery
<1>3. SlotOwners'
  BY ResNat, NextNat, SlotTypes, SlotFields, SlotShape
  DEF TypeOK, FailDone, Goto, FinishTeardown, SlotOwners, SlotOwner, Minting, Held,
     ops, journals, recovery
<1>4. RecoveryOwners'
  BY ResNat, NextNat, StopperTypes, Zero
  DEF TypeOK, FailDone, Goto, FinishTeardown, RecoveryOwners, Minting, ops,
     journals, recovery
<1>5. JournalsCover'
  BY ResNat, NextNat, SlotTypes, SlotFields, SlotShape
  DEF TypeOK, FailDone, Goto, FinishTeardown, JournalsCover, JournalCovers,
     Minting, Ownership, Unfinished, Mine, ReleaseRuns, ops, journals, recovery
<1>6. Ownership'
  <2>1. /\ ~Unfinished(r)'
        /\ \A q \in Reservation : q # r /\ Unfinished(q)' => Unfinished(q)
    BY <1>h, DoneFinishes DEF FailDone, Goto, recovery
  <2> QED
    BY <2>1, <1>s, <1>h, OwnershipAt DEF FailDone, Goto
<1>7. Marked'
  BY ResNat, NextNat, SlotTypes, SlotFields, SlotShape
  DEF TypeOK, FailDone, Goto, FinishTeardown, Marked, ReleaseRuns, Minting,
     Ownership, Unfinished, Mine, Held, ops, journals, recovery
<1>8. NeverAbandoned'
  <2>1. \A q \in Reservation : wid[q] # wid[r] /\ Unfinished(q) => Unfinished(q)'
    BY DEF FailDone, Goto, Unfinished, Minted, recovery, TypeOK
  <2> QED
    BY <2>1, <1>s, <1>h, AbandonedAt, SlotFields DEF FailDone
<1>9. RunningIntact'
  BY ResNat, NextNat, SlotTypes, SlotFields, SlotShape
  DEF TypeOK, FailDone, Goto, FinishTeardown, RunningIntact, SlotOwners, SlotOwner,
     JournalsCover, JournalCovers, Ownership, Unfinished, Mine, ops, journals,
     recovery
<1>10. Accounted'
  <2>1. \A b \in Binding : bound[wid[r]][b] # 0 => FailedByPlugin(bound[wid[r]][b])
    BY <1>h, <1>k, SlotFields DEF Accounted, Held
  <2>2. UNCHANGED <<bound, kind, of>>
    BY DEF FailDone, Goto
  <2> QED
    BY <2>1, <2>2, <1>s, <1>x, <1>h, AccountedSlot
<1> QED
  BY <1>1, <1>2, <1>3, <1>4, <1>5, <1>6, <1>7, <1>8, <1>9, <1>10
  DEF IndInv

\* HostStop preserves the invariant.
LEMMA HostStopInv ==
  ASSUME IndInv, HostStop
  PROVE  IndInv'
<1> /\ TypeOK /\ Minting /\ SlotOwners /\ RecoveryOwners
    /\ JournalsCover /\ Ownership /\ Marked /\ NeverAbandoned
    /\ RunningIntact /\ Accounted
  BY DEF IndInv
<1>1. TypeOK'
  BY Zero, SlotTypes, SlotR, StopperTypes, NextNat
  DEF TypeOK, HostStop, Kinds, PCs, Minting, SlotOwners, SlotOwner, ops, journals,
     recovery
<1>2. Minting'
  BY ResNat, NextNat DEF TypeOK, HostStop, Minting, ops, journals, recovery
<1>3. SlotOwners'
  BY ResNat, NextNat, SlotTypes, SlotFields, SlotShape
  DEF TypeOK, HostStop, SlotOwners, SlotOwner, Minting, Held, ops, journals,
     recovery
<1>4. RecoveryOwners'
  BY ResNat, NextNat, StopperTypes, Zero
  DEF TypeOK, HostStop, RecoveryOwners, Minting, ops, journals, recovery
<1>5. JournalsCover'
  BY ResNat, NextNat, SlotTypes, SlotFields, SlotShape
  DEF TypeOK, HostStop, JournalsCover, JournalCovers, Minting, Ownership,
     Unfinished, Mine, ReleaseRuns, ops, journals, recovery
<1>6. Ownership'
  BY ResNat, NextNat, SlotTypes, SlotFields, SlotShape
  DEF TypeOK, HostStop, Ownership, Unfinished, Mine, Minted, Minting,
     RecoveryOwners, ops, journals, recovery
<1>7. Marked'
  BY ResNat, NextNat, SlotTypes, SlotFields, SlotShape
  DEF TypeOK, HostStop, Marked, ReleaseRuns, Minting, Ownership, Unfinished, Mine,
     Held, ops, journals, recovery
<1>8. NeverAbandoned'
  BY ResNat, NextNat, SlotTypes, SlotFields, SlotShape
  DEF TypeOK, HostStop, NeverAbandoned, SlotOwners, SlotOwner, Held, Unfinished,
     Minted, Minting, RecoveryOwners, ops, journals, recovery
<1>9. RunningIntact'
  BY RunningFrame DEF HostStop, ops, journals, recovery
<1>10. Accounted'
  BY AccountedFrame DEF HostStop, ops, journals, recovery
<1> QED
  BY <1>1, <1>2, <1>3, <1>4, <1>5, <1>6, <1>7, <1>8, <1>9, <1>10
  DEF IndInv

\* HostStopped preserves the invariant.
LEMMA HostStoppedInv ==
  ASSUME IndInv, HostStopped
  PROVE  IndInv'
<1> /\ TypeOK /\ Minting /\ SlotOwners /\ RecoveryOwners
    /\ JournalsCover /\ Ownership /\ Marked /\ NeverAbandoned
    /\ RunningIntact /\ Accounted
  BY DEF IndInv
<1>1. TypeOK'
  BY Zero, SlotTypes, SlotR, StopperTypes, NextNat
  DEF TypeOK, HostStopped, Kinds, PCs, Minting, SlotOwners, SlotOwner, ops,
     journals, recovery
<1>2. Minting'
  BY ResNat, NextNat DEF TypeOK, HostStopped, Minting, ops, journals, recovery
<1>3. SlotOwners'
  BY ResNat, NextNat, SlotTypes, SlotFields, SlotShape
  DEF TypeOK, HostStopped, SlotOwners, SlotOwner, Minting, Held, ops, journals,
     recovery
<1>4. RecoveryOwners'
  BY ResNat, NextNat, StopperTypes, Zero
  DEF TypeOK, HostStopped, RecoveryOwners, Minting, ops, journals, recovery
<1>5. JournalsCover'
  BY ResNat, NextNat, SlotTypes, SlotFields, SlotShape
  DEF TypeOK, HostStopped, JournalsCover, JournalCovers, Minting, Ownership,
     Unfinished, Mine, ReleaseRuns, ops, journals, recovery
<1>6. Ownership'
  BY ResNat, NextNat, SlotTypes, SlotFields, SlotShape
  DEF TypeOK, HostStopped, Ownership, Unfinished, Mine, Minted, Minting,
     RecoveryOwners, ops, journals, recovery
<1>7. Marked'
  BY ResNat, NextNat, SlotTypes, SlotFields, SlotShape
  DEF TypeOK, HostStopped, Marked, ReleaseRuns, Minting, Ownership, Unfinished,
     Mine, Held, ops, journals, recovery
<1>8. NeverAbandoned'
  BY ResNat, NextNat, SlotTypes, SlotFields, SlotShape
  DEF TypeOK, HostStopped, NeverAbandoned, SlotOwners, SlotOwner, Held, Unfinished,
     Minted, Minting, RecoveryOwners, ops, journals, recovery
<1>9. RunningIntact'
  BY RunningFrame DEF HostStopped, ops, journals, recovery
<1>10. Accounted'
  BY AccountedFrame DEF HostStopped, ops, journals, recovery
<1> QED
  BY <1>1, <1>2, <1>3, <1>4, <1>5, <1>6, <1>7, <1>8, <1>9, <1>10
  DEF IndInv

\* The invariant holds when the host comes up.
LEMMA InitInv == Init => IndInv
<1> SUFFICES ASSUME Init PROVE IndInv
  OBVIOUS
<1>1. TypeOK
  BY SlotTypes, StopperTypes, Zero, ConstantsAssumption DEF Init, TypeOK, Kinds, PCs
<1>2. \A r \in Reservation : ~Unfinished(r)
  BY DEF Init, Unfinished, Minted
<1>3. \A id \in Ids : slot[id] = Free /\ slot[id].st = "free"
  BY SlotFields DEF Init
<1>4. Minting
  BY ResNat DEF Init, Minting
<1>5. SlotOwners /\ NeverAbandoned /\ RunningIntact
  BY <1>3 DEF SlotOwners, SlotOwner, NeverAbandoned, RunningIntact, Held
<1>6. RecoveryOwners
  BY StopperTypes, ConstantsAssumption DEF Init, RecoveryOwners
<1>7. JournalsCover
  BY DEF Init, JournalsCover, JournalCovers, ReleaseRuns
<1>8. Ownership /\ Marked /\ Accounted
  BY <1>2 DEF Init, Ownership, Marked, ReleaseRuns, Accounted
<1> QED
  BY <1>1, <1>4, <1>5, <1>6, <1>7, <1>8 DEF IndInv

\* Every step preserves the invariant: one lemma above per action.
LEMMA NextInv == IndInv /\ [Next]_vars => IndInv'
<1> SUFFICES ASSUME IndInv, [Next]_vars PROVE IndInv'
  OBVIOUS
<1>1. ASSUME NEW id \in Ids, Reserve(id) \/ FailRunning(id) \/ FailStarting(id)
      PROVE  IndInv'
  BY <1>1, ReserveInv, FailRunningInv, FailStartingInv
<1>2. ASSUME NEW r \in Reservation, StartStep(r) PROVE IndInv'
  BY <1>2, AcquirePermitInv, PrepareFailsInv, PrepareDoneInv, BindBeginInv,
     BindApplyInv, BindDoneInv, CommitInv, AbortInv DEF StartStep
<1>3. ASSUME NEW r \in Reservation, ReleaseStep(r) PROVE IndInv'
  BY <1>3, UnbindApplyInv, UnbindOkInv, UnbindErrInv, ReleaseOkInv,
     ReleaseErrInv, CancelInv DEF ReleaseStep
<1>4. ASSUME NEW r \in Reservation, RecoverStep(r) PROVE IndInv'
  BY <1>4, RecoverGoneInv, RecoverBeginInv, RecoverErrInv, RecoverOkInv
  DEF RecoverStep
<1>5. ASSUME NEW r \in Reservation, FailUnbind(r) \/ FailDone(r) PROVE IndInv'
  BY <1>5, FailUnbindInv, FailDoneInv
<1>6. ASSUME NEW s \in Stoppers, StopStep(s) PROVE IndInv'
  BY <1>6, StopBeginInv, StopRunningInv, StopOtherInv, StopCollectInv,
     StopCancelledInv DEF StopStep
<1>7. CASE HostStop \/ HostStopped
  BY <1>7, HostStopInv, HostStoppedInv
<1>8. CASE UNCHANGED vars
  BY <1>8 DEF vars, ops, journals, recovery, IndInv, TypeOK, Minting, SlotOwners,
     SlotOwner, RecoveryOwners, JournalsCover, JournalCovers, IsTop, Ownership,
     Unfinished, Minted, Mine, Marked, ReleaseRuns, NeverAbandoned, Held,
     RunningIntact, Accounted, FailedByPlugin, Free, Error, Starting, Stopping,
     Failing, Running
<1> QED
  BY <1>1, <1>2, <1>3, <1>4, <1>5, <1>6, <1>7, <1>8 DEF Next

\* IndInv is an invariant of the host, for any ids, bindings, reservations,
\* permits and stoppers.
THEOREM Invariance == Spec => []IndInv
BY InitInv, NextInv, PTL DEF Spec

\* The variables keep their types.
THEOREM TypeCorrect == Spec => []TypeOK
<1>1. IndInv => TypeOK
  BY DEF IndInv
<1> QED
  BY <1>1, Invariance, PTL

\* Whoever is still starting, stopping, failing or recovering a workload
\* (workload_start_reserved, workload_stop, fail_workload, WorkloadRecovery)
\* holds the id's slot under its own reservation.
THEOREM OwnershipHolds == Spec => []Ownership
<1>1. IndInv => Ownership
  BY DEF IndInv
<1> QED
  BY <1>1, Invariance, PTL

\* A slot in Starting, Stopping or Failing always has an operation or a
\* recorded recovery left that will close it out (WorkloadCleanupGuard::drop
\* never loses one), until Host::stop forgets the recoveries.
THEOREM NeverAbandonedHolds == Spec => []NeverAbandoned
<1>1. IndInv => NeverAbandoned
  BY DEF IndInv
<1> QED
  BY <1>1, Invariance, PTL

\* A workload the host reports as running has every binding its start made;
\* no late release of an earlier workload with the same id has taken one.
THEOREM RunningIntactHolds == Spec => []RunningIntact
<1>1. IndInv => RunningIntact
  BY DEF IndInv
<1> QED
  BY <1>1, Invariance, PTL

\* Every entry a plugin keeps belongs to a running workload or to one whose
\* teardown holds the id, unless a plugin failed that workload.
THEOREM AccountedHolds == Spec => []Accounted
<1>1. IndInv => Accounted
  BY DEF IndInv
<1> QED
  BY <1>1, Invariance, PTL

\* A step that changes a plugin's entry is taken for the operation that holds
\* the id.
LEMMA EntryWriterHolds ==
  ASSUME IndInv, [Next]_vars, NEW id \in Ids, NEW b \in Binding,
         bound'[id][b] # bound[id][b]
  PROVE  Held(id)
<1> TypeOK /\ Minting /\ SlotOwners /\ Ownership
  BY DEF IndInv
<1>1. PICK r \in Reservation : BindApply(r) \/ UnbindApply(r) \/ FailUnbind(r)
  BY ZenonT(60) DEF Next, vars, StartStep, ReleaseStep, RecoverStep, StopStep, Reserve,
     AcquirePermit, PrepareFails, PrepareDone, BindBegin, BindDone, Commit, Abort,
     UnbindOk, UnbindErr, ReleaseOk, ReleaseErr, Cancel, RecoverGone, RecoverBegin,
     RecoverErr, RecoverOk, StopBegin, StopRunning, StopOther, StopCollect,
     StopCancelled, FailRunning, FailStarting, FailDone, HostStop, HostStopped
<1>2. Unfinished(r)
  BY <1>1 DEF BindApply, UnbindApply, FailUnbind, ReleaseRuns, Unfinished
<1>3. wid[r] \in Ids /\ Held(wid[r])
  BY <1>2, Holder
<1>4. id = wid[r]
  BY <1>1, <1>3 DEF BindApply, UnbindApply, FailUnbind, TypeOK
<1> QED
  BY <1>3, <1>4

\* on_workload_bind and on_workload_unbind replace or remove only entries of
\* the workload whose operation holds the id, or what a failure left behind.
THEOREM UnbindsOnlyItsOwnHolds == Spec => UnbindsOnlyItsOwn
<1>1. ASSUME IndInv, [Next]_vars, NEW id \in Ids, NEW b \in Binding,
             bound[id][b] # 0, bound'[id][b] # bound[id][b]
      PROVE  /\ Held(id)
             /\ \/ of[slot[id].r] = bound[id][b]
                \/ FailedByPlugin(bound[id][b])
  <2>1. Held(id) /\ slot[id].st # "running"
    BY <1>1, EntryWriterHolds DEF Held
  <2>2. Accounted
    BY <1>1 DEF IndInv
  <2> QED
    BY <1>1, <2>1, <2>2, SlotFields DEF Accounted
<1>2. IndInv /\ [Next]_vars =>
        [\A id \in Ids, b \in Binding :
           bound[id][b] # 0 /\ bound'[id][b] # bound[id][b] =>
             /\ Held(id)
             /\ \/ of[slot[id].r] = bound[id][b]
                \/ FailedByPlugin(bound[id][b])]_vars
  BY <1>1
<1> QED
  BY <1>2, Invariance, PTL DEF Spec, UnbindsOnlyItsOwn

\* An operation still running is not the one whose recovery holds a failing id.
LEMMA DroppedNotWritten ==
  ASSUME IndInv, NEW id \in Ids, slot[id].st = "failing",
         recov[id] = slot[id].r, NEW r \in Reservation,
         pc[r] # "dropped", Unfinished(r)
  PROVE  wid[r] \in Ids /\ wid[r] # id
<1>1. TypeOK /\ Minting /\ SlotOwners /\ RecoveryOwners /\ Ownership
  BY DEF IndInv
<1>2. wid[r] \in Ids /\ slot[wid[r]].r = r
  BY <1>1, Holder
<1>3. slot[id].r # 0 /\ pc[slot[id].r] = "dropped"
  BY <1>1, ResNat DEF RecoveryOwners, SlotOwners, SlotOwner, Held
<1> QED
  BY <1>2, <1>3

\* A failure a start has reported with cleanup still owed stays until a stop
\* of the id: the recovery turns Failing into Error and into nothing else.
THEOREM ReportedFailureKeptHolds == Spec => ReportedFailureKept
<1>1. ASSUME IndInv, [Next]_vars, NEW id \in Ids, slot[id].st = "failing",
             recov[id] = slot[id].r, retain[slot[id].r], ~StopDecides(id)
      PROVE  slot'[id] \in {slot[id], Error}
  <2> /\ TypeOK /\ Minting /\ SlotOwners /\ RecoveryOwners /\ Ownership
    BY <1>1 DEF IndInv
  <2>1. ASSUME NEW r \in Reservation,
               PrepareFails(r) \/ Commit(r) \/ Abort(r) \/ ReleaseOk(r) \/ FailDone(r)
        PROVE  slot'[id] = slot[id]
    <3>1. pc[r] # "dropped" /\ Unfinished(r)
      BY <2>1 DEF PrepareFails, Commit, Abort, ReleaseOk, FailDone, Unfinished
    <3>2. wid[r] \in Ids /\ wid[r] # id
      BY <1>1, <3>1, DroppedNotWritten
    <3>3. PICK x : slot' = [slot EXCEPT ![wid[r]] = x]
      BY <2>1, <3>2 DEF PrepareFails, Commit, Abort, ReleaseOk, FailDone,
         WorkloadRelease, FinishTeardown, TypeOK
    <3> QED
      BY <3>2, <3>3 DEF TypeOK
  <2>2. ASSUME NEW r \in Reservation, NEW x \in Stoppers \cup {Task}, RecoverBegin(r, x)
        PROVE  slot'[id] = slot[id]
    <3>1. CASE ~Mine(r)
      BY <2>2, <3>1 DEF RecoverBegin
    <3>2. CASE Mine(r) /\ wid[r] # id
      BY <2>2, <3>2 DEF RecoverBegin, TypeOK
    <3>3. CASE Mine(r) /\ wid[r] = id
      <4>1. slot[id] = Failing(r) /\ slot[id].r = r
        BY <1>1, <3>3, SlotFields DEF Mine
      <4> QED
        BY <1>1, <2>2, <3>3, <4>1 DEF RecoverBegin, TypeOK
    <3> QED
      BY <3>1, <3>2, <3>3
  <2>3. ASSUME NEW r \in Reservation, RecoverOk(r)
        PROVE  slot'[id] \in {slot[id], Error}
    <3>1. slot[id] \notin {Stopping(r)}
      BY <1>1, SlotFields
    <3> QED
      BY <2>3, <3>1 DEF RecoverOk, FinishTeardown, TypeOK
  <2>4. ASSUME NEW i \in Ids, Reserve(i) \/ FailRunning(i) \/ FailStarting(i)
        PROVE  slot'[id] = slot[id]
    <3>1. i # id
      BY <1>1, <2>4, SlotFields DEF Reserve, FailRunning, FailStarting
    <3> QED
      BY <2>4, <3>1 DEF Reserve, FailRunning, FailStarting, TypeOK
  <2>5. ASSUME NEW s \in Stoppers, StopStep(s)
        PROVE  slot'[id] = slot[id]
    <3>1. CASE StopRunning(s)
      BY <1>1, <3>1 DEF StopRunning, TypeOK
    <3>2. CASE StopOther(s)
      <4>1. stopper[s].id # id
        BY <1>1, <3>2 DEF StopOther, StopDecides, TypeOK
      <4> QED
        BY <3>2, <4>1 DEF StopOther, TypeOK
    <3>3. CASE StopCollect(s)
      <4>1. slot[id] # Error
        BY <1>1, SlotFields
      <4> QED
        BY <3>3, <4>1 DEF StopCollect, TypeOK
    <3> QED
      BY <2>5, <3>1, <3>2, <3>3 DEF StopStep, StopBegin, StopCancelled
  <2>6. CASE UNCHANGED slot
    BY <2>6
  <2> QED
    BY <1>1, <2>1, <2>2, <2>3, <2>4, <2>5, <2>6
    DEF Next, vars, StartStep, ReleaseStep,
       RecoverStep, AcquirePermit, PrepareDone, BindBegin, BindApply, BindDone,
       UnbindApply, UnbindOk, UnbindErr, ReleaseErr, Cancel, RecoverGone, RecoverErr,
       FailUnbind, HostStop, HostStopped
<1>2. IndInv /\ [Next]_vars =>
        [\A id \in Ids :
           slot[id].st = "failing" /\ recov[id] = slot[id].r /\ retain[slot[id].r]
             => slot'[id] \in {slot[id], Error} \/ StopDecides(id)]_vars
  BY <1>1
<1> QED
  BY <1>2, Invariance, PTL DEF Spec, ReportedFailureKept

-----------------------------------------------------------------------------
(* WorkloadLifecycle implements WorkloadIds.                               *)

\* The workload behind a held or running slot.
LEMMA IncOf ==
  ASSUME TypeOK, NEW i \in Ids, slot[i].r # 0
  PROVE  PromisedInc(i) = of[slot[i].r]
BY DEF PromisedInc

\* A step that writes neither slots nor entries is invisible in the promise.
LEMMA Stutter ==
  ASSUME IndInv, UNCHANGED <<slot, of, bound>>
  PROVE  UNCHANGED Promise!vars
BY DEF Promise!vars, PromisedInc

\* How a write of one slot shows in the promise.
LEMMA SlotStep ==
  ASSUME IndInv, NEW i \in Ids, NEW x \in Slot,
         slot' = [slot EXCEPT ![i] = x],
         \A q \in Reservation : q < next => of'[q] = of[q],
         UNCHANGED bound
  PROVE  /\ [j \in Ids |-> slot[j].st]' = [[j \in Ids |-> slot[j].st] EXCEPT ![i] = x.st]
         /\ [j \in Ids |-> PromisedInc(j)]' = [[j \in Ids |-> PromisedInc(j)] EXCEPT ![i] = IF x.r = 0 THEN 0 ELSE of'[x.r]]
         /\ UNCHANGED bound
<1>1. TypeOK /\ SlotOwners
  BY DEF IndInv
<1>2. slot'[i] = x /\ \A j \in Ids : j # i => slot'[j] = slot[j]
  BY <1>1 DEF TypeOK
<1>3. \A j \in Ids : j # i => PromisedInc(j)' = PromisedInc(j)
  <2> SUFFICES ASSUME NEW j \in Ids, j # i PROVE PromisedInc(j)' = PromisedInc(j)
    OBVIOUS
  <2>1. slot[j].r # 0 => slot[j].r \in Reservation /\ slot[j].r < next
    <3>1. slot[j] \in Slot /\ slot[j].st \in SlotState
      BY <1>1 DEF TypeOK, Slot
    <3> QED
      BY <1>1, <3>1, SlotFields DEF SlotOwners, SlotOwner, Held, SlotState
  <2> QED
    BY <1>2, <2>1 DEF PromisedInc
<1>4. PromisedInc(i)' = IF x.r = 0 THEN 0 ELSE of'[x.r]
  BY <1>2 DEF PromisedInc
<1>5. [j \in Ids |-> slot[j].st]' = [[j \in Ids |-> slot[j].st] EXCEPT ![i] = x.st]
  <2>1. \A j \in Ids : slot'[j].st = IF j = i THEN x.st ELSE slot[j].st
    BY <1>2
  <2> QED
    BY <2>1
<1>6. [j \in Ids |-> PromisedInc(j)]' = [[j \in Ids |-> PromisedInc(j)] EXCEPT ![i] = IF x.r = 0 THEN 0 ELSE of'[x.r]]
  <2>1. \A j \in Ids : PromisedInc(j)' = IF j = i THEN (IF x.r = 0 THEN 0 ELSE of'[x.r]) ELSE PromisedInc(j)
    BY <1>3, <1>4
  <2> QED
    BY ZenonT(60), <2>1 DEF PromisedInc
<1> QED
  BY <1>5, <1>6

\* How the slot of an unfinished operation shows in the promise.
LEMMA Observed ==
  ASSUME IndInv, NEW r \in Reservation, Unfinished(r)
  PROVE  /\ wid[r] \in Ids /\ Mine(r) /\ Held(wid[r]) /\ slot[wid[r]] \in Slot
         /\ slot[wid[r]].r = r /\ PromisedInc(wid[r]) = of[r] /\ kind[r] # "none"
         /\ [j \in Ids |-> slot[j].st][wid[r]] = slot[wid[r]].st
         /\ [j \in Ids |-> PromisedInc(j)][wid[r]] = of[r]
<1>1. TypeOK /\ Minting /\ SlotOwners /\ Ownership
  BY DEF IndInv
<1>2. /\ wid[r] \in Ids /\ Mine(r) /\ Held(wid[r]) /\ slot[wid[r]] \in Slot
      /\ slot[wid[r]].r = r /\ kind[r] # "none"
  BY <1>1, Holder
<1>3. PromisedInc(wid[r]) = of[r]
  BY <1>2, ResNat DEF PromisedInc
<1> QED
  BY <1>2, <1>3

\* A slot that goes to Failing or Stopping is the promise's Doom.
LEMMA MapDoom ==
  ASSUME IndInv, NEW i \in Ids, NEW x \in Slot,
         slot' = [slot EXCEPT ![i] = x],
         \/ slot[i].st = "starting" /\ x.st \in {"failing", "stopping"}
         \/ slot[i].st \in {"failing", "running"} /\ x.st = "stopping",
         x.r # 0, of'[x.r] = PromisedInc(i),
         \A q \in Reservation : q < next => of'[q] = of[q],
         UNCHANGED bound
  PROVE  Promise!Next
<1>1. /\ [j \in Ids |-> slot[j].st]' = [[j \in Ids |-> slot[j].st] EXCEPT ![i] = x.st]
      /\ [j \in Ids |-> PromisedInc(j)]' = [[j \in Ids |-> PromisedInc(j)] EXCEPT ![i] = PromisedInc(i)]
  BY ZenonT(60), SlotStep
<1>2. [j \in Ids |-> PromisedInc(j)]' = [j \in Ids |-> PromisedInc(j)]
  BY <1>1
<1>3. Promise!Doom(i)
  BY <1>1, <1>2 DEF Promise!Doom
<1> QED
  BY <1>3 DEF Promise!Next

\* Doom by a mark that keeps the slot's reservation.
LEMMA MapMark ==
  ASSUME IndInv, NEW i \in Ids, NEW x \in Slot,
         slot' = [slot EXCEPT ![i] = x], x.r = slot[i].r, x.r # 0,
         \/ slot[i].st = "starting" /\ x.st \in {"failing", "stopping"}
         \/ slot[i].st = "failing" /\ x.st = "stopping",
         UNCHANGED <<of, bound>>
  PROVE  Promise!Next
<1>1. PromisedInc(i) = of[slot[i].r]
  BY DEF PromisedInc
<1>2. of'[x.r] = PromisedInc(i) /\ \A q \in Reservation : q < next => of'[q] = of[q]
  BY <1>1
<1> QED
  BY <1>2, MapDoom

\* A teardown that leaves no entry of its workload is the promise's Vacate.
LEMMA MapVacate ==
  ASSUME IndInv, NEW i \in Ids, NEW x \in {Free, Error},
         slot' = [slot EXCEPT ![i] = x],
         \/ slot[i].st \in {"starting", "stopping"} /\ x = Free
         \/ slot[i].st = "failing" /\ x = Error,
         \A b \in Binding : bound[i][b] # PromisedInc(i),
         UNCHANGED <<of, bound>>
  PROVE  Promise!Next
<1>0. x \in Slot /\ x.r = 0
  BY SlotTypes, SlotFields
<1>1. /\ [j \in Ids |-> slot[j].st]' = [[j \in Ids |-> slot[j].st] EXCEPT ![i] = x.st]
      /\ [j \in Ids |-> PromisedInc(j)]' = [[j \in Ids |-> PromisedInc(j)] EXCEPT ![i] = 0]
  BY <1>0, SlotStep
<1>2. Promise!Vacate(i)
  BY <1>1, SlotFields DEF Promise!Vacate
<1> QED
  BY <1>2 DEF Promise!Next

\* An entry removed under a marked slot is the promise's Detach.
LEMMA MapDetach ==
  ASSUME IndInv, NEW i \in Ids, NEW b \in Binding,
         slot[i].st \in {"failing", "stopping"},
         bound' = [bound EXCEPT ![i][b] = 0], UNCHANGED <<slot, of>>
  PROVE  Promise!Next
<1>1. Promise!Detach(i, b)
  BY DEF Promise!Detach, PromisedInc
<1> QED
  BY <1>1 DEF Promise!Next

\* An Error dropped by a stop is the promise's Collect.
LEMMA MapCollect ==
  ASSUME IndInv, NEW i \in Ids, slot[i].st = "error",
         slot' = [slot EXCEPT ![i] = Free], UNCHANGED <<of, bound>>
  PROVE  Promise!Next
<1>0. Free \in Slot /\ Free.r = 0 /\ Free.st = "free" /\ PromisedInc(i) = 0
  BY SlotTypes, SlotFields DEF IndInv, SlotOwners, SlotOwner, PromisedInc
<1>1. /\ [j \in Ids |-> slot[j].st]' = [[j \in Ids |-> slot[j].st] EXCEPT ![i] = "free"]
      /\ [j \in Ids |-> PromisedInc(j)]' = [[j \in Ids |-> PromisedInc(j)] EXCEPT ![i] = 0]
  BY <1>0, SlotStep
<1>2. [j \in Ids |-> PromisedInc(j)]' = [j \in Ids |-> PromisedInc(j)]
  BY <1>0, <1>1
<1>3. Promise!Collect(i)
  BY <1>1, <1>2 DEF Promise!Collect
<1> QED
  BY <1>3 DEF Promise!Next

\* workload_reserve claims the id for a workload nobody has seen.
LEMMA ReserveMaps ==
  ASSUME IndInv, NEW id \in Ids, Reserve(id)
  PROVE  Promise!Next
<1> TypeOK /\ Minting /\ SlotOwners /\ JournalsCover
  BY DEF IndInv
<1>1. /\ slot[id] = Free /\ next \in Reservation /\ slot' = [slot EXCEPT ![id] = Starting(next)]
      /\ Starting(next) \in Slot /\ of' = [of EXCEPT ![next] = next] /\ UNCHANGED bound
  BY SlotTypes, Zero DEF Reserve, Mint
<1>2. /\ \A q \in Reservation : q < next => of'[q] = of[q]
      /\ of'[next] = next /\ next # 0 /\ next \in Nat
  BY <1>1, ResNat DEF TypeOK
<1>x. PICK x \in Slot : x = Starting(next)
  BY <1>1
<1>3. /\ [j \in Ids |-> slot[j].st]' = [[j \in Ids |-> slot[j].st] EXCEPT ![id] = "starting"]
      /\ [j \in Ids |-> PromisedInc(j)]' = [[j \in Ids |-> PromisedInc(j)] EXCEPT ![id] = next]
  <2>1. /\ slot' = [slot EXCEPT ![id] = x] /\ x.st = "starting"
        /\ next = IF x.r = 0 THEN 0 ELSE of'[x.r]
    BY <1>1, <1>2, <1>x, SlotFields
  <2>2. /\ [j \in Ids |-> slot[j].st]' = [[j \in Ids |-> slot[j].st] EXCEPT ![id] = x.st]
        /\ [j \in Ids |-> PromisedInc(j)]' = [[j \in Ids |-> PromisedInc(j)] EXCEPT ![id] = IF x.r = 0 THEN 0 ELSE of'[x.r]]
    BY ZenonT(60), <2>1, <1>1, <1>2, SlotStep
  <2> QED
    BY <2>1, <2>2
<1>4. ASSUME NEW i \in Ids PROVE PromisedInc(i) # next
  <2>1. slot[i].r # 0 => slot[i].r \in Reservation /\ slot[i].r < next
    <3>1. slot[i].st \in SlotState
      BY DEF TypeOK, Slot
    <3> QED
      BY <3>1, SlotFields DEF SlotOwners, SlotOwner, Held, SlotState
  <2>2. slot[i].r # 0 => of[slot[i].r] < next
    BY <2>1, <1>2, ResNat DEF Minting
  <2> QED
    BY <2>2, <1>2 DEF PromisedInc
<1>5. \A i \in Ids, b \in Binding : bound[i][b] # next
  BY <1>2 DEF JournalsCover, TypeOK
<1>6. Promise!New(next)
  BY <1>2, <1>4, <1>5 DEF Promise!New
<1>7. [j \in Ids |-> PromisedInc(j)]'[id] = next
  BY <1>3
<1>8. Promise!Claim(id)
  BY <1>1, <1>3, <1>6, <1>7, SlotFields DEF Promise!Claim
<1> QED
  BY <1>8 DEF Promise!Next

\* A committed start runs with all of its bindings.
LEMMA CommitMaps ==
  ASSUME IndInv, NEW r \in Reservation, Commit(r)
  PROVE  Promise!Next
<1> TypeOK /\ Minting /\ JournalsCover
  BY DEF IndInv
<1>1. Unfinished(r)
  BY DEF Commit, Unfinished
<1>2. wid[r] \in Ids /\ PromisedInc(wid[r]) = of[r] /\ of[r] = r
  <2>1. wid[r] \in Ids /\ PromisedInc(wid[r]) = of[r] /\ Held(wid[r]) /\ kind[r] # "none"
    BY <1>1, Observed
  <2>2. kind[r] \in Kinds /\ kind[r] # "stop" /\ kind[r] # "fail"
    BY DEF Commit, Minting, TypeOK
  <2> QED
    BY <2>1, <2>2 DEF Kinds, Minting
<1>3. /\ slot[wid[r]] = Starting(r) /\ slot' = [slot EXCEPT ![wid[r]] = Running(r)]
      /\ Running(r) \in Slot /\ UNCHANGED <<of, bound>>
  BY SlotTypes, Zero DEF Commit, Goto
<1>4. \A b \in Binding : bound[wid[r]][b] = r
  BY DEF Commit, JournalsCover, JournalCovers
<1>5. /\ [j \in Ids |-> slot[j].st]' = [[j \in Ids |-> slot[j].st] EXCEPT ![wid[r]] = "running"]
      /\ [j \in Ids |-> PromisedInc(j)]' = [[j \in Ids |-> PromisedInc(j)] EXCEPT ![wid[r]] = r]
  <2>1. PICK x \in Slot : x = Running(r)
    BY <1>3
  <2>2. /\ slot' = [slot EXCEPT ![wid[r]] = x] /\ x.st = "running"
        /\ r = IF x.r = 0 THEN 0 ELSE of'[x.r]
        /\ \A q \in Reservation : q < next => of'[q] = of[q]
    BY <1>2, <1>3, <2>1, ResNat, SlotFields
  <2>3. /\ [j \in Ids |-> slot[j].st]' = [[j \in Ids |-> slot[j].st] EXCEPT ![wid[r]] = x.st]
        /\ [j \in Ids |-> PromisedInc(j)]' = [[j \in Ids |-> PromisedInc(j)] EXCEPT ![wid[r]] = IF x.r = 0 THEN 0 ELSE of'[x.r]]
    BY ZenonT(60), <2>2, <1>2, <1>3, SlotStep
  <2> QED
    BY <2>2, <2>3
<1>6. [j \in Ids |-> PromisedInc(j)]' = [j \in Ids |-> PromisedInc(j)]
  BY <1>2, <1>5
<1>7. PICK i \in Ids : i = wid[r]
  BY <1>2
<1>8. Promise!Run(i)
  BY <1>2, <1>3, <1>4, <1>5, <1>6, <1>7, SlotFields DEF Promise!Run
<1> QED
  BY <1>8 DEF Promise!Next

\* A failed start dooms its workload, or changes nothing the promise shows.
LEMMA AbortMaps ==
  ASSUME IndInv, NEW r \in Reservation, Abort(r)
  PROVE  Promise!Next \/ UNCHANGED Promise!vars
<1>1. Unfinished(r) /\ UNCHANGED <<of, bound>>
  BY DEF Abort, Goto, Unfinished
<1>2. /\ wid[r] \in Ids /\ PromisedInc(wid[r]) = of[r]
  BY <1>1, Observed
<1>3. UNCHANGED slot \/ (slot[wid[r]] = Starting(r) /\ slot' = [slot EXCEPT ![wid[r]] = Failing(r)])
  <2>1. slot = [slot EXCEPT ![wid[r]] = slot[wid[r]]]
    BY DEF IndInv, TypeOK
  <2> QED
    BY <2>1 DEF Abort
<1>4. CASE UNCHANGED slot
  BY <1>1, <1>4, Stutter
<1>5. CASE slot[wid[r]] = Starting(r) /\ slot' = [slot EXCEPT ![wid[r]] = Failing(r)]
  <2>1. PICK x \in Slot : x = Failing(r)
    BY SlotTypes, Zero
  <2>2. x.r = slot[wid[r]].r /\ x.r # 0 /\ x.st = "failing" /\ slot[wid[r]].st = "starting"
    BY <2>1, <1>5, SlotFields, ResNat
  <2> QED
    BY <2>1, <2>2, <1>1, <1>2, <1>5, MapMark
<1> QED
  BY <1>3, <1>4, <1>5

\* A recovery that begins dooms the workload, or changes nothing shown.
LEMMA RecoverBeginMaps ==
  ASSUME IndInv, NEW r \in Reservation, NEW x \in Stoppers \cup {Task}, RecoverBegin(r, x)
  PROVE  Promise!Next \/ UNCHANGED Promise!vars
<1>1. UNCHANGED <<of, bound>>
  BY DEF RecoverBegin, ops
<1>2. CASE UNCHANGED slot
  BY <1>1, <1>2, Stutter
<1>3. CASE slot' # slot
  <2>1. Mine(r) /\ slot' = [slot EXCEPT ![wid[r]] = Stopping(r)]
    <3>1. slot = [slot EXCEPT ![wid[r]] = slot[wid[r]]]
      BY DEF IndInv, TypeOK
    <3> QED
      BY <3>1, <1>3 DEF RecoverBegin
  <2>2. slot[wid[r]] # Stopping(r)
    BY <2>1, <1>3 DEF IndInv, TypeOK
  <2>3. wid[r] \in Ids
    <3>1. pc[r] = "dropped"
      BY DEF RecoverBegin, Callers, IndInv, RecoveryOwners
    <3> QED
      BY <3>1, ResNat, NextNat DEF IndInv, Minting
  <2>4. PICK y \in Slot : y = Stopping(r)
    BY SlotTypes, Zero
  <2>5. /\ slot[wid[r]].st \in {"starting", "failing"} /\ slot[wid[r]].r = r
        /\ y.st = "stopping" /\ y.r = r /\ r # 0
    BY <2>1, <2>2, <2>4, SlotFields, ResNat DEF Mine
  <2> QED
    BY <1>1, <2>1, <2>3, <2>4, <2>5, MapMark
<1> QED
  BY <1>2, <1>3

\* A stop or a failure that takes a running slot dooms its workload.
LEMMA TakeRunningMaps ==
  ASSUME IndInv, NEW id \in Ids, slot[id].st = "running", next \in Reservation,
         slot' = [slot EXCEPT ![id] = Stopping(next)],
         of' = [of EXCEPT ![next] = slot[id].r], UNCHANGED bound
  PROVE  Promise!Next
<1> TypeOK /\ Minting /\ SlotOwners
  BY DEF IndInv
<1>1. slot[id].r \in Reservation /\ of[slot[id].r] = slot[id].r
  BY DEF SlotOwners, SlotOwner, Minting
<1>2. PromisedInc(id) = slot[id].r /\ of'[next] = slot[id].r
  BY <1>1, ResNat DEF PromisedInc, TypeOK
<1>3. \A q \in Reservation : q < next => of'[q] = of[q]
  BY ResNat DEF TypeOK
<1>4. Stopping(next) \in Slot /\ Stopping(next).r = next /\ next # 0 /\ Stopping(next).st = "stopping"
  BY SlotTypes, SlotFields, Zero, ResNat
<1> QED
  BY <1>2, <1>3, <1>4, MapDoom

\* Every step of workload_stop is a step of the promise or invisible.
LEMMA StopMaps ==
  ASSUME IndInv, NEW s \in Stoppers, StopStep(s)
  PROVE  Promise!Next \/ UNCHANGED Promise!vars
<1> TypeOK /\ SlotOwners /\ RecoveryOwners
  BY DEF IndInv
<1>1. CASE StopRunning(s)
  <2>1. PICK id \in Ids : id = stopper[s].id
    BY <1>1 DEF StopRunning, RecoveryOwners
  <2> QED
    BY <1>1, <2>1, TakeRunningMaps DEF StopRunning, Mint
<1>2. CASE StopOther(s)
  <2>1. PICK id \in Ids : id = stopper[s].id
    BY <1>2 DEF StopOther, RecoveryOwners
  <2>2. slot[id].st \in SlotState \ {"running"} /\ slot = [slot EXCEPT ![id] = slot[id]] /\ slot[id] \in Slot
    BY <1>2, <2>1 DEF StopOther, TypeOK, Slot
  <2>3. UNCHANGED <<of, bound>>
    BY <1>2 DEF StopOther, ops
  <2>4. CASE slot[id].st \in {"starting", "failing"}
    <3>1. slot' = [slot EXCEPT ![id] = Stopping(slot[id].r)] /\ slot[id].r \in Reservation
      BY <1>2, <2>1, <2>4 DEF StopOther, SlotOwners, SlotOwner, Held
    <3>2. PICK y \in Slot : y = Stopping(slot[id].r)
      BY <3>1, SlotTypes, Zero
    <3>3. y.st = "stopping" /\ y.r = slot[id].r /\ y.r # 0
      BY <3>1, <3>2, SlotFields, ResNat
    <3> QED
      BY <2>3, <2>4, <3>1, <3>2, <3>3, MapMark
  <2>5. CASE slot[id].st = "stopping"
    <3>1. UNCHANGED slot
      BY <1>2, <2>1, <2>2, <2>5 DEF StopOther
    <3> QED
      BY <2>3, <3>1, Stutter
  <2>6. CASE slot[id].st = "error"
    BY <1>2, <2>1, <2>3, <2>6, MapCollect DEF StopOther
  <2>7. CASE slot[id].st = "free"
    <3>1. UNCHANGED slot
      BY <1>2, <2>1, <2>2, <2>7 DEF StopOther, SlotOwners, SlotOwner
    <3> QED
      BY <2>3, <3>1, Stutter
  <2> QED
    BY <2>2, <2>4, <2>5, <2>6, <2>7 DEF SlotState
<1>3. CASE StopCollect(s)
  <2>1. PICK id \in Ids : id = stopper[s].id
    BY <1>3 DEF StopCollect, RecoveryOwners
  <2>2. UNCHANGED <<of, bound>>
    BY <1>3 DEF StopCollect, ops
  <2>3. CASE slot[id] = Error
    BY <1>3, <2>1, <2>2, <2>3, SlotFields, MapCollect DEF StopCollect
  <2>4. CASE slot[id] # Error
    <3>1. UNCHANGED slot
      BY <1>3, <2>1, <2>4 DEF StopCollect, TypeOK
    <3> QED
      BY <2>2, <3>1, Stutter
  <2> QED
    BY <2>3, <2>4
<1>4. CASE StopCancelled(s) \/ \E id \in Ids : StopBegin(s, id)
  <2>1. UNCHANGED <<slot, of, bound>>
    BY <1>4 DEF StopCancelled, StopBegin, ops
  <2> QED
    BY <2>1, Stutter
<1> QED
  BY <1>1, <1>2, <1>3, <1>4 DEF StopStep

\* A plugin's bind attaches an entry for the workload that holds the id.
LEMMA BindApplyMaps ==
  ASSUME IndInv, NEW r \in Reservation, BindApply(r)
  PROVE  Promise!Next
<1> TypeOK /\ Minting
  BY DEF IndInv
<1>1. Unfinished(r)
  BY DEF BindApply, Unfinished
<1>2. wid[r] \in Ids /\ PromisedInc(wid[r]) = of[r] /\ Held(wid[r]) /\ of[r] = r
  <2>1. wid[r] \in Ids /\ PromisedInc(wid[r]) = of[r] /\ Held(wid[r]) /\ kind[r] # "none"
    BY <1>1, Observed
  <2>2. kind[r] \in Kinds /\ kind[r] # "stop" /\ kind[r] # "fail"
    BY DEF BindApply, Minting, TypeOK
  <2> QED
    BY <2>1, <2>2 DEF Kinds, Minting
<1>3. PICK b \in Binding : bound' = [bound EXCEPT ![wid[r]][b] = r]
  BY DEF BindApply, TypeOK
<1>4. UNCHANGED <<slot, of>>
  BY DEF BindApply, ops
<1>5. Promise!Attach(wid[r], b)
  BY <1>2, <1>3, <1>4 DEF Promise!Attach, PromisedInc, Held
<1> QED
  BY <1>2, <1>5 DEF Promise!Next

\* A plugin's unbind detaches an entry on the way out, or is invisible.
LEMMA UnbindMaps ==
  ASSUME IndInv, NEW r \in Reservation, UnbindApply(r) \/ FailUnbind(r)
  PROVE  Promise!Next \/ UNCHANGED Promise!vars
<1>1. Unfinished(r) /\ UNCHANGED <<slot, of>>
  BY DEF UnbindApply, FailUnbind, ReleaseRuns, Unfinished, ops
<1>2. wid[r] \in Ids /\ Mine(r) /\ slot[wid[r]] # Starting(r)
  BY <1>1, Observed DEF IndInv, Marked, UnbindApply, FailUnbind
<1>3. slot[wid[r]].st \in {"failing", "stopping"}
  BY <1>2, SlotFields DEF Mine
<1>4. PICK b \in Binding : bound' = [bound EXCEPT ![wid[r]][b] = 0] \/ bound' = bound
  BY DEF UnbindApply, FailUnbind, IndInv, TypeOK
<1> QED
  BY <1>1, <1>2, <1>3, <1>4, MapDetach, Stutter

\* A start that gives up and a release or recovery that ends well vacate the id.
LEMMA FinishMaps ==
  ASSUME IndInv, NEW r \in Reservation,
         PrepareFails(r) \/ ReleaseOk(r) \/ RecoverOk(r)
  PROVE  Promise!Next
<1> TypeOK /\ Minting /\ RecoveryOwners /\ JournalsCover /\ Marked
  BY DEF IndInv
<1>1. Unfinished(r)
  BY DEF PrepareFails, ReleaseOk, RecoverOk, Unfinished
<1>2. /\ wid[r] \in Ids /\ PromisedInc(wid[r]) = of[r] /\ Mine(r) /\ kind[r] # "none"
  BY <1>1, Observed, Holder DEF IndInv
<1>3. journal[r] = {} /\ kind[r] \in {"start", "stop"}
  <2>1. journal[r] = {}
    BY DEF PrepareFails, ReleaseOk, RecoverOk, ReleaseSucceeded, ReleaseRuns,
       JournalsCover, JournalCovers, TypeOK
  <2>2. pc[r] \notin {"unbinding", "done"}
    BY DEF PrepareFails, ReleaseOk, RecoverOk, RecoveryOwners
  <2>3. kind[r] # "fail" /\ kind[r] \in Kinds
    BY <2>2 DEF Minting, TypeOK
  <2> QED
    BY <2>1, <2>3, <1>2 DEF Kinds
<1>4. \A b \in Binding : bound[wid[r]][b] # of[r]
  BY <1>2, <1>3 DEF JournalsCover, JournalCovers
<1>5. UNCHANGED <<of, bound>>
  BY DEF PrepareFails, ReleaseOk, RecoverOk, Goto, ops
<1>6. PICK x \in {Free, Error} :
        /\ slot' = [slot EXCEPT ![wid[r]] = x]
        /\ \/ slot[wid[r]] \in {Starting(r), Stopping(r)} /\ x = Free
           \/ slot[wid[r]] = Failing(r) /\ x = Error
  <2>1. /\ Starting(r) # Failing(r) /\ Stopping(r) # Failing(r)
        /\ Starting(r) # Stopping(r)
    BY SlotFields
  <2>2. CASE PrepareFails(r)
    BY <2>1, <2>2, <1>2 DEF PrepareFails, WorkloadRelease, Mine, TypeOK
  <2>3. CASE ReleaseOk(r) \/ RecoverOk(r)
    <3>1. slot[wid[r]] # Starting(r)
      BY <2>3 DEF Marked, ReleaseRuns, ReleaseOk, RecoverOk
    <3> QED
      BY <2>1, <2>3, <3>1, <1>2
      DEF ReleaseOk, RecoverOk, FinishTeardown, Mine, TypeOK
  <2> QED
    BY <2>2, <2>3
<1>7. \/ slot[wid[r]].st \in {"starting", "stopping"} /\ x = Free
      \/ slot[wid[r]].st = "failing" /\ x = Error
  BY <1>6, SlotFields
<1>8. \A b \in Binding : bound[wid[r]][b] # PromisedInc(wid[r])
  BY <1>2, <1>4
<1> QED
  BY <1>2, <1>5, <1>6, <1>7, <1>8, MapVacate

\* The end of fail_workload is the promise's FailOut.
LEMMA FailDoneMaps ==
  ASSUME IndInv, NEW r \in Reservation, FailDone(r)
  PROVE  Promise!Next
<1> TypeOK /\ Minting /\ SlotOwners /\ Marked
  BY DEF IndInv
<1>1. Unfinished(r) /\ pc[r] = "unbinding"
  BY DEF FailDone, Unfinished
<1>2. wid[r] \in Ids /\ Mine(r) /\ slot[wid[r]].r = r
  BY <1>1, Observed
<1>3. slot[wid[r]] = Stopping(r)
  <2>1. kind[r] # "start"
    BY <1>1 DEF Minting
  <2>2. slot[wid[r]].st # "failing" /\ slot[wid[r]].st # "starting"
    BY <2>1, <1>2 DEF SlotOwners, SlotOwner
  <2> QED
    BY <2>2, <1>2, SlotFields DEF Mine
<1>4. slot' = [slot EXCEPT ![wid[r]] = Error] /\ UNCHANGED <<of, bound>>
  BY <1>2, <1>3 DEF FailDone, FinishTeardown, Goto, TypeOK
<1>5. /\ [j \in Ids |-> slot[j].st]' = [[j \in Ids |-> slot[j].st] EXCEPT ![wid[r]] = "error"]
      /\ [j \in Ids |-> PromisedInc(j)]' = [[j \in Ids |-> PromisedInc(j)] EXCEPT ![wid[r]] = 0]
  <2>1. PICK x \in Slot : x = Error
    BY SlotTypes
  <2>2. /\ slot' = [slot EXCEPT ![wid[r]] = x] /\ x.st = "error"
        /\ x.r = 0
        /\ \A q \in Reservation : q < next => of'[q] = of[q]
    BY <1>4, <2>1, SlotFields
  <2>3. /\ [j \in Ids |-> slot[j].st]' = [[j \in Ids |-> slot[j].st] EXCEPT ![wid[r]] = x.st]
        /\ [j \in Ids |-> PromisedInc(j)]' = [[j \in Ids |-> PromisedInc(j)] EXCEPT ![wid[r]] = IF x.r = 0 THEN 0 ELSE of'[x.r]]
    BY <2>2, <1>2, <1>4, SlotStep
  <2> QED
    BY <2>2, <2>3
<1>6. PICK i \in Ids : i = wid[r]
  BY <1>2
<1>7. Promise!FailOut(i)
  BY <1>2, <1>3, <1>4, <1>5, <1>6, SlotFields DEF Promise!FailOut
<1> QED
  BY <1>7 DEF Promise!Next

\* The host implements WorkloadIds: an id names one workload at a time, its
\* entries are made and removed only for it, and it is given back with nothing
\* left behind unless a plugin failed the workload.
THEOREM Refinement == Spec => ImplementsPromise
<1>1. Init => Promise!Init
  BY SlotFields DEF Init, Promise!Init, PromisedInc
<1>2. ASSUME IndInv, [Next]_vars PROVE [Promise!Next]_(Promise!vars)
  <2>1. ASSUME NEW id \in Ids, FailRunning(id) PROVE Promise!Next
    BY <1>2, <2>1, TakeRunningMaps DEF FailRunning, Mint
  <2>2. ASSUME NEW id \in Ids, FailStarting(id) PROVE Promise!Next
    <3>1. /\ slot[id].st = "starting" /\ slot' = [slot EXCEPT ![id] = Failing(slot[id].r)]
          /\ UNCHANGED <<of, bound>>
      BY <2>2 DEF FailStarting, ops
    <3>2. slot[id].r \in Reservation
      BY <1>2, <3>1 DEF IndInv, SlotOwners, SlotOwner, Held
    <3>3. PICK y \in Slot : y = Failing(slot[id].r)
      BY <3>2, SlotTypes, Zero
    <3>4. y.st = "failing" /\ y.r = slot[id].r /\ y.r # 0
      BY <3>2, <3>3, SlotFields, ResNat
    <3> QED
      BY <1>2, <3>1, <3>3, <3>4, MapMark
  <2>3. ASSUME NEW r \in Reservation,
               \/ AcquirePermit(r) \/ PrepareDone(r) \/ BindBegin(r) \/ BindDone(r)
               \/ UnbindOk(r) \/ UnbindErr(r) \/ ReleaseErr(r) \/ Cancel(r) \/ RecoverErr(r)
               \/ \E x \in Stoppers \cup {Task} : RecoverGone(r, x)
        PROVE  UNCHANGED Promise!vars
    <3>1. UNCHANGED <<slot, of, bound>>
      BY <2>3
      DEF AcquirePermit, PrepareDone, BindBegin, BindDone, UnbindOk, UnbindErr,
         ReleaseErr, Cancel, RecoverErr, RecoverGone, GuardDrop, Goto, ops
    <3> QED
      BY <1>2, <3>1, Stutter
  <2>4. ASSUME HostStop \/ HostStopped \/ UNCHANGED vars
        PROVE  UNCHANGED Promise!vars
    <3>1. UNCHANGED <<slot, of, bound>>
      BY <2>4 DEF HostStop, HostStopped, vars, ops
    <3> QED
      BY <1>2, <3>1, Stutter
  <2>5. ASSUME NEW r \in Reservation, StartStep(r)
        PROVE  Promise!Next \/ UNCHANGED Promise!vars
    BY <1>2, <2>3, <2>5, FinishMaps, BindApplyMaps, CommitMaps, AbortMaps
    DEF StartStep
  <2>6. ASSUME NEW r \in Reservation, ReleaseStep(r)
        PROVE  Promise!Next \/ UNCHANGED Promise!vars
    BY <1>2, <2>3, <2>6, FinishMaps, UnbindMaps DEF ReleaseStep
  <2>7. ASSUME NEW r \in Reservation, RecoverStep(r)
        PROVE  Promise!Next \/ UNCHANGED Promise!vars
    BY <1>2, <2>3, <2>7, FinishMaps, RecoverBeginMaps DEF RecoverStep
  <2> QED
    BY <1>2, <2>1, <2>2, <2>4, <2>5, <2>6, <2>7, ReserveMaps, StopMaps, UnbindMaps,
       FailDoneMaps DEF Next
<1> QED
  BY <1>1, <1>2, Invariance, PTL DEF Spec, ImplementsPromise, Promise!Spec

=============================================================================
