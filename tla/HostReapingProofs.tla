------------------------- MODULE HostReapingProofs -------------------------
(***************************************************************************)
(* JustReaps for every window, publishing interval, probe deadline and lag *)
(* of the cache. IndInv bounds how old the LastSeen of a publishing host   *)
(* can be, and how far the witness's clock can have run after an outage    *)
(* that some pass noticed; both bounds stay under the window.              *)
(***************************************************************************)
EXTENDS HostReaping, TLAPS

\* The derived bounds are integers, and Calm is inside the window.
LEMMA Bounds ==
  /\ Window \in Nat /\ Interval \in Nat /\ ProbeTimeout \in Nat /\ MaxLag \in Nat
  /\ Interval > 0 /\ Short \in Nat /\ Calm \in Nat
  /\ Window = Short + 2 * Interval + MaxLag + ProbeTimeout + 1
  /\ Calm = Interval + MaxLag + ProbeTimeout + 1
BY ReapingConstants DEF Short, Calm

LEMMA InitIndInv == Init => IndInv
<1> SUFFICES ASSUME Init PROVE IndInv
  OBVIOUS
<1>1. up /\ ~noticed /\ up \in BOOLEAN /\ noticed \in BOOLEAN
  BY Zenon DEF Init
<1>2. TypeOK
  BY <1>1, Bounds DEF Init, TypeOK, Ages, Never
<1> QED
  BY <1>1, <1>2 DEF Init, IndInv, Registered, HeardInTime, ReadInTime,
                    NoticedUnsettles

\* Saturating ages stay ages and grow by at most what passed.
LEMMA OlderAge ==
  ASSUME NEW bound \in Nat, NEW age \in 0 .. bound
  PROVE  /\ Older(age, bound) \in 0 .. bound
         /\ Older(age, bound) =< age + 1
         /\ age < bound => Older(age, bound) = age + 1
         /\ age = bound => Older(age, bound) = bound
BY DEF Older

LEMMA AgedAge ==
  ASSUME NEW age \in Ages, NEW n \in Nat
  PROVE  Aged(age, n) \in Ages /\ Aged(age, n) =< age + n
BY Bounds DEF Aged, Ages

\* Time: an outage that grows past Short, or has been over for Calm, no longer
\* matters to a host that publishes in time.
LEMMA TickStep == IndInv /\ Tick => IndInv'
<1> SUFFICES ASSUME IndInv, Tick PROVE IndInv'
  OBVIOUS
<1> USE Bounds
<1>1. TypeOK'
  BY DEF IndInv, TypeOK, Tick, conds, Older, Ages, Never
<1>2. (obj = "gone" => pass = "idle")' /\ (~up => upFor = 0)'
  BY DEF IndInv, Tick
<1>3. HeardInTime'
  BY DEF IndInv, TypeOK, Tick, Older, Ages, HeardInTime, Registered
<1>4. ReadInTime'
  BY DEF IndInv, TypeOK, Tick, Older, Ages, ReadInTime, Registered
<1>5. noticed' => noticed /\ upFor' # Calm
  BY Zenon DEF Tick
<1>6. NoticedUnsettles'
  BY <1>5 DEF IndInv, TypeOK, Tick, Older, Ages, NoticedUnsettles, Never
<1> QED BY <1>1, <1>2, <1>3, <1>4, <1>6 DEF IndInv

\* The bus, the host and the rest of the fleet.
LEMMA WorldStep ==
  IndInv /\ (BusDown \/ BusUp \/ Mute \/ PeerPublishes) => IndInv'
<1> SUFFICES ASSUME IndInv PROVE BusDown \/ BusUp \/ Mute \/ PeerPublishes => IndInv'
  OBVIOUS
<1> USE Bounds DEF IndInv, TypeOK, Ages, Never, HeardInTime, ReadInTime,
                   NoticedUnsettles, Registered, witness, conds, recon, fleet, bus
<1>1. ASSUME BusDown PROVE IndInv'
  <2>1. up /\ ~up' /\ ~noticed' /\ up' \in BOOLEAN /\ noticed' \in BOOLEAN
    BY <1>1, Zenon DEF BusDown
  <2> QED BY <1>1, <2>1 DEF BusDown
<1>2. BusUp => IndInv'
  BY DEF BusUp
<1>3. Mute => IndInv'
  BY DEF Mute
<1>4. PeerPublishes => IndInv'
  BY DEF PeerPublishes
<1> QED BY <1>1, <1>2, <1>3, <1>4

\* handleHeartbeat: whatever arrives makes LastSeen new.
LEMMA HeartbeatStep ==
  IndInv /\ (Heartbeat \/ Recover \/ RegisterUnseen) => IndInv'
<1> SUFFICES ASSUME IndInv PROVE Heartbeat \/ Recover \/ RegisterUnseen => IndInv'
  OBVIOUS
<1> USE Bounds DEF IndInv, TypeOK, Ages, Never, HeardInTime, ReadInTime, Arrive,
                   Register, NoticedUnsettles, Registered, conds, recon, fleet, bus
<1>1. Heartbeat => IndInv'
  BY DEF Heartbeat
<1>2. Recover => IndInv'
  BY DEF Recover
<1>3. RegisterUnseen => IndInv'
  BY DEF RegisterUnseen
<1> QED BY <1>1, <1>2, <1>3

\* The passes that only look: the witness's clock starts when the bus carries
\* something, and a Host is read no later than its cache lags.
LEMMA ObserveStep == IndInv /\ (OtherPass \/ BeginPass) => IndInv'
<1> USE Bounds
<1>1. ASSUME IndInv, OtherPass PROVE IndInv'
  BY <1>1 DEF IndInv, TypeOK, Ages, Never, HeardInTime, ReadInTime,
     NoticedUnsettles, Registered, conds, recon, fleet, bus, OtherPass,
     Observe, ObserveWith
<1>2. ASSUME IndInv, BeginPass PROVE IndInv'
  <2>1. PICK lag \in 0 .. MaxLag : read' = Aged(seen, lag)
    BY <1>2 DEF BeginPass
  <2>2. read' \in Ages /\ read' =< seen + MaxLag
    BY <1>2, <2>1, AgedAge DEF IndInv, TypeOK, Ages
  <2>3. TypeOK' /\ HeardInTime' /\ NoticedUnsettles'
    BY <1>2, <2>2 DEF IndInv, TypeOK, Ages, Never, HeardInTime,
       NoticedUnsettles, Registered, conds, fleet, bus, BeginPass, Observe, ObserveWith
  <2>4. ReadInTime'
    BY <1>2, <2>2 DEF IndInv, TypeOK, Ages, HeardInTime, ReadInTime, Registered,
       fleet, bus, BeginPass
  <2> QED BY <1>2, <2>3, <2>4 DEF IndInv, bus, BeginPass
<1> QED BY <1>1, <1>2

\* The end of a pass, and a new operator.
LEMMA ConcludeStep ==
  IndInv /\ (ProbeAnswered \/ FailsAnew \/ FailsAgain) => IndInv'
<1> USE Bounds DEF IndInv, TypeOK, Ages, HeardInTime, ReadInTime, Conclude,
                   NoticedUnsettles, Registered, witness, fleet, bus, Verdict
<1>1. IndInv /\ ProbeAnswered => IndInv'
  BY DEF ProbeAnswered
<1>2. IndInv /\ FailsAnew => IndInv'
  BY DEF FailsAnew
<1>3. IndInv /\ FailsAgain => IndInv'
  BY DEF FailsAgain
<1> QED BY <1>1, <1>2, <1>3

LEMMA EndStep == IndInv /\ (PassFails \/ Finalize \/ Restart) => IndInv'
<1> USE Bounds DEF IndInv, TypeOK, Ages, Never, HeardInTime, ReadInTime,
                   NoticedUnsettles, Registered, witness, conds, recon, fleet, bus
<1>1. IndInv /\ PassFails => IndInv'
  BY DEF PassFails
<1>2. IndInv /\ Finalize => IndInv'
  BY DEF Finalize
<1>3. IndInv /\ Restart => IndInv'
  BY DEF Restart
<1> QED BY <1>1, <1>2, <1>3

\* A stuttering step.
LEMMA StutterStep == IndInv /\ UNCHANGED vars => IndInv'
BY DEF IndInv, TypeOK, HeardInTime, ReadInTime, NoticedUnsettles, Registered,
       vars, witness, conds, recon, fleet, bus

\* How old a publishing host's LastSeen can be, and what a noticed outage does
\* to the witness, for every choice of the timings (host_controller.go).
THEOREM ReapingInvariance == Spec => []IndInv
<1>1. IndInv /\ [Next]_vars => IndInv'
  BY TickStep, WorldStep, HeartbeatStep, ObserveStep, ConcludeStep, EndStep,
     StutterStep DEF Next
<1> QED BY <1>1, InitIndInv, PTL DEF Spec

\* Every reachable state of the reaping model is well typed.
THEOREM ReapingTyped == Spec => []TypeOK
<1>1. IndInv => TypeOK
  BY DEF IndInv
<1> QED BY <1>1, ReapingInvariance, PTL

\* A verdict against a host that is well takes a LastSeen and a settled witness
\* that only a long outage nobody noticed can bring about.
LEMMA JustVerdict ==
  IndInv /\ pass = "probing" /\ Registered /\ Verdict = "false"
    => dur > Short /\ ~noticed
BY Bounds DEF IndInv, TypeOK, Ages, Never, ReadInTime, NoticedUnsettles,
              Registered, Verdict, Settled

\* A host that published in time ever since it was registered is condemned
\* only around a long outage that no pass has noticed yet, and deleted only
\* once condemned (reconcileReady, deleteUnresponsiveHost).
THEOREM ReapingJust == Spec => JustReaps
<1> DEFINE Just ==
      status = "well" =>
        /\ ready # "false" /\ ready' = "false" => dur > Short /\ ~noticed
        /\ obj = "present" /\ obj' = "deleting" => ready' = "false"
<1>1. IndInv /\ [Next]_vars => [Just]_vars
  <2> SUFFICES ASSUME IndInv, Next PROVE Just
    OBVIOUS
  <2>1. CASE ProbeAnswered \/ FailsAnew \/ FailsAgain
    <3>1. obj # "gone"
      BY <2>1 DEF IndInv, ProbeAnswered, FailsAnew, FailsAgain, Conclude
    <3> QED
      BY <2>1, <3>1, JustVerdict DEF ProbeAnswered, FailsAnew, FailsAgain,
         Conclude, Unresponsive, Registered
  <2>2. CASE ~(ProbeAnswered \/ FailsAnew \/ FailsAgain)
    <3>1. /\ ready' = ready \/ ready' = "unknown"
          /\ obj' = obj \/ obj' # "deleting"
      BY <2>2 DEF Next, Tick, BusDown, BusUp, Mute, PeerPublishes,
         Heartbeat, Recover, RegisterUnseen, Arrive, Register, OtherPass,
         BeginPass, PassFails, Finalize, Restart, conds
    <3> QED BY <3>1
  <2> QED BY <2>1, <2>2
<1> QED BY <1>1, ReapingInvariance, PTL DEF Spec, JustReaps

=============================================================================
