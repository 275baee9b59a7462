---------------------------- MODULE HostReaping ----------------------------
(***************************************************************************)
(* How the operator decides that a host is gone (host_controller.go): the  *)
(* reconcile passes of one Host, the heartbeats pushed over NATS, and the  *)
(* fleet witness that keeps the operator's own deafness from being charged *)
(* to the hosts.  A Host that is deleted takes its Workloads with it.      *)
(*                                                                         *)
(* Time is a count of units; every timestamp is kept as its age, up to     *)
(* Window, beyond which no comparison in the code tells ages apart (a zero *)
(* time has age Window too).  The other hosts of the fleet are one stream  *)
(* of heartbeats and of passes; passes of one Host never overlap.          *)
(***************************************************************************)
EXTENDS Integers

CONSTANTS
  Window,        \* UnreachableTimeout
  Interval,      \* the longest a host goes without publishing
  ProbeTimeout,  \* hostHeartbeatTimeout
  MaxLag         \* how far the operator's cache trails the stored Host

(* An outage no longer than this leaves a host's last heartbeat inside the *)
(* window, even as a pass learns of it last.                               *)
Short == Window - 2 * Interval - MaxLag - ProbeTimeout - 1

(* Outages are at least this far apart: every host is heard in between,    *)
(* and the passes that read the Host before that are over.                 *)
Calm == Interval + MaxLag + ProbeTimeout + 1

ASSUME ReapingConstants ==
  /\ Interval \in Nat \ {0} /\ {ProbeTimeout, MaxLag} \subseteq Nat
  /\ Window \in Nat /\ Short >= 0

VARIABLES
  lastHeard,   \* fleetWitness.lastHeard
  heardSince,  \* fleetWitness.heardSince, Never when it is zero
  obj,         \* the Host: "gone", "present", "deleting"
  seen,        \* its Status.LastSeen
  reporting,   \* its Reporting condition
  ready,       \* its Ready condition
  pass,        \* where its reconcile pass is
  read,        \* Status.LastSeen as that pass read it
  spent,       \* how long the pass has been probing
  status,      \* the host: "well", "mute", or "back" after being mute
  pub,         \* since it last published
  up,          \* does NATS carry anything?
  upFor,       \* for how long, up to Calm
  dur,         \* history: length, up to Short + 1, of the outage not over for Calm
  noticed      \* history: some pass found the fleet unheard since it began

witness == <<lastHeard, heardSince>>
conds == <<reporting, ready>>
recon == <<pass, read, spent>>
fleet == <<status, pub>>
bus == <<up, upFor, dur>>
vars == <<witness, obj, seen, conds, recon, fleet, bus, noticed>>

Never == -1
Ages == 0 .. Window

TypeOK ==
  /\ lastHeard \in Ages /\ heardSince \in Ages \cup {Never}
  /\ obj \in {"gone", "present", "deleting"}
  /\ seen \in Ages
  /\ {reporting, ready} \subseteq {"unknown", "true", "false"}
  /\ pass \in {"idle", "probing"}
  /\ read \in Ages /\ spent \in 0 .. ProbeTimeout
  /\ status \in {"well", "mute", "back"} /\ pub \in 0 .. Interval
  /\ up \in BOOLEAN /\ upFor \in 0 .. Calm /\ dur \in 0 .. Short + 1
  /\ noticed \in BOOLEAN

(* The operator has just started beside a fleet it has not heard yet. *)
Init ==
  /\ lastHeard = Window /\ heardSince = Never
  /\ obj = "gone" /\ seen = Window
  /\ reporting = "unknown" /\ ready = "unknown"
  /\ pass = "idle" /\ read = 0 /\ spent = 0
  /\ status = "well" /\ pub = Interval
  /\ up = TRUE /\ upFor = Calm /\ dur = 0
  /\ noticed = FALSE

Older(age, bound) == IF age < bound THEN age + 1 ELSE age
Aged(age, n) == IF age + n < Window THEN age + n ELSE Window

-----------------------------------------------------------------------------
(* Time and faults.                                                        *)

(* One unit passes. A host that is well publishes in time, and a probe is  *)
(* over when its deadline is.                                              *)
Tick ==
  /\ status # "mute" => pub < Interval
  /\ pass = "probing" => spent < ProbeTimeout
  /\ lastHeard' = Older(lastHeard, Window)
  /\ heardSince' = IF heardSince = Never THEN Never ELSE Older(heardSince, Window)
  /\ seen' = Older(seen, Window)
  /\ IF pass = "probing" THEN spent' = spent + 1 /\ read' = Older(read, Window)
                         ELSE UNCHANGED <<spent, read>>
  /\ pub' = IF status = "mute" THEN 0 ELSE Older(pub, Interval)
  /\ upFor' = IF up THEN Older(upFor, Calm) ELSE upFor
  /\ dur' = IF up THEN IF upFor' = Calm THEN 0 ELSE dur ELSE Older(dur, Short + 1)
  /\ noticed' = (noticed /\ upFor' # Calm)
  /\ UNCHANGED <<obj, conds, pass, status, up>>

(* The bus stops carrying anything: connection, routes or subscription.    *)
BusDown ==
  /\ up /\ upFor = Calm
  /\ up' = FALSE /\ upFor' = 0 /\ dur' = 0 /\ noticed' = FALSE
  /\ UNCHANGED <<witness, obj, seen, conds, recon, fleet>>

BusUp ==
  /\ ~up
  /\ up' = TRUE /\ upFor' = 0
  /\ UNCHANGED <<witness, obj, seen, conds, recon, fleet, dur, noticed>>

(* The host dies, is cut off, or its heartbeats are no longer recorded. *)
Mute ==
  /\ status # "mute"
  /\ status' = "mute" /\ pub' = 0
  /\ UNCHANGED <<witness, obj, seen, conds, recon, bus, noticed>>

(* Another host's heartbeat, or one of this host that is not recorded. *)
PeerPublishes ==
  /\ up
  /\ lastHeard' = 0
  /\ UNCHANGED <<heardSince, obj, seen, conds, recon, status, pub, bus,
                 noticed>>

-----------------------------------------------------------------------------
(* handleHeartbeat: arrival is stamped before the bookkeeping, which       *)
(* registers an unknown host and always refreshes LastSeen.                *)

Register ==
  IF obj = "gone"
    THEN obj' = "present" /\ reporting' = "unknown" /\ ready' = "unknown"
    ELSE UNCHANGED <<obj, conds>>

Arrive == lastHeard' = 0 /\ seen' = 0 /\ Register

Heartbeat ==
  /\ status # "mute" /\ pub > 0
  /\ pub' = 0
  /\ IF up THEN Arrive ELSE UNCHANGED <<lastHeard, seen, obj, conds>>
  /\ UNCHANGED <<heardSince, recon, status, bus, noticed>>

(* A host that was mute is heard again. *)
Recover ==
  /\ status = "mute" /\ up
  /\ status' = (IF obj = "gone" THEN "well" ELSE "back")
  /\ pub' = 0 /\ Arrive
  /\ UNCHANGED <<heardSince, recon, bus, noticed>>

(* The Host is applied and the patch of its status fails: LastSeen is zero. *)
RegisterUnseen ==
  /\ status = "mute" /\ up /\ obj = "gone"
  /\ lastHeard' = 0 /\ seen' = Window /\ Register
  /\ UNCHANGED <<heardSince, recon, fleet, bus, noticed>>

-----------------------------------------------------------------------------
(* fleetWitness.                                                           *)

ObserveWith(resumed) ==
  /\ heardSince' = IF lastHeard >= Window THEN Never
                   ELSE IF heardSince = Never \/ resumed THEN 0 ELSE heardSince
  /\ noticed' = (noticed \/ (lastHeard >= Window /\ upFor < Calm))

\* Mutant: the grace period starts over with every observation.
ObserveRestarts == ObserveWith(TRUE)

\* Mutant: a gap in what was heard does not stop the clock.
ObserveKeeps ==
  /\ heardSince' = IF heardSince = Never THEN 0 ELSE heardSince
  /\ noticed' = (noticed \/ (lastHeard >= Window /\ upFor < Calm))

Observe == ObserveWith(FALSE)

\* Mutant: arrival alone settles the fleet.
SettledByArrival == lastHeard < Window

Settled == lastHeard < Window /\ heardSince # Never /\ heardSince >= Window

(* A pass of another Host. *)
OtherPass ==
  /\ Observe
  /\ UNCHANGED <<lastHeard, obj, seen, conds, recon, fleet, bus>>

-----------------------------------------------------------------------------
(* A reconcile pass: observe, probe, the two conditions, the status patch, *)
(* and the post-hook.                                                      *)

(* reconcileReporting, up to its probe. The Host comes from the cache. *)
BeginPass ==
  /\ pass = "idle" /\ obj # "gone"
  /\ Observe
  /\ \E lag \in 0 .. MaxLag : read' = Aged(seen, lag)
  /\ pass' = "probing" /\ spent' = 0
  /\ UNCHANGED <<lastHeard, obj, seen, conds, fleet, bus>>

(* deleteUnresponsiveHost: only a definite verdict counts. *)
Unresponsive(r) == r = "false"

(* Reporting and Ready are stored together; a Reporting that changed ends  *)
(* the pass's conditions before Ready is looked at. Then the post-hook     *)
(* goes by the Ready it finds, old or new; its delete may fail.            *)
Conclude(r, changed, verdict) ==
  /\ pass = "probing"
  /\ pass' = "idle" /\ read' = 0 /\ spent' = 0
  /\ reporting' = r
  /\ ready' = IF changed THEN ready ELSE verdict
  /\ \/ UNCHANGED obj
     \/ Unresponsive(ready') /\ obj' = "deleting"
  /\ UNCHANGED <<witness, fleet, bus, noticed>>

(* The probe is answered: LastSeen is refreshed. *)
ProbeAnswered ==
  /\ up /\ status # "mute"
  /\ Conclude("true", reporting # "true", "true")
  /\ seen' = 0

(* reconcileReady of a host that is not reporting. *)
Verdict == IF read < Window \/ ~Settled THEN "unknown" ELSE "false"

(* The probe failed, with a reason the condition does not name yet, or the *)
(* one it names.                                                           *)
FailsAnew == Conclude("false", TRUE, Verdict) /\ UNCHANGED seen

FailsAgain ==
  /\ reporting = "false"
  /\ Conclude("false", FALSE, Verdict)
  /\ UNCHANGED seen

(* The status patch fails and the pass ends in an error. *)
PassFails ==
  /\ pass = "probing"
  /\ pass' = "idle" /\ read' = 0 /\ spent' = 0
  /\ UNCHANGED <<witness, obj, seen, conds, fleet, bus, noticed>>

(* A pass over a Host that is being deleted: finalize, then it is gone. *)
Finalize ==
  /\ pass = "idle" /\ obj = "deleting"
  /\ obj' = "gone" /\ seen' = Window
  /\ reporting' = "unknown" /\ ready' = "unknown"
  /\ UNCHANGED <<witness, recon, fleet, bus, noticed>>

(* The operator starts again with a witness that has heard nothing. *)
Restart ==
  /\ lastHeard' = Window /\ heardSince' = Never
  /\ pass' = "idle" /\ read' = 0 /\ spent' = 0
  /\ UNCHANGED <<obj, seen, conds, fleet, bus, noticed>>

Next ==
  \/ Tick \/ BusDown \/ BusUp \/ Mute \/ PeerPublishes
  \/ Heartbeat \/ Recover \/ RegisterUnseen \/ OtherPass
  \/ BeginPass \/ ProbeAnswered \/ FailsAnew \/ FailsAgain \/ PassFails
  \/ Finalize \/ Restart

Spec == Init /\ [][Next]_vars

(* Time passes; passes run, and not all of them fail, find a new reason    *)
(* for a failed probe, or cannot delete the Host.                          *)
LiveSpec ==
  /\ Spec
  /\ WF_vars(Tick) /\ WF_vars(BeginPass) /\ SF_vars(FailsAnew)
  /\ SF_vars(FailsAgain /\ obj' = "deleting")

-----------------------------------------------------------------------------
(* Properties.                                                             *)

(* "This host's silence is the host's own": a host that published in time  *)
(* ever since it was registered is condemned only around an outage that is *)
(* longer than Short and that no pass has noticed yet, and is deleted only *)
(* once condemned. A short outage, one that has been noticed, failing      *)
(* probes, lagging reads and restarts cost nobody its Workloads, in        *)
(* whatever order the heartbeats arrive afterwards.                        *)
JustReaps ==
  [][status = "well" =>
       /\ ready # "false" /\ ready' = "false" => dur > Short /\ ~noticed
       /\ obj = "present" /\ obj' = "deleting" => ready' = "false"]_vars

(* "Requiring the whole window keeps the ones that have not ticked from    *)
(* being condemned on their neighbours": what the fleet witness's comment  *)
(* says of hosts that never stopped publishing.                            *)
DeafnessCondemnsNobody ==
  [][status = "well" /\ ready # "false" => ready' # "false"]_vars

(* A host that stays silent while the operator goes on hearing others does *)
(* not keep its Host: whatever the passes and probes before went through,  *)
(* the Host is deleted, and its Workloads are moved.                       *)
DeadIsReaped ==
  <>[](status = "mute" /\ lastHeard < Window) => []<>(obj # "present")

-----------------------------------------------------------------------------
(* The inductive invariant of JustReaps.                                   *)

Registered == status = "well" /\ obj # "gone"

(* LastSeen of a host that is well: heard since its last turn to publish,  *)
(* or else the outage ended less than a turn ago, or has not.              *)
HeardInTime ==
  Registered =>
    IF up THEN \/ seen =< pub
               \/ upFor =< pub /\ (dur =< Short => seen =< Interval + dur + upFor)
          ELSE dur =< Short => seen =< Interval + dur

(* The same of the LastSeen a pass has read, which is older by the lag of  *)
(* the cache and the time spent since.                                     *)
ReadInTime ==
  Registered /\ pass = "probing" =>
    IF up THEN \/ read =< Interval + MaxLag + spent
               \/ /\ upFor =< Interval + spent
                  /\ dur =< Short => read =< 2 * Interval + dur + MaxLag + spent
          ELSE dur =< Short => read =< Interval + dur + MaxLag + spent

(* A noticed outage has stopped the witness's clock, which starts again    *)
(* only when the bus carries something.                                    *)
NoticedUnsettles ==
  noticed => /\ upFor < Calm
             /\ heardSince # Never => up /\ heardSince =< upFor
             /\ ~up => lastHeard = Window

(* Types and the three facts above, with what keeps them: a pass works on  *)
(* a Host that exists, and the bus has been up for no time while down.     *)
IndInv ==
  /\ TypeOK
  /\ obj = "gone" => pass = "idle"
  /\ ~up => upFor = 0
  /\ HeardInTime /\ ReadInTime /\ NoticedUnsettles

=============================================================================
