---------------------------- MODULE WorkloadIds ----------------------------
(***************************************************************************)
(* What the host promises about workload ids, without the machinery of     *)
(* reservations, guards, journals and recoveries: an id names one workload *)
(* at a time; plugins keep entries by id; an entry is made only for the    *)
(* workload that holds the id and removed only on the way out; and an id   *)
(* is given back only when its workload has left nothing behind, with one  *)
(* exception, a workload that a plugin failed.                             *)
(***************************************************************************)
EXTENDS Integers

CONSTANTS Ids, Binding

VARIABLES
  phase,  \* Ids -> what the id's slot is
  inc,    \* Ids -> the workload that holds the id, 0 when nobody does
  entry   \* Ids -> Binding -> the workload a plugin keeps under the id, or 0

vars == <<phase, inc, entry>>

Init ==
  /\ phase = [i \in Ids |-> "free"]
  /\ inc = [i \in Ids |-> 0]
  /\ entry = [i \in Ids |-> [b \in Binding |-> 0]]

\* Workload n is one no id and no plugin knows.
New(n) ==
  /\ n # 0
  /\ \A i \in Ids : inc[i] # n /\ \A b \in Binding : entry[i][b] # n

\* A new workload takes a free id.
Claim(i) ==
  /\ phase[i] = "free"
  /\ New(inc'[i])
  /\ inc' = [inc EXCEPT ![i] = inc'[i]]
  /\ phase' = [phase EXCEPT ![i] = "starting"]
  /\ UNCHANGED entry

\* The workload that took the id runs, with all of its bindings in place.
Run(i) ==
  /\ phase[i] = "starting"
  /\ \A b \in Binding : entry[i][b] = inc[i]
  /\ phase' = [phase EXCEPT ![i] = "running"]
  /\ UNCHANGED <<inc, entry>>

\* The workload is on its way out; a stop outranks a failure.
Doom(i) ==
  /\ \/ /\ phase[i] = "starting"
        /\ \E p \in {"failing", "stopping"} : phase' = [phase EXCEPT ![i] = p]
     \/ /\ phase[i] \in {"failing", "running"}
        /\ phase' = [phase EXCEPT ![i] = "stopping"]
  /\ UNCHANGED <<inc, entry>>

\* A binding is made for the workload that holds the id.
Attach(i, b) ==
  /\ phase[i] \in {"starting", "failing", "stopping"}
  /\ entry' = [entry EXCEPT ![i][b] = inc[i]]
  /\ UNCHANGED <<phase, inc>>

\* A binding goes away only on the way out.
Detach(i, b) ==
  /\ phase[i] \in {"failing", "stopping"}
  /\ entry' = [entry EXCEPT ![i][b] = 0]
  /\ UNCHANGED <<phase, inc>>

\* The id is given back, or keeps the reason of a failure, with nothing of
\* its workload left behind.
Vacate(i) ==
  /\ \/ /\ phase[i] \in {"starting", "stopping"}
        /\ phase' = [phase EXCEPT ![i] = "free"]
     \/ /\ phase[i] = "failing"
        /\ phase' = [phase EXCEPT ![i] = "error"]
  /\ \A b \in Binding : entry[i][b] # inc[i]
  /\ inc' = [inc EXCEPT ![i] = 0]
  /\ UNCHANGED entry

\* A plugin failed the workload while it ran: its release is best effort.
FailOut(i) ==
  /\ phase[i] = "stopping"
  /\ phase' = [phase EXCEPT ![i] = "error"]
  /\ inc' = [inc EXCEPT ![i] = 0]
  /\ UNCHANGED entry

\* A stop takes a failure's reason away.
Collect(i) ==
  /\ phase[i] = "error"
  /\ phase' = [phase EXCEPT ![i] = "free"]
  /\ UNCHANGED <<inc, entry>>

Next ==
  \E i \in Ids :
    \/ Claim(i) \/ Run(i) \/ Doom(i) \/ Vacate(i) \/ FailOut(i) \/ Collect(i)
    \/ \E b \in Binding : Attach(i, b) \/ Detach(i, b)

Spec == Init /\ [][Next]_vars

=============================================================================
