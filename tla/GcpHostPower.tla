---------------------------- MODULE GcpHostPower ----------------------------
(***************************************************************************)
(* The power operations of the GCP driver on the host CreateHost returned  *)
(* (compute.go 821-905): StopHost, StartHost and RebootHost, each a call   *)
(* of Instances.Stop or Instances.Start followed by                        *)
(* waitUntilOperationIsSuccessfulOrTimeout, and GetHostState, which reads  *)
(* the instance status through InspectHost and stateConvert.  The calls on *)
(* one host are made one at a time.  The cloud moves a stopping instance   *)
(* to TERMINATED and a staging one to RUNNING on its own.                  *)
(***************************************************************************)
EXTENDS GcpCreateHost

VARIABLES
    op,         \* the wait or call in progress, "none" between calls
    asked,      \* the status the current or last call asked for
    opResult,   \* what the last StopHost, StartHost or RebootHost returned
    lastState   \* host.LastState as the last GetHostState set it

pvars == <<vars, op, asked, opResult, lastState>>

\* stateConvert: GCP instance status to HostState (the default case panics).
StateConvert ==
    [provisioning |-> "STARTING", repairing |-> "ERROR", running |-> "STARTED",
     staging |-> "STARTING", stopped |-> "STOPPED", stopping |-> "STOPPING",
     suspended |-> "STOPPED", suspending |-> "STOPPING", terminated |-> "STOPPED"]

\* The status each wait expects the operation to have reached when DONE.
Target == [stopWait |-> "terminated", startWait |-> "running",
           rebootStopWait |-> "terminated", rebootStartWait |-> "running"]

\* What follows a wait that saw the operation DONE.
AfterWait == [stopWait |-> "none", startWait |-> "none",
              rebootStopWait |-> "rebootStart", rebootStartWait |-> "none"]

PowerTypeOK ==
    /\ inst \in Instances \cup {"staging", "stopping", "terminated"}
    /\ op \in {"none", "rebootStart"} \cup DOMAIN Target
    /\ asked \in {"none", "terminated", "running"}
    /\ opResult \in {"none", "ok", "error"}
    /\ lastState \in {"none", "ERROR"} \cup {StateConvert[s] : s \in DOMAIN StateConvert}

PowerInit == Init /\ op = "none" /\ asked = "none" /\ opResult = "none" /\ lastState = "none"

\* CreateHost returned the host: the power operations may be called on it.
Created == pc = "done" /\ result = "ok"

\* The Instances.Stop or Instances.Start call returned an error.
Refused == op' = "none" /\ opResult' = "error" /\ UNCHANGED inst

\* Instances.Stop accepted: a terminated instance stays so.
CallStop(next) ==
    /\ inst' = IF inst = "terminated" THEN inst ELSE "stopping"
    /\ op' = next /\ opResult' = "none"

\* Instances.Start accepted: a terminated instance is staged again.
CallStart(next) ==
    /\ inst' = IF inst = "terminated" THEN "staging" ELSE inst
    /\ op' = next /\ opResult' = "none"

StopHost ==
    /\ Created /\ op = "none"
    /\ asked' = "terminated"
    /\ Refused \/ CallStop("stopWait")
    /\ UNCHANGED <<server, pc, attempts, result, lastState>>

StartHostNoWait ==
    /\ Created /\ op = "none"
    /\ asked' = "running"
    /\ \/ Refused
       \/ /\ inst' = IF inst = "terminated" THEN "staging" ELSE inst
          /\ op' = "none" /\ opResult' = "ok"
    /\ UNCHANGED <<server, pc, attempts, result, lastState>>

StartHost ==
    /\ Created /\ op = "none"
    /\ asked' = "running"
    /\ Refused \/ CallStart("startWait")
    /\ UNCHANGED <<server, pc, attempts, result, lastState>>

\* RebootHost: Stop, wait, Start, wait; the first error is returned.
RebootHost ==
    /\ Created /\ op = "none"
    /\ asked' = "running"
    /\ Refused \/ CallStop("rebootStopWait")
    /\ UNCHANGED <<server, pc, attempts, result, lastState>>

RebootStart ==
    /\ op = "rebootStart"
    /\ Refused \/ CallStart("rebootStartWait")
    /\ UNCHANGED <<server, pc, attempts, result, asked, lastState>>

(* waitUntilOperationIsSuccessfulOrTimeout: the operation is DONE once the *)
(* instance reached its target status; the wait may time out before.      *)
WaitOperation ==
    /\ op \in DOMAIN Target
    /\ \/ /\ inst = Target[op] /\ op' = AfterWait[op]
          /\ opResult' = IF AfterWait[op] = "none" THEN "ok" ELSE opResult
       \/ op' = "none" /\ opResult' = "error"
    /\ UNCHANGED <<inst, server, pc, attempts, result, asked, lastState>>

\* GetHostState: InspectHost fails (ERROR) or converts the instance status.
GetHostState ==
    /\ Created /\ op = "none"
    /\ lastState' \in {"ERROR", StateConvert[inst]}
    /\ UNCHANGED <<vars, op, asked, opResult>>

\* The cloud completes a stop or a start.
Settle ==
    /\ \/ inst = "stopping" /\ inst' = "terminated"
       \/ inst = "staging" /\ inst' = "running"
    /\ UNCHANGED <<server, pc, attempts, result, op, asked, opResult, lastState>>

PowerNext ==
    \/ Next /\ UNCHANGED <<op, asked, opResult, lastState>>
    \/ StopHost \/ StartHost \/ RebootHost \/ RebootStart \/ WaitOperation
    \/ GetHostState \/ Settle

PowerSpec == PowerInit /\ [][PowerNext]_pvars

-----------------------------------------------------------------------------
(* A StopHost, StartHost or RebootHost that returned nil has left the      *)
(* instance in the status it asked for: each waits for its operation       *)
(* (RebootHost for both of them) before returning.                         *)
PowerOpHonest == opResult = "ok" => inst = asked

=============================================================================
