---------------------------- MODULE GcpCreateHost ----------------------------
(***************************************************************************)
(* Stack.CreateHost of the GCP driver (compute.go 194-428): the attempt    *)
(* run by retry.WhileUnsuccessfulDelay5Seconds until it succeeds, desists  *)
(* on a 403, or the long-operation timeout elapses.  One attempt is        *)
(* buildGcpMachine (Instances.Insert, the wait on the insert operation,    *)
(* Instances.Get), then WaitHostReady, and DeleteHost to kill the instance *)
(* when it does not become ready.  The instance is named after the        *)
(* request, so a second Insert conflicts with a leftover instance.  The   *)
(* cloud boots a provisioned instance on its own.                          *)
(***************************************************************************)
EXTENDS Naturals

CONSTANT MaxAttempts  \* attempts that fit in the long-operation timeout

ASSUME MaxAttemptsAssumption == MaxAttempts \in Nat \ {0}

VARIABLES
    inst,      \* the GCP instance named request.ResourceName
    server,    \* buildGcpMachine returned a host (its id is known to CreateHost)
    pc,        \* the step of the current attempt, or "done"
    attempts,  \* attempts started
    result     \* what CreateHost returned

vars == <<inst, server, pc, attempts, result>>

Instances == {"none", "provisioning", "running"}
Steps == {"insert", "opWait", "get", "waitReady", "kill", "failed", "done"}

TypeOK ==
    /\ inst \in Instances /\ server \in BOOLEAN
    /\ pc \in Steps /\ attempts \in 1..MaxAttempts
    /\ result \in {"none", "ok", "timeout", "denied"}

Init ==
    /\ inst = "none" /\ server = FALSE
    /\ pc = "insert" /\ attempts = 1 /\ result = "none"

\* The attempt returned an error: the retry loop decides what follows.
AttemptFails == pc' = "failed"

(* The attempt returns nil after a 403: the loop stops and CreateHost      *)
(* returns ResourceAccessDenied.                                            *)
Desist == pc' = "done" /\ result' = "denied"

(* Instances.Insert: a leftover instance of that name makes it fail with a *)
(* conflict; otherwise it is accepted, refused with 403, or fails.         *)
Insert ==
    /\ pc = "insert"
    /\ \/ inst # "none" /\ AttemptFails /\ UNCHANGED <<inst, result>>
       \/ inst = "none" /\ inst' = "provisioning" /\ pc' = "opWait" /\ UNCHANGED result
       \/ inst = "none" /\ Desist /\ UNCHANGED inst
       \/ inst = "none" /\ AttemptFails /\ UNCHANGED <<inst, result>>
    /\ UNCHANGED <<server, attempts>>

(* waitUntilOperationIsSuccessfulOrTimeout, then Instances.Get.  On an     *)
(* error buildGcpMachine returns a nil host, so CreateHost has nothing to  *)
(* kill; a 403 from Get makes the attempt desist.                          *)
OperationWait ==
    /\ pc = "opWait"
    /\ \/ pc' = "get" /\ UNCHANGED result
       \/ AttemptFails /\ UNCHANGED result
    /\ UNCHANGED <<inst, server, attempts>>

GetInstance ==
    /\ pc = "get"
    /\ \/ server' = TRUE /\ pc' = "waitReady" /\ UNCHANGED result
       \/ Desist /\ UNCHANGED server
       \/ AttemptFails /\ UNCHANGED <<server, result>>
    /\ UNCHANGED <<inst, attempts>>

WaitHostReadyAnyState ==
    /\ pc = "waitReady"
    /\ pc' = "done" /\ result' = "ok"
    /\ UNCHANGED <<inst, server, attempts>>

(* WaitHostReady polls InspectHost until the state is STARTED: success     *)
(* ends the loop; a timeout or an error goes to the kill.                  *)
WaitHostReady ==
    /\ pc = "waitReady"
    /\ \/ inst = "running" /\ pc' = "done" /\ result' = "ok"
       \/ pc' = "kill" /\ UNCHANGED result
    /\ UNCHANGED <<inst, server, attempts>>

(* DeleteHost(host.ID): Get, Delete and the wait on the operation; the     *)
(* attempt fails whether or not the kill succeeded.                        *)
Kill ==
    /\ pc = "kill"
    /\ inst' \in {"none", inst}
    /\ server' = FALSE
    /\ AttemptFails
    /\ UNCHANGED <<attempts, result>>

(* WhileUnsuccessfulDelay5Seconds: after a failed attempt, retry while the *)
(* timeout has not elapsed; then CreateHost returns the timeout error.     *)
Retry ==
    /\ pc = "failed" /\ attempts < MaxAttempts
    /\ pc' = "insert" /\ attempts' = attempts + 1 /\ server' = FALSE
    /\ UNCHANGED <<inst, result>>

GiveUp ==
    /\ pc = "failed"
    /\ pc' = "done" /\ result' = "timeout"
    /\ UNCHANGED <<inst, server, attempts>>

\* The cloud finishes booting a provisioned instance at any time.
Boot ==
    /\ inst = "provisioning" /\ inst' = "running"
    /\ UNCHANGED <<server, pc, attempts, result>>

Next ==
    \/ Insert \/ OperationWait \/ GetInstance \/ WaitHostReady \/ Kill
    \/ Retry \/ GiveUp \/ Boot

Spec == Init /\ [][Next]_vars

-----------------------------------------------------------------------------
(* CreateHost returns a host only once an attempt saw it STARTED: a        *)
(* success hands over a running instance whose id the caller knows.        *)
ReadyOnSuccess == result = "ok" => inst = "running" /\ server

(* The same at the step where CreateHost returns, so that it stays true    *)
(* once the host has been stopped afterwards (module GcpHostPower).        *)
ReadyOnReturn == [][result = "none" /\ result' = "ok" => inst' = "running" /\ server']_vars

(* When CreateHost returns an error no instance of that name is left: the  *)
(* attempt kills what it created ("if server != nil { DeleteHost }").      *)
(* buildGcpMachine never returns a host with an error, so an instance      *)
(* whose insert operation timed out, or whose Get failed, is not killed,   *)
(* and each retry then fails on the name conflict.                         *)
NoOrphanOnError == result \in {"timeout", "denied"} => inst = "none"

=============================================================================
