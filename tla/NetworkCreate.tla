---------------------------- MODULE NetworkCreate ----------------------------
(***************************************************************************)
(* network.Create (part_001 308-718): the prechecks, the main sequence of  *)
(* provider and storage calls, the gateway creation and finalisation      *)
(* subtasks running in parallel with the parent task, and the deferred    *)
(* compensations.  A Go defer registered by a step is a push on the stack *)
(* "defers"; on an error return the parent pops and runs them (last       *)
(* registered first), each one skipped under KeepOnFailure.  Each         *)
(* compensation may fail; its error is attached as a consequence          *)
(* ("compFailed") and the unwinding goes on.                              *)
(***************************************************************************)
EXTENDS Naturals, Sequences

VARIABLES
    netUp, vip, meta, keypair,  \* provider network, VIP, network metadata, key pair
    mstate,      \* NetworkState stored in the metadata
    gwHost,      \* gwHost[g]: the provider host of gateway g exists
    sub,         \* sub[g]: the taskCreateGateway subtask of gateway g
    fin,         \* fin[g]: the taskFinalizeGatewayConfiguration subtask of g
    failover,    \* req.HA and the provider supports private VIPs
    keep,        \* req.KeepOnFailure
    defers,      \* the compensations registered so far, oldest first
    compFailed,  \* a compensation returned an error (added as a consequence)
    pc, result

vars == <<netUp, vip, meta, keypair, mstate, gwHost, sub, fin, failover, keep,
          defers, compFailed, pc, result>>

Gateways == {"primary", "secondary"}
TaskStates == {"none", "running", "done", "failed"}
Compensations == {"net", "vip", "meta", "primary", "secondary"}
Steps == {"start", "createNet", "createVIP", "carry", "alterCreation", "prepare",
          "keypair", "startPrimary", "startSecondary", "waitPrimary",
          "waitSecondary", "checkGateways", "alterConfiguration", "startFinal",
          "waitFinalPrimary", "waitFinalSecondary", "alterReady", "unwind", "done"}

TypeOK ==
    /\ {netUp, vip, meta, keypair, failover, keep, compFailed} \subseteq BOOLEAN
    /\ mstate \in {"none", "creation", "configuration", "ready"}
    /\ gwHost \in [Gateways -> BOOLEAN]
    /\ sub \in [Gateways -> TaskStates] /\ fin \in [Gateways -> TaskStates]
    /\ defers \in Seq(Compensations)
    /\ pc \in Steps /\ result \in {"none", "ok", "error"}

Init ==
    /\ netUp = FALSE /\ vip = FALSE /\ meta = FALSE /\ keypair = FALSE
    /\ mstate = "none"
    /\ gwHost = [g \in Gateways |-> FALSE]
    /\ sub = [g \in Gateways |-> "none"] /\ fin = sub
    /\ failover \in BOOLEAN /\ keep \in BOOLEAN
    /\ defers = <<>> /\ compFailed = FALSE
    /\ pc = "start" /\ result = "none"

resources == <<netUp, vip, meta, keypair, mstate, gwHost>>

(* An error return: the deferred compensations run unless KeepOnFailure.   *)
Fail ==
    /\ pc' = IF keep \/ defers = <<>> THEN "done" ELSE "unwind"
    /\ result' = "error"

\* The parent task's step from pc "from" to "to", or to an error return.
Step(from, to) == pc = from /\ pc' = to /\ result' = result

Parent(from, to, ok) == IF ok THEN Step(from, to) ELSE pc = from /\ Fail

Push(c) == defers' = Append(defers, c)

\* LoadNetwork, GetNetworkByName and the CIDR check: no side effect.
Precheck ==
    /\ \E ok \in BOOLEAN : Parent("start", "createNet", ok)
    /\ UNCHANGED <<resources, sub, fin, failover, keep, defers, compFailed>>

\* svc.CreateNetwork, then the defer deleting the network.
CreateNetwork ==
    /\ \E ok \in BOOLEAN :
          /\ Parent("createNet", IF failover THEN "createVIP" ELSE "carry", ok)
          /\ netUp' = ok
          /\ IF ok THEN Push("net") ELSE UNCHANGED defers
    /\ UNCHANGED <<vip, meta, keypair, mstate, gwHost, sub, fin, failover, keep, compFailed>>

CreateVIPNoDefer ==
    /\ \E ok \in BOOLEAN :
          /\ Parent("createVIP", "carry", ok)
          /\ vip' = ok
    /\ UNCHANGED <<netUp, meta, keypair, mstate, gwHost, sub, fin, failover, keep, defers, compFailed>>

\* svc.CreateVIP when failing over, then the defer deleting the VIP.
CreateVIP ==
    /\ \E ok \in BOOLEAN :
          /\ Parent("createVIP", "carry", ok)
          /\ vip' = ok
          /\ IF ok THEN Push("vip") ELSE UNCHANGED defers
    /\ UNCHANGED <<netUp, meta, keypair, mstate, gwHost, sub, fin, failover, keep, compFailed>>

\* objn.Carry writes the metadata, then the defer deleting it.
Carry ==
    /\ \E ok \in BOOLEAN :
          /\ Parent("carry", "alterCreation", ok)
          /\ meta' = ok /\ mstate' = IF ok THEN "creation" ELSE mstate
          /\ IF ok THEN Push("meta") ELSE UNCHANGED defers
    /\ UNCHANGED <<netUp, vip, keypair, gwHost, sub, fin, failover, keep, compFailed>>

(* An Alter that sets the NetworkState; a failed write returns an error.   *)
AlterState(from, to, s) ==
    /\ \E ok \in BOOLEAN :
          /\ Parent(from, to, ok)
          /\ mstate' = IF ok THEN s ELSE mstate
    /\ UNCHANGED <<netUp, vip, meta, keypair, gwHost, sub, fin, failover, keep, defers, compFailed>>

AlterCreation == AlterState("alterCreation", "prepare", "creation")

\* SelectTemplatesBySize, GetConfigurationOptions and SearchImage.
Prepare ==
    /\ \E ok \in BOOLEAN : Parent("prepare", "keypair", ok)
    /\ UNCHANGED <<resources, sub, fin, failover, keep, defers, compFailed>>

\* svc.CreateKeyPair: no defer is registered for the key pair.
CreateKeyPair ==
    /\ \E ok \in BOOLEAN :
          /\ Parent("keypair", "startPrimary", ok)
          /\ keypair' = ok
    /\ UNCHANGED <<netUp, vip, meta, mstate, gwHost, sub, fin, failover, keep, defers, compFailed>>

(* task.StartInSubtask(taskCreateGateway) for the primary gateway, then    *)
(* for the secondary one when failing over.                               *)
StartGateway(g, from, to) ==
    /\ \E ok \in BOOLEAN :
          /\ Parent(from, to, ok)
          /\ sub' = IF ok THEN [sub EXCEPT ![g] = "running"] ELSE sub
    /\ UNCHANGED <<resources, fin, failover, keep, defers, compFailed>>

StartPrimary == StartGateway("primary", "startPrimary",
                             IF failover THEN "startSecondary" ELSE "waitPrimary")
StartSecondary == StartGateway("secondary", "startSecondary", "waitPrimary")

(* Wait on a gateway subtask; on success, the defer that deletes the       *)
(* gateway and unbinds it from the VIP.                                    *)
WaitGateway(g, from, to) ==
    /\ pc = from /\ sub[g] \in {"done", "failed"}
    /\ Step(from, to)
    /\ IF sub[g] = "done" THEN Push(g) ELSE UNCHANGED defers
    /\ UNCHANGED <<resources, sub, fin, failover, keep, compFailed>>

WaitPrimaryOnSecondary == WaitGateway("secondary", "waitPrimary",
                                      IF failover THEN "waitSecondary" ELSE "checkGateways")

WaitPrimary == WaitGateway("primary", "waitPrimary",
                           IF failover THEN "waitSecondary" ELSE "checkGateways")
WaitSecondary == WaitGateway("secondary", "waitSecondary", "checkGateways")

CheckGatewaysPrimaryOnly ==
    /\ Parent("checkGateways", "alterConfiguration", sub["primary"] = "done")
    /\ UNCHANGED <<resources, sub, fin, failover, keep, defers, compFailed>>

\* The primary's error is returned first, then the secondary's.
CheckGateways ==
    /\ Parent("checkGateways", "alterConfiguration",
              sub["primary"] = "done" /\ (failover => sub["secondary"] = "done"))
    /\ UNCHANGED <<resources, sub, fin, failover, keep, defers, compFailed>>

\* The Alter recording the gateways' userdata, then the one setting GATEWAY_CONFIGURATION.
AlterConfiguration == AlterState("alterConfiguration", "startFinal", "configuration")

(* Start taskFinalizeGatewayConfiguration on the primary, then on the      *)
(* secondary; either Start may fail, the first leaving the other unrun.    *)
StartFinal ==
    /\ pc = "startFinal"
    /\ \E started \in SUBSET Gateways :
          /\ "secondary" \in started => "primary" \in started /\ failover
          /\ fin' = [g \in Gateways |-> IF g \in started THEN "running" ELSE "none"]
          /\ IF started = (IF failover THEN Gateways ELSE {"primary"})
               THEN Step("startFinal", "waitFinalPrimary")
               ELSE Fail
    /\ UNCHANGED <<resources, sub, failover, keep, defers, compFailed>>

\* Wait on a finalisation subtask; its error is returned at once.
WaitFinal(g, from, to) ==
    /\ pc = from /\ fin[g] \in {"done", "failed"}
    /\ Parent(from, to, fin[g] = "done")
    /\ UNCHANGED <<resources, sub, fin, failover, keep, defers, compFailed>>

WaitFinalPrimary == WaitFinal("primary", "waitFinalPrimary",
                              IF failover THEN "waitFinalSecondary" ELSE "alterReady")
WaitFinalSecondary == WaitFinal("secondary", "waitFinalSecondary", "alterReady")

\* The last Alter sets READY; its result is Create's.
AlterReady ==
    /\ pc = "alterReady"
    /\ \E ok \in BOOLEAN :
          IF ok THEN mstate' = "ready" /\ pc' = "done" /\ result' = "ok"
                ELSE mstate' = mstate /\ Fail
    /\ UNCHANGED <<netUp, vip, meta, keypair, gwHost, sub, fin, failover, keep, defers, compFailed>>

-----------------------------------------------------------------------------
(* The subtasks run concurrently with the parent.  taskCreateGateway is    *)
(* not in the sources: following spec 4.7 it creates the host, or fails    *)
(* having removed what it created unless KeepOnFailure; it cannot create   *)
(* a host on a network that is gone.                                        *)
GatewayTask(g) ==
    /\ sub[g] = "running"
    /\ \E ok \in BOOLEAN, left \in BOOLEAN :
          /\ ok => netUp
          /\ sub' = [sub EXCEPT ![g] = IF ok THEN "done" ELSE "failed"]
          /\ gwHost' = [gwHost EXCEPT ![g] = ok \/ (keep /\ netUp /\ left)]
    /\ UNCHANGED <<netUp, vip, meta, keypair, mstate, fin, failover, keep, defers, compFailed, pc, result>>

FinalizeTask(g) ==
    /\ fin[g] = "running"
    /\ \E ok \in BOOLEAN : fin' = [fin EXCEPT ![g] = IF ok THEN "done" ELSE "failed"]
    /\ UNCHANGED <<resources, sub, failover, keep, defers, compFailed, pc, result>>

-----------------------------------------------------------------------------
(* Unwinding: the last registered compensation runs and is popped.         *)
Undo(c) ==
    /\ pc = "unwind" /\ defers # <<>> /\ defers[Len(defers)] = c
    /\ defers' = SubSeq(defers, 1, Len(defers) - 1)
    /\ pc' = IF Len(defers) = 1 THEN "done" ELSE "unwind"
    /\ result' = result

\* deleteGateway, then unbindHostFromVIP (always for the secondary, when failing over for the primary).
UndoGateway(g) ==
    /\ Undo(g)
    /\ \E gone \in BOOLEAN, unbound \in BOOLEAN :
          /\ gwHost' = [gwHost EXCEPT ![g] = @ /\ ~gone]
          /\ compFailed' = (compFailed \/ ~gone \/ ((g = "secondary" \/ failover) /\ ~unbound))
    /\ UNCHANGED <<netUp, vip, meta, keypair, mstate, sub, fin, failover, keep>>

\* objn.core.Delete.
UndoMeta ==
    /\ Undo("meta")
    /\ \E gone \in BOOLEAN : meta' = (meta /\ ~gone) /\ compFailed' = (compFailed \/ ~gone)
    /\ UNCHANGED <<netUp, vip, keypair, mstate, gwHost, sub, fin, failover, keep>>

\* svc.DeleteVIP.
UndoVIP ==
    /\ Undo("vip")
    /\ \E gone \in BOOLEAN : vip' = (vip /\ ~gone) /\ compFailed' = (compFailed \/ ~gone)
    /\ UNCHANGED <<netUp, meta, keypair, mstate, gwHost, sub, fin, failover, keep>>

\* svc.DeleteNetwork; the provider refuses while a host is on the network.
UndoNetwork ==
    /\ Undo("net")
    /\ \E gone \in BOOLEAN :
          /\ gone => \A g \in Gateways : ~gwHost[g]
          /\ netUp' = (netUp /\ ~gone) /\ compFailed' = (compFailed \/ ~gone)
    /\ UNCHANGED <<vip, meta, keypair, mstate, gwHost, sub, fin, failover, keep>>

\* The steps of the parent task, the goroutine running Create.
ParentNext ==
    \/ Precheck \/ CreateNetwork \/ CreateVIP \/ Carry \/ AlterCreation \/ Prepare
    \/ CreateKeyPair \/ StartPrimary \/ StartSecondary \/ WaitPrimary \/ WaitSecondary
    \/ CheckGateways \/ AlterConfiguration \/ StartFinal \/ WaitFinalPrimary
    \/ WaitFinalSecondary \/ AlterReady
    \/ \E g \in Gateways : UndoGateway(g)
    \/ UndoMeta \/ UndoVIP \/ UndoNetwork

Next ==
    \/ ParentNext
    \/ \E g \in Gateways : GatewayTask(g) \/ FinalizeTask(g)

Spec == Init /\ [][Next]_vars

(* Each goroutine, the parent and every subtask, is scheduled again while  *)
(* it can move, and every provider call it makes returns (or times out).  *)
FairSpec ==
    /\ Spec
    /\ WF_vars(ParentNext)
    /\ \A g \in Gateways : WF_vars(GatewayTask(g)) /\ WF_vars(FinalizeTask(g))

-----------------------------------------------------------------------------
(* A Create that returned an error without KeepOnFailure, and whose        *)
(* compensations all succeeded, leaves no network, VIP, metadata or        *)
(* gateway host behind: the defers undo every step in reverse order, and   *)
(* a gateway subtask still running cannot outlive the network.             *)
RollbackComplete ==
    pc = "done" /\ result = "error" /\ ~keep /\ ~compFailed =>
        ~netUp /\ ~vip /\ ~meta /\ \A g \in Gateways : ~gwHost[g]

(* A Create that returns success has the network, its metadata in state   *)
(* READY and the primary gateway; when failing over, also the VIP and the  *)
(* secondary gateway (the parent waits on both subtasks and checks both    *)
(* results).                                                               *)
SuccessComplete ==
    result = "ok" =>
        /\ netUp /\ meta /\ mstate = "ready" /\ gwHost["primary"]
        /\ failover => vip /\ gwHost["secondary"]

(* Spec 7: every irreversible step of Create registers an inverse, so a    *)
(* rolled-back Create leaves no key pair either.  CreateKeyPair registers  *)
(* none.                                                                    *)
NoKeyPairLeak ==
    pc = "done" /\ result = "error" /\ ~keep /\ ~compFailed => ~keypair

(* Spec 4.7 steps 9 and 11: Create waits on both gateway subtasks, so none *)
(* is still running once it has returned.  An error from the second       *)
(* StartInSubtask, or from the first finalisation, returns without         *)
(* waiting on the subtask already started.                                 *)
JoinedBeforeReturn ==
    pc = "done" => \A g \in Gateways : sub[g] # "running" /\ fin[g] # "running"

(* Create returns, and every subtask it started ends, whatever fails: the  *)
(* parent only waits on subtasks it started, each of which ends, and the  *)
(* unwinding pops one compensation per step.  Together with the           *)
(* invariants this says a subtask left running by an early return cannot  *)
(* keep a gateway alive for ever.                                          *)
Quiescence ==
    <>(pc = "done" /\ \A g \in Gateways : sub[g] # "running" /\ fin[g] # "running")

=============================================================================
