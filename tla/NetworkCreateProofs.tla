------------------------- MODULE NetworkCreateProofs -------------------------
(***************************************************************************)
(* Proof that a successful network.Create hands over everything it built   *)
(* (SuccessComplete).  The invariant records, by the parent's position,    *)
(* what the steps already passed have created: nothing destroys a          *)
(* resource outside the unwinding, and the unwinding never returns         *)
(* success.                                                                *)
(***************************************************************************)
EXTENDS NetworkCreate, TLAPS

\* Positions past CreateNetwork, past Carry (and CreateVIP), past CheckGateways.
AfterNet == {"createVIP", "carry", "alterCreation", "prepare", "keypair",
             "startPrimary", "startSecondary", "waitPrimary", "waitSecondary",
             "checkGateways", "alterConfiguration", "startFinal",
             "waitFinalPrimary", "waitFinalSecondary", "alterReady"}
AfterCarry == AfterNet \ {"createVIP", "carry"}
AfterCheck == {"alterConfiguration", "startFinal", "waitFinalPrimary",
               "waitFinalSecondary", "alterReady"}

\* The gateways the parent has checked are up.
GatewaysUp ==
    /\ sub["primary"] = "done" /\ gwHost["primary"]
    /\ failover => sub["secondary"] = "done" /\ gwHost["secondary"]

CreateInv ==
    /\ failover \in BOOLEAN
    /\ sub \in [Gateways -> TaskStates] /\ gwHost \in [Gateways -> BOOLEAN]
    /\ pc \in AfterNet => netUp
    /\ pc \in AfterNet \ {"createVIP"} => (failover => vip)
    /\ pc \in AfterCarry => meta
    /\ pc \in AfterCheck => GatewaysUp
    /\ result = "ok" => pc = "done" /\ netUp /\ meta /\ mstate = "ready"
                        /\ (failover => vip) /\ GatewaysUp
    /\ pc = "done" => result # "none"
    /\ pc = "unwind" => result = "error"
    /\ pc \notin {"unwind", "done"} => \A g \in Gateways : sub[g] = "done" => gwHost[g]

LEMMA CreateInvInit == Init => CreateInv
  BY DEF Init, CreateInv, AfterNet, AfterCarry, AfterCheck, TaskStates

(* A gateway subtask only moves a gateway whose subtask is running, and    *)
(* leaves every other variable the invariant reads alone.                  *)
LEMMA GatewayTaskKeeps ==
    ASSUME CreateInv, NEW g \in Gateways, GatewayTask(g)
    PROVE  CreateInv'
<1>1. PICK ok \in BOOLEAN, left \in BOOLEAN :
          /\ ok => netUp
          /\ sub' = [sub EXCEPT ![g] = IF ok THEN "done" ELSE "failed"]
          /\ gwHost' = [gwHost EXCEPT ![g] = ok \/ (keep /\ netUp /\ left)]
  BY DEF GatewayTask
<1>2. sub[g] = "running"
  BY DEF GatewayTask
<1>3. UNCHANGED <<netUp, vip, meta, mstate, failover, pc, result>>
  BY DEF GatewayTask
<1>4. \A h \in Gateways :
          sub'[h] = "done" => (gwHost'[h] \/ (sub[h] = "done" /\ gwHost'[h] = gwHost[h]))
  BY <1>1 DEF Gateways, CreateInv
<1>5. \A h \in Gateways : sub[h] = "done" => sub'[h] = "done" /\ gwHost'[h] = gwHost[h]
  BY <1>1, <1>2 DEF Gateways, CreateInv
<1>6. GatewaysUp => GatewaysUp'
  BY <1>5, <1>3 DEF GatewaysUp, Gateways
<1>7. (pc \notin {"unwind", "done"} => \A h \in Gateways : sub[h] = "done" => gwHost[h])'
  BY <1>3, <1>4 DEF CreateInv
<1>8. sub' \in [Gateways -> TaskStates] /\ gwHost' \in [Gateways -> BOOLEAN]
  BY <1>1 DEF CreateInv, TaskStates
<1> QED
  BY <1>3, <1>6, <1>7, <1>8 DEF CreateInv

LEMMA CreateInvStep == CreateInv /\ [Next]_vars => CreateInv'
<1> SUFFICES ASSUME CreateInv, [Next]_vars PROVE CreateInv'
  OBVIOUS
<1> USE DEF CreateInv, AfterNet, AfterCarry, AfterCheck, TaskStates
<1>1. CASE Precheck
  BY <1>1 DEF Precheck, Parent, Step, Fail, resources
<1>2. CASE CreateNetwork
  BY <1>2 DEF CreateNetwork, Parent, Step, Fail, Push
<1>3. CASE CreateVIP
  BY <1>3 DEF CreateVIP, Parent, Step, Fail, Push
<1>4. CASE Carry
  BY <1>4 DEF Carry, Parent, Step, Fail, Push
<1>5. CASE AlterCreation
  BY <1>5 DEF AlterCreation, AlterState, Parent, Step, Fail
<1>6. CASE Prepare
  BY <1>6 DEF Prepare, Parent, Step, Fail, resources
<1>7. CASE CreateKeyPair
  BY <1>7 DEF CreateKeyPair, Parent, Step, Fail
<1>8. CASE StartPrimary
  BY <1>8 DEF StartPrimary, StartGateway, Parent, Step, Fail, resources
<1>9. CASE StartSecondary
  BY <1>9 DEF StartSecondary, StartGateway, Parent, Step, Fail, resources
<1>10. CASE WaitPrimary
  BY <1>10 DEF WaitPrimary, WaitGateway, Step, Push, resources
<1>11. CASE WaitSecondary
  BY <1>11 DEF WaitSecondary, WaitGateway, Step, Push, resources
<1>12. CASE CheckGateways
  <2>1. pc = "checkGateways" /\ UNCHANGED <<resources, sub, failover>>
    BY <1>12 DEF CheckGateways, Parent, Step, Fail
  <2>2. pc' = "alterConfiguration" => GatewaysUp'
    <3>1. pc' = "alterConfiguration"
          => sub["primary"] = "done" /\ (failover => sub["secondary"] = "done")
      BY <1>12 DEF CheckGateways, Parent, Step, Fail
    <3>2. \A g \in Gateways : sub[g] = "done" => gwHost[g]
      BY <2>1
    <3> QED
      BY <3>1, <3>2, <2>1 DEF GatewaysUp, resources, Gateways
  <2> QED
    BY <2>1, <2>2, <1>12 DEF CheckGateways, Parent, Step, Fail, resources
<1>13. CASE AlterConfiguration
  BY <1>13 DEF AlterConfiguration, AlterState, Parent, Step, Fail, GatewaysUp
<1>14. CASE StartFinal
  BY <1>14 DEF StartFinal, Step, Fail, resources, GatewaysUp
<1>15. CASE WaitFinalPrimary
  BY <1>15 DEF WaitFinalPrimary, WaitFinal, Parent, Step, Fail, resources, GatewaysUp
<1>16. CASE WaitFinalSecondary
  BY <1>16 DEF WaitFinalSecondary, WaitFinal, Parent, Step, Fail, resources, GatewaysUp
<1>17. CASE AlterReady
  BY <1>17 DEF AlterReady, Fail, GatewaysUp
<1>18. ASSUME NEW g \in Gateways, GatewayTask(g)
       PROVE CreateInv'
  BY <1>18, GatewayTaskKeeps
<1>19. ASSUME NEW g \in Gateways, FinalizeTask(g)
       PROVE CreateInv'
  BY <1>19 DEF FinalizeTask, resources, GatewaysUp
<1>20. ASSUME NEW g \in Gateways, UndoGateway(g)
       PROVE CreateInv'
  BY <1>20 DEF UndoGateway, Undo
<1>21. CASE UndoMeta
  BY <1>21 DEF UndoMeta, Undo
<1>22. CASE UndoVIP
  BY <1>22 DEF UndoVIP, Undo
<1>23. CASE UndoNetwork
  BY <1>23 DEF UndoNetwork, Undo
<1>24. CASE UNCHANGED vars
  BY <1>24 DEF vars, GatewaysUp
<1> QED
  BY <1>1, <1>2, <1>3, <1>4, <1>5, <1>6, <1>7, <1>8, <1>9, <1>10, <1>11,
     <1>12, <1>13, <1>14, <1>15, <1>16, <1>17, <1>18, <1>19, <1>20, <1>21,
     <1>22, <1>23, <1>24 DEF Next, ParentNext

(* A Create that returns success has the network, its READY metadata, the  *)
(* primary gateway and, when failing over, the VIP and the secondary       *)
(* gateway, for every run of the parent and its subtasks.                  *)
THEOREM CreateSuccessComplete == Spec => []SuccessComplete
<1>1. CreateInv => SuccessComplete
  BY DEF CreateInv, SuccessComplete, GatewaysUp
<1> QED
  BY <1>1, CreateInvInit, CreateInvStep, PTL DEF Spec

-----------------------------------------------------------------------------
\* The sequence s holds x.
Has(s, x) == \E k \in 1..Len(s) : s[k] = x

\* The compensation c is still on the stack of deferred functions.
Deferred(c) == Has(defers, c)

(* What the deferred functions still owe: without KeepOnFailure and while *)
(* no compensation has failed, every resource that exists has its         *)
(* compensation on the stack, a gateway host being covered by its own     *)
(* compensation or by the network's (DeleteNetwork is refused while a     *)
(* host is on it); and an error return without KeepOnFailure has run the  *)
(* whole stack.                                                           *)
RollInv ==
    /\ keep \in BOOLEAN /\ compFailed \in BOOLEAN
    /\ gwHost \in [Gateways -> BOOLEAN] /\ defers \in Seq(Compensations)
    /\ pc = "done" /\ result = "error" /\ ~keep => defers = <<>>
    /\ ~keep /\ ~compFailed =>
           /\ netUp => Deferred("net")
           /\ vip => Deferred("vip")
           /\ meta => Deferred("meta")
           /\ \A g \in Gateways : gwHost[g] => Deferred("net") \/ Deferred(g)

\* A Go defer adds its function on top of the ones already registered.
LEMMA HasAppend ==
    ASSUME NEW S, NEW s \in Seq(S), NEW c \in S, NEW x
    PROVE  /\ Append(s, c) \in Seq(S)
           /\ Has(Append(s, c), c)
           /\ Has(s, x) => Has(Append(s, c), x)
BY DEF Has

\* Running the last deferred function leaves the others on the stack.
LEMMA HasPop ==
    ASSUME NEW S, NEW s \in Seq(S), s # <<>>, NEW x
    PROVE  /\ SubSeq(s, 1, Len(s) - 1) \in Seq(S)
           /\ Has(s, x) /\ x # s[Len(s)] => Has(SubSeq(s, 1, Len(s) - 1), x)
           /\ Len(s) = 1 => SubSeq(s, 1, Len(s) - 1) = <<>>
<1>1. Len(s) \in Nat \ {0}
  OBVIOUS
<1>2. SubSeq(s, 1, Len(s) - 1) \in Seq(S)
  BY <1>1
<1>3. Has(s, x) /\ x # s[Len(s)] => Has(SubSeq(s, 1, Len(s) - 1), x)
  BY <1>1 DEF Has
<1>4. Len(s) = 1 => SubSeq(s, 1, Len(s) - 1) = <<>>
  BY <1>1
<1> QED
  BY <1>2, <1>3, <1>4

LEMMA RollInvInit == Init => RollInv
<1> SUFFICES ASSUME Init PROVE RollInv
  OBVIOUS
<1>1. defers \in Seq(Compensations) /\ ~Deferred("net") /\ \A g \in Gateways : ~Deferred(g)
  BY DEF Init, Deferred, Has
<1>2. gwHost \in [Gateways -> BOOLEAN] /\ \A g \in Gateways : ~gwHost[g]
  BY DEF Init
<1> QED
  BY <1>1, <1>2 DEF Init, RollInv

(* A step that leaves the stack alone and creates nothing but a gateway   *)
(* host on a live network keeps RollInv, when an error return it makes    *)
(* has the stack already run.                                             *)
LEMMA RollShrink ==
    ASSUME RollInv, UNCHANGED <<defers, keep, compFailed>>,
           netUp' => netUp, vip' => vip, meta' => meta,
           gwHost' \in [Gateways -> BOOLEAN],
           \A g \in Gateways : gwHost'[g] => gwHost[g] \/ netUp \/ keep,
           pc' = "done" /\ result' = "error" /\ ~keep => defers = <<>>
    PROVE  RollInv'
  BY DEF RollInv, Deferred, Has

(* A Go defer registered after its resource was created: the resources   *)
(* that exist afterwards existed before, or are the one it compensates.   *)
LEMMA RollPush ==
    ASSUME RollInv, NEW c \in Compensations,
           defers' = Append(defers, c), UNCHANGED <<keep, compFailed>>,
           netUp' => netUp \/ c = "net", vip' => vip \/ c = "vip",
           meta' => meta \/ c = "meta",
           gwHost' \in [Gateways -> BOOLEAN],
           \A g \in Gateways : gwHost'[g] => gwHost[g],
           pc' # "done" \/ result' # "error"
    PROVE  RollInv'
<1>1. defers' \in Seq(Compensations) /\ Has(defers', c)
  BY HasAppend DEF RollInv
<1>2. \A x : Has(defers, x) => Has(defers', x)
  BY HasAppend DEF RollInv
<1> QED
  BY <1>1, <1>2 DEF RollInv, Deferred

(* Running the last deferred function: either its resource is gone, or   *)
(* the failure is recorded as a consequence.                              *)
LEMMA RollUndo ==
    ASSUME RollInv, NEW c, Undo(c), UNCHANGED keep,
           compFailed => compFailed',
           netUp' => netUp, vip' => vip, meta' => meta,
           compFailed' \in BOOLEAN, gwHost' \in [Gateways -> BOOLEAN],
           \A g \in Gateways : gwHost'[g] => gwHost[g],
           ~compFailed' =>
               /\ c = "net" => ~netUp' /\ \A g \in Gateways : ~gwHost'[g]
               /\ c = "vip" => ~vip'
               /\ c = "meta" => ~meta'
               /\ c \in Gateways => ~gwHost'[c]
    PROVE  RollInv'
<1>1. defers \in Seq(Compensations) /\ defers # <<>> /\ defers[Len(defers)] = c
  BY DEF RollInv, Undo
<1>2. defers' = SubSeq(defers, 1, Len(defers) - 1)
  BY DEF Undo
<1>3. defers' \in Seq(Compensations)
  BY <1>1, <1>2, HasPop
<1>4. \A x : Has(defers, x) /\ x # c => Has(defers', x)
  BY <1>1, <1>2, HasPop
<1>5. pc' = "done" => defers' = <<>>
  BY <1>1, <1>2, HasPop DEF Undo
<1>6. ASSUME ~keep', ~compFailed'
      PROVE  /\ netUp' => Deferred("net")'
             /\ vip' => Deferred("vip")'
             /\ meta' => Deferred("meta")'
             /\ \A g \in Gateways : gwHost'[g] => Deferred("net")' \/ Deferred(g)'
  <2>1. /\ netUp => Has(defers, "net")
        /\ vip => Has(defers, "vip")
        /\ meta => Has(defers, "meta")
        /\ \A g \in Gateways : gwHost[g] => Has(defers, "net") \/ Has(defers, g)
    BY <1>6 DEF RollInv, Deferred
  <2>2. netUp' => Deferred("net")'
    BY <1>4, <1>6, <2>1 DEF Deferred
  <2>3. vip' => Deferred("vip")'
    BY <1>4, <1>6, <2>1 DEF Deferred
  <2>4. meta' => Deferred("meta")'
    BY <1>4, <1>6, <2>1 DEF Deferred
  <2>5. ASSUME NEW g \in Gateways, gwHost'[g]
        PROVE  Deferred("net")' \/ Deferred(g)'
    <3>1. gwHost[g] /\ c # "net" /\ c # g
      BY <1>6, <2>5
    <3> QED
      BY <1>4, <2>1, <3>1 DEF Deferred
  <2> QED
    BY <2>2, <2>3, <2>4, <2>5
<1> QED
  BY <1>3, <1>5, <1>6 DEF RollInv

LEMMA RollInvStep == RollInv /\ [Next]_vars => RollInv'
<1> SUFFICES ASSUME RollInv, [Next]_vars PROVE RollInv'
  OBVIOUS
<1>0. keep \in BOOLEAN /\ gwHost \in [Gateways -> BOOLEAN]
  BY DEF RollInv
<1>1. CASE Precheck
  BY <1>0, <1>1, RollShrink DEF Precheck, Parent, Step, Fail, resources
<1>2. CASE CreateNetwork
  <2>1. PICK ok \in BOOLEAN :
          /\ Parent("createNet", IF failover THEN "createVIP" ELSE "carry", ok)
          /\ netUp' = ok
          /\ IF ok THEN Push("net") ELSE UNCHANGED defers
    BY <1>2 DEF CreateNetwork
  <2>2. CASE ok
    BY <1>0, <1>2, <2>1, <2>2, RollPush DEF CreateNetwork, Parent, Step, Push, Compensations
  <2>3. CASE ~ok
    BY <1>0, <1>2, <2>1, <2>3, RollShrink DEF CreateNetwork, Parent, Step, Fail
  <2> QED
    BY <2>2, <2>3
<1>3. CASE CreateVIP
  <2>1. PICK ok \in BOOLEAN :
          /\ Parent("createVIP", "carry", ok)
          /\ vip' = ok
          /\ IF ok THEN Push("vip") ELSE UNCHANGED defers
    BY <1>3 DEF CreateVIP
  <2>2. CASE ok
    BY <1>0, <1>3, <2>1, <2>2, RollPush DEF CreateVIP, Parent, Step, Push, Compensations
  <2>3. CASE ~ok
    BY <1>0, <1>3, <2>1, <2>3, RollShrink DEF CreateVIP, Parent, Step, Fail
  <2> QED
    BY <2>2, <2>3
<1>4. CASE Carry
  <2>1. PICK ok \in BOOLEAN :
          /\ Parent("carry", "alterCreation", ok)
          /\ meta' = ok
          /\ IF ok THEN Push("meta") ELSE UNCHANGED defers
    BY <1>4 DEF Carry
  <2>2. CASE ok
    BY <1>0, <1>4, <2>1, <2>2, RollPush DEF Carry, Parent, Step, Push, Compensations
  <2>3. CASE ~ok
    BY <1>0, <1>4, <2>1, <2>3, RollShrink DEF Carry, Parent, Step, Fail
  <2> QED
    BY <2>2, <2>3
<1>5. CASE AlterCreation \/ AlterConfiguration
  BY <1>0, <1>5, RollShrink DEF AlterCreation, AlterConfiguration, AlterState,
                               Parent, Step, Fail
<1>6. CASE Prepare \/ CreateKeyPair
  BY <1>0, <1>6, RollShrink DEF Prepare, CreateKeyPair, Parent, Step, Fail, resources
<1>7. CASE StartPrimary \/ StartSecondary
  BY <1>0, <1>7, RollShrink DEF StartPrimary, StartSecondary, StartGateway,
                               Parent, Step, Fail, resources
<1>8. ASSUME NEW g \in Gateways, NEW from, NEW to, to # "done", WaitGateway(g, from, to)
      PROVE  RollInv'
  <2>1. CASE sub[g] = "done"
    BY <1>0, <1>8, <2>1, RollPush DEF WaitGateway, Step, Push, Compensations,
                                      Gateways, resources
  <2>2. CASE sub[g] # "done"
    BY <1>0, <1>8, <2>2, RollShrink DEF WaitGateway, Step, resources
  <2> QED
    BY <2>1, <2>2
<1>9. CASE WaitPrimary \/ WaitSecondary
  BY <1>8, <1>9 DEF WaitPrimary, WaitSecondary, Gateways
<1>10. CASE CheckGateways
  BY <1>0, <1>10, RollShrink DEF CheckGateways, Parent, Step, Fail, resources
<1>11. CASE StartFinal
  BY <1>0, <1>11, RollShrink DEF StartFinal, Step, Fail, resources
<1>12. CASE WaitFinalPrimary \/ WaitFinalSecondary
  BY <1>0, <1>12, RollShrink DEF WaitFinalPrimary, WaitFinalSecondary, WaitFinal,
                                Parent, Step, Fail, resources
<1>13. CASE AlterReady
  BY <1>0, <1>13, RollShrink DEF AlterReady, Fail
<1>14. ASSUME NEW g \in Gateways, GatewayTask(g) PROVE RollInv'
  <2>1. PICK ok \in BOOLEAN, left \in BOOLEAN :
          /\ ok => netUp
          /\ gwHost' = [gwHost EXCEPT ![g] = ok \/ (keep /\ netUp /\ left)]
    BY <1>14 DEF GatewayTask
  <2> QED
    BY <1>0, <1>14, <2>1, RollShrink DEF GatewayTask, RollInv
<1>15. ASSUME NEW g \in Gateways, FinalizeTask(g) PROVE RollInv'
  BY <1>0, <1>15, RollShrink DEF FinalizeTask, resources, RollInv
<1>16. ASSUME NEW g \in Gateways, UndoGateway(g) PROVE RollInv'
  <2>1. PICK gone \in BOOLEAN, unbound \in BOOLEAN :
          /\ gwHost' = [gwHost EXCEPT ![g] = @ /\ ~gone]
          /\ compFailed' = (compFailed \/ ~gone \/ ((g = "secondary" \/ failover) /\ ~unbound))
    BY <1>16 DEF UndoGateway
  <2> QED
    BY <1>0, <1>16, <2>1, RollUndo DEF UndoGateway, Gateways, RollInv
<1>17. CASE UndoMeta
  <2>1. PICK gone \in BOOLEAN : meta' = (meta /\ ~gone) /\ compFailed' = (compFailed \/ ~gone)
    BY <1>17 DEF UndoMeta
  <2> QED
    BY <1>0, <1>17, <2>1, RollUndo DEF UndoMeta, RollInv, Gateways
<1>18. CASE UndoVIP
  <2>1. PICK gone \in BOOLEAN : vip' = (vip /\ ~gone) /\ compFailed' = (compFailed \/ ~gone)
    BY <1>18 DEF UndoVIP
  <2> QED
    BY <1>0, <1>18, <2>1, RollUndo DEF UndoVIP, RollInv, Gateways
<1>19. CASE UndoNetwork
  <2>1. PICK gone \in BOOLEAN :
          /\ gone => \A g \in Gateways : ~gwHost[g]
          /\ netUp' = (netUp /\ ~gone) /\ compFailed' = (compFailed \/ ~gone)
    BY <1>19 DEF UndoNetwork
  <2> QED
    BY <1>0, <1>19, <2>1, RollUndo DEF UndoNetwork, RollInv
<1>20. CASE UNCHANGED vars
  BY <1>20, RollShrink DEF vars, RollInv
<1> QED
  BY <1>1, <1>2, <1>3, <1>4, <1>5, <1>6, <1>7, <1>9, <1>10, <1>11, <1>12,
     <1>13, <1>14, <1>15, <1>16, <1>17, <1>18, <1>19, <1>20 DEF Next, ParentNext

(* For every interleaving of the parent and the gateway subtasks, a Create *)
(* that returned an error without KeepOnFailure, and whose compensations   *)
(* all succeeded, leaves no network, VIP, metadata or gateway host.        *)
THEOREM CreateRollbackComplete == Spec => []RollbackComplete
<1>1. RollInv => RollbackComplete
  BY DEF RollInv, RollbackComplete, Deferred, Has
<1> QED
  BY <1>1, RollInvInit, RollInvStep, PTL DEF Spec

=============================================================================
