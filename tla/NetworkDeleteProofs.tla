------------------------- MODULE NetworkDeleteProofs -------------------------
(***************************************************************************)
(* Proofs about network.Delete for every bound on the retries and every    *)
(* choice of recorded gateway ids.                                          *)
(***************************************************************************)
EXTENDS NetworkDelete, TLAPS

(* Where a call stands tells what it has already removed: past a gateway's *)
(* step, that gateway's metadata is gone if its id was recorded; in write  *)
(* and meta, the provider network is gone.  A returned success is final,   *)
(* since Start needs the metadata.                                          *)
Done(g) == gwRec[g] => ~gwMeta[g]

PastPrimary == {"secondary", "vip", "net", "write", "meta"}
PastSecondary == {"vip", "net", "write", "meta"}

DeleteInv ==
    /\ TypeOK
    /\ NoUntrackedNetwork
    /\ pc \in {"write", "meta"} => ~netUp
    /\ pc \in PastPrimary => Done("primary")
    /\ pc \in PastSecondary => Done("secondary")
    /\ result = "ok" => pc = "idle" /\ SuccessMeansGone

LEMMA DeleteInvInit == Init => DeleteInv
<1> SUFFICES ASSUME Init PROVE DeleteInv
  OBVIOUS
<1>1. PICK ha \in BOOLEAN :
        /\ netUp = TRUE /\ vip = ha
        /\ gwHost = [g \in Gateways |-> g = "primary" \/ ha] /\ gwMeta = gwHost
        /\ gwRec \in [Gateways -> RecordedIDs] /\ meta = TRUE /\ attached \in BOOLEAN
        /\ pc = "idle" /\ result = "none" /\ calls = 0
  BY DEF Init
<1>2. gwRec \in [Gateways -> BOOLEAN]
  BY <1>1, RecordedIDsAssumption
<1>3. TypeOK
  BY <1>1, <1>2, MaxCallsAssumption DEF TypeOK, Steps, Results
<1> QED
  BY <1>1, <1>3 DEF DeleteInv, NoUntrackedNetwork, PastPrimary, PastSecondary

LEMMA DeleteInvStep == DeleteInv /\ [Next]_vars => DeleteInv'
<1> SUFFICES ASSUME DeleteInv, [Next]_vars PROVE DeleteInv'
  OBVIOUS
<1> USE DEF DeleteInv, TypeOK, NoUntrackedNetwork, SuccessMeansGone, Done,
           PastPrimary, PastSecondary, Steps, Results, Gateways, Return
<1>1. CASE Start
  BY <1>1, MaxCallsAssumption DEF Start
<1>2. CASE RefuseAttached
  BY <1>2 DEF RefuseAttached
<1>3. CASE Checkpoint
  BY <1>3 DEF Checkpoint
<1>4. ASSUME NEW g \in Gateways, SkipGateway(g) PROVE DeleteInv'
  BY <1>4 DEF SkipGateway, NextAfter
<1>5. ASSUME NEW g \in Gateways, LoadHostFails(g) PROVE DeleteInv'
  BY <1>5 DEF LoadHostFails
<1>6. ASSUME NEW g \in Gateways, DeleteGateway(g) PROVE DeleteInv'
  <2>1. PICK h \in DeleteOutcome(gwHost[g]), m \in DeleteOutcome(TRUE) :
          /\ gwHost' = [gwHost EXCEPT ![g] = @ /\ ~h[1]]
          /\ gwMeta' = [gwMeta EXCEPT ![g] = ~m[1]]
          /\ IF h[2] \/ m[2] THEN Return("GatewayError")
                             ELSE pc' = NextAfter[g] /\ result' = result
    BY <1>6 DEF DeleteGateway
  <2>2. h \in BOOLEAN \X BOOLEAN /\ m \in BOOLEAN \X BOOLEAN /\ (m[1] \/ m[2])
    <3>1. m \in {p \in BOOLEAN \X BOOLEAN : p[1] \/ p[2]}
      BY DEF DeleteOutcome
    <3>2. h \in {p \in BOOLEAN \X BOOLEAN : p[1] \/ p[2]} \/ h = <<TRUE, FALSE>>
      BY DEF DeleteOutcome
    <3>3. <<TRUE, FALSE>> \in BOOLEAN \X BOOLEAN
      OBVIOUS
    <3> QED
      BY <3>1, <3>2, <3>3
  <2>3. CASE h[2] \/ m[2]
    BY <1>6, <2>1, <2>2, <2>3 DEF DeleteGateway
  <2>4. CASE ~(h[2] \/ m[2])
    BY <1>6, <2>1, <2>2, <2>4 DEF DeleteGateway, NextAfter
  <2> QED
    BY <2>3, <2>4
<1>7. CASE DeleteVIP
  BY <1>7 DEF DeleteVIP
<1>8. CASE DeleteNetworkOK
  BY <1>8 DEF DeleteNetworkOK
<1>9. CASE DeleteNetworkNotFound
  BY <1>9 DEF DeleteNetworkNotFound
<1>10. CASE DeleteNetworkTimeout
  BY <1>10 DEF DeleteNetworkTimeout
<1>11. CASE DeleteNetworkOther
  BY <1>11 DEF DeleteNetworkOther
<1>12. CASE AlterWrite
  BY <1>12 DEF AlterWrite
<1>13. CASE DeleteMetadata
  <2>1. PICK m \in DeleteOutcome(TRUE) :
          meta' = ~m[1] /\ Return(IF m[2] THEN "MetaError" ELSE "ok")
    BY <1>13 DEF DeleteMetadata
  <2>2. m \in BOOLEAN \X BOOLEAN /\ (m[1] \/ m[2])
    <3>1. m \in {p \in BOOLEAN \X BOOLEAN : p[1] \/ p[2]}
      BY DEF DeleteOutcome
    <3> QED
      BY <3>1
  <2> QED
    BY <1>13, <2>1, <2>2 DEF DeleteMetadata
<1>14. CASE UNCHANGED vars
  BY <1>14 DEF vars
<1> QED
  BY <1>1, <1>2, <1>3, <1>4, <1>5, <1>6, <1>7, <1>8, <1>9, <1>10, <1>11,
     <1>12, <1>13, <1>14 DEF Next

(* For every number of retries, the network metadata is never removed      *)
(* while the provider network exists (network.Delete runs Core.Delete only *)
(* after DeleteNetwork succeeded).                                          *)
THEOREM MetadataOutlivesNetwork == Spec => []NoUntrackedNetwork
<1>1. DeleteInv => NoUntrackedNetwork
  BY DEF DeleteInv
<1> QED
  BY <1>1, DeleteInvInit, DeleteInvStep, PTL DEF Spec

(* For every number of retries, a Delete that returns success has removed  *)
(* the provider network, the network metadata and the metadata of every    *)
(* recorded gateway.                                                        *)
THEOREM SuccessIsComplete == Spec => []SuccessMeansGone
<1>1. DeleteInv => SuccessMeansGone
  BY DEF DeleteInv, SuccessMeansGone
<1> QED
  BY <1>1, DeleteInvInit, DeleteInvStep, PTL DEF Spec

-----------------------------------------------------------------------------
\* The recorded gateways whose metadata still exists (the mapped gws).
LiveGateways == {g \in Gateways : gwRec[g] /\ gwMeta[g]}

\* A call in progress started from existing metadata, and has not removed it.
CallInv == pc # "idle" => meta

LEMMA CallInvStep == DeleteInv /\ CallInv /\ [Next]_vars => CallInv'
<1> SUFFICES ASSUME DeleteInv, CallInv, [Next]_vars PROVE CallInv'
  OBVIOUS
<1>1. CASE Start
  BY <1>1 DEF Start, CallInv
<1>2. CASE DeleteMetadata
  BY <1>2 DEF DeleteMetadata, Return, CallInv
<1>3. CASE \/ RefuseAttached \/ Checkpoint \/ DeleteVIP \/ DeleteNetworkOK
           \/ DeleteNetworkNotFound \/ DeleteNetworkTimeout \/ DeleteNetworkOther
           \/ AlterWrite
  BY <1>3 DEF RefuseAttached, Checkpoint, DeleteVIP, DeleteNetworkOK,
              DeleteNetworkNotFound, DeleteNetworkTimeout, DeleteNetworkOther,
              AlterWrite, Return, CallInv
<1>4. ASSUME NEW g \in Gateways,
             SkipGateway(g) \/ LoadHostFails(g) \/ DeleteGateway(g)
      PROVE  CallInv'
  <2>1. pc # "idle" /\ UNCHANGED meta
    BY <1>4 DEF SkipGateway, LoadHostFails, DeleteGateway, Gateways
  <2> QED
    BY <2>1 DEF CallInv
<1>5. CASE UNCHANGED vars
  BY <1>5 DEF vars, CallInv
<1> QED
  BY <1>1, <1>2, <1>3, <1>4, <1>5 DEF Next

(* Each step of a Delete call is a step of the abstract teardown, or       *)
(* leaves the network, its metadata and the recorded gateways' metadata    *)
(* alone.                                                                  *)
LEMMA TeardownStep ==
    DeleteInv /\ CallInv /\ [Next]_vars
        => [Teardown!Next]_<<netUp, meta, LiveGateways>>
<1> SUFFICES ASSUME DeleteInv, CallInv, [Next]_vars
             PROVE  [Teardown!Next]_<<netUp, meta, LiveGateways>>
  OBVIOUS
<1> USE DEF DeleteInv, TypeOK, Gateways
<1>1. ASSUME NEW g \in Gateways, DeleteGateway(g)
      PROVE  [Teardown!Next]_<<netUp, meta, LiveGateways>>
  <2>1. PICK m \in DeleteOutcome(TRUE) : gwMeta' = [gwMeta EXCEPT ![g] = ~m[1]]
    BY <1>1 DEF DeleteGateway
  <2>2. m \in BOOLEAN \X BOOLEAN
    BY DEF DeleteOutcome
  <2>3. g \in LiveGateways /\ UNCHANGED <<netUp, meta, gwRec>>
    BY <1>1 DEF DeleteGateway, LiveGateways
  <2>4. CASE m[1]
    <3>1. LiveGateways' = LiveGateways \ {g}
      BY <2>1, <2>2, <2>3, <2>4 DEF LiveGateways
    <3> QED
      BY <2>3, <3>1 DEF Teardown!Next, Teardown!RemoveGateway, LiveGateways
  <2>5. CASE ~m[1]
    BY <2>1, <2>2, <2>3, <2>5 DEF LiveGateways
  <2> QED
    BY <2>4, <2>5
<1>2. ASSUME pc = "net", netUp, netUp' \in BOOLEAN,
             UNCHANGED <<meta, gwMeta, gwRec>>
      PROVE  [Teardown!Next]_<<netUp, meta, LiveGateways>>
  <2>1. LiveGateways = {} /\ LiveGateways' = LiveGateways
    BY <1>2 DEF PastPrimary, PastSecondary, Done, LiveGateways
  <2> QED
    BY <1>2, <2>1 DEF Teardown!Next, Teardown!RemoveNetwork, LiveGateways
<1>3. CASE DeleteNetworkOK \/ DeleteNetworkTimeout
  BY <1>2, <1>3 DEF DeleteNetworkOK, DeleteNetworkTimeout, Return
<1>4. CASE DeleteMetadata
  <2>1. PICK m \in DeleteOutcome(TRUE) : meta' = ~m[1]
    BY <1>4 DEF DeleteMetadata
  <2>2. ~netUp /\ meta /\ UNCHANGED <<netUp, gwMeta, gwRec>>
    BY <1>4 DEF DeleteMetadata, CallInv
  <2>3. LiveGateways' = LiveGateways
    BY <2>2 DEF LiveGateways
  <2> QED
    BY <2>1, <2>2, <2>3 DEF DeleteOutcome, Teardown!Next, Teardown!RemoveMetadata
<1>5. CASE \/ Start \/ RefuseAttached \/ Checkpoint \/ DeleteVIP
           \/ DeleteNetworkNotFound \/ DeleteNetworkOther \/ AlterWrite
           \/ \E g \in Gateways : SkipGateway(g) \/ LoadHostFails(g)
  BY <1>5 DEF Start, RefuseAttached, Checkpoint, DeleteVIP, DeleteNetworkNotFound,
              DeleteNetworkOther, AlterWrite, SkipGateway, LoadHostFails, LiveGateways
<1>6. CASE UNCHANGED vars
  BY <1>6 DEF vars, LiveGateways
<1> QED
  BY <1>1, <1>3, <1>4, <1>5, <1>6 DEF Next

(* For every number of retries and every choice of recorded gateway ids,   *)
(* network.Delete implements the abstract teardown: recorded gateways'     *)
(* metadata first, the provider network once none is left, the network     *)
(* metadata once the network is gone, and nothing comes back.              *)
THEOREM DeleteRefinesTeardown == Spec => TeardownOrdered
<1>1. Init => DeleteInv /\ CallInv /\ Teardown!Init
  <2>1. Init => CallInv
    BY DEF Init, CallInv
  <2>2. Init => Teardown!Init
    BY DEF Init, Teardown!Init, LiveGateways
  <2> QED
    BY <2>1, <2>2, DeleteInvInit
<1>2. DeleteInv /\ CallInv /\ [Next]_vars => DeleteInv' /\ CallInv'
  BY DeleteInvStep, CallInvStep
<1> QED
  BY <1>1, <1>2, TeardownStep, PTL DEF Spec, TeardownOrdered, Teardown!Spec,
                                      LiveGateways

=============================================================================
