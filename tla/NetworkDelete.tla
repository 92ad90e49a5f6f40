---------------------------- MODULE NetworkDelete ----------------------------
(***************************************************************************)
(* network.Delete (part_001 939-1100) and its helper deleteGateway         *)
(* (part_001 720-751), called repeatedly by a client that retries after an *)
(* error.  The state is what exists on the provider side and in object    *)
(* storage for one network: the provider network, its VIP, its gateways   *)
(* (provider host, host metadata, and whether the network metadata records *)
(* the gateway's id), and the network metadata itself.  One call runs the  *)
(* steps of the Alter callback in the code's order, each provider or       *)
(* storage call being one action with every outcome the code distinguishes.*)
(* Calls of one client are sequential; concurrency with other tasks is the *)
(* subject of module Core.                                                 *)
(***************************************************************************)
EXTENDS Naturals

CONSTANTS
    MaxCalls,    \* bound on the number of Delete calls (first call and retries)
    RecordedIDs  \* the values a gateway-id field may hold after Create: TRUE if stored

ASSUME MaxCallsAssumption == MaxCalls \in Nat \ {0}
ASSUME RecordedIDsAssumption == RecordedIDs \subseteq BOOLEAN /\ RecordedIDs # {}

VARIABLES
    netUp,     \* the provider network exists
    vip,       \* the provider VIP exists
    gwHost,    \* gwHost[g]: the provider host of gateway g exists
    gwMeta,    \* gwMeta[g]: the metadata of gateway g exists
    gwRec,     \* gwRec[g]: an.GatewayID / an.SecondaryGatewayID is set
    meta,      \* the network metadata exists (LoadNetwork and Reload succeed)
    attached,  \* hosts.v1 is non-empty
    pc,        \* the step of the current Delete call, "idle" between calls
    result,    \* the error kind the last call returned, "ok" for success
    calls      \* number of calls made

vars == <<netUp, vip, gwHost, gwMeta, gwRec, meta, attached, pc, result, calls>>

Gateways == {"primary", "secondary"}

\* The Alter callback deletes the primary gateway, then the secondary one.
NextAfter == [primary |-> "secondary", secondary |-> "vip"]

Steps == {"idle", "check", "vip", "net", "write", "meta"} \cup Gateways

Results == {"none", "ok", "NotAvailable", "Aborted", "LoadError", "GatewayError",
            "NotFound", "Timeout", "Other", "WriteError", "MetaError"}

TypeOK ==
    /\ netUp \in BOOLEAN /\ vip \in BOOLEAN /\ meta \in BOOLEAN /\ attached \in BOOLEAN
    /\ gwHost \in [Gateways -> BOOLEAN]
    /\ gwMeta \in [Gateways -> BOOLEAN]
    /\ gwRec \in [Gateways -> BOOLEAN]
    /\ pc \in Steps /\ result \in Results /\ calls \in 0..MaxCalls

(* A deletion of something present may remove it or not and may report an *)
(* error or not, but not "kept and no error"; a timeout may have removed   *)
(* it.  Deleting something absent reports NotFound, which deleteGateway    *)
(* treats as success.  A pair is <<gone, failed>>.                         *)
DeleteOutcome(present) ==
    IF present THEN {p \in BOOLEAN \X BOOLEAN : p[1] \/ p[2]} ELSE {<<TRUE, FALSE>>}

(* A network as Create leaves it: a primary gateway, a secondary one and a *)
(* VIP when HA, hosts possibly attached since.                             *)
Init ==
    \E ha \in BOOLEAN :
        /\ netUp = TRUE
        /\ vip = ha
        /\ gwHost = [g \in Gateways |-> g = "primary" \/ ha]
        /\ gwMeta = gwHost
        /\ gwRec \in [Gateways -> RecordedIDs]
        /\ meta = TRUE
        /\ attached \in BOOLEAN
        /\ pc = "idle" /\ result = "none" /\ calls = 0

Return(r) == pc' = "idle" /\ result' = r

\* LoadNetwork, the locks and Alter's Reload; they need the metadata.
Start ==
    /\ pc = "idle" /\ meta /\ calls < MaxCalls
    /\ pc' = "check" /\ result' = "none" /\ calls' = calls + 1
    /\ UNCHANGED <<netUp, vip, gwHost, gwMeta, gwRec, meta, attached>>

\* props.Inspect on hosts.v1 refuses while hosts are attached.
RefuseAttached ==
    /\ pc = "check" /\ attached
    /\ Return("NotAvailable")
    /\ UNCHANGED <<netUp, vip, gwHost, gwMeta, gwRec, meta, attached, calls>>

\* The abort checkpoint after the hosts check.
Checkpoint ==
    /\ pc = "check" /\ ~attached
    /\ \E aborted \in BOOLEAN :
          IF aborted THEN Return("Aborted") ELSE pc' = "primary" /\ result' = result
    /\ UNCHANGED <<netUp, vip, gwHost, gwMeta, gwRec, meta, attached, calls>>

\* Variant of SkipGateway that takes every LoadHost error for NotFound.
SkipGatewayOnAnyLoadError(g) ==
    /\ pc = g
    /\ pc' = NextAfter[g] /\ result' = result
    /\ UNCHANGED <<netUp, vip, gwHost, gwMeta, gwRec, meta, attached, calls>>

\* No id recorded, or LoadHost reports NotFound: the gateway is skipped.
SkipGateway(g) ==
    /\ pc = g /\ (~gwRec[g] \/ ~gwMeta[g])
    /\ pc' = NextAfter[g] /\ result' = result
    /\ UNCHANGED <<netUp, vip, gwHost, gwMeta, gwRec, meta, attached, calls>>

\* LoadHost fails with an error other than NotFound.
LoadHostFails(g) ==
    /\ pc = g /\ gwRec[g] /\ gwMeta[g]
    /\ Return("LoadError")
    /\ UNCHANGED <<netUp, vip, gwHost, gwMeta, gwRec, meta, attached, calls>>

(* deleteGateway: DeleteHost, then the host's Core.Delete whatever         *)
(* DeleteHost returned; any failure but NotFound is returned as an error   *)
(* list, which makes Delete return.                                        *)
DeleteGatewayIgnoringMetaError(g) ==
    /\ pc = g /\ gwRec[g] /\ gwMeta[g]
    /\ \E h \in DeleteOutcome(gwHost[g]), m \in DeleteOutcome(TRUE) :
          /\ gwHost' = [gwHost EXCEPT ![g] = @ /\ ~h[1]]
          /\ gwMeta' = [gwMeta EXCEPT ![g] = ~m[1]]
          /\ IF h[2] THEN Return("GatewayError") ELSE pc' = NextAfter[g] /\ result' = result
    /\ UNCHANGED <<netUp, vip, gwRec, meta, attached, calls>>

DeleteGateway(g) ==
    /\ pc = g /\ gwRec[g] /\ gwMeta[g]
    /\ \E h \in DeleteOutcome(gwHost[g]), m \in DeleteOutcome(TRUE) :
          /\ gwHost' = [gwHost EXCEPT ![g] = @ /\ ~h[1]]
          /\ gwMeta' = [gwMeta EXCEPT ![g] = ~m[1]]
          /\ IF h[2] \/ m[2] THEN Return("GatewayError") ELSE pc' = NextAfter[g] /\ result' = result
    /\ UNCHANGED <<netUp, vip, gwRec, meta, attached, calls>>

\* DeleteVIP: a failure is logged and the deletion goes on.
DeleteVIP ==
    /\ pc = "vip"
    /\ \E ok \in BOOLEAN : vip' = (vip /\ ~ok)
    /\ pc' = "net" /\ result' = result
    /\ UNCHANGED <<netUp, gwHost, gwMeta, gwRec, meta, attached, calls>>

(* The provider refuses to delete a network while a host is on it (the    *)
(* contract UndoNetwork of NetworkCreate also assumes); the refusal is an  *)
(* error of the default case, DeleteNetworkOther.                          *)
NoHostOnNetwork == \A g \in Gateways : ~gwHost[g]

\* DeleteNetwork succeeds: Alter goes on to write the metadata back.
DeleteNetworkOK ==
    /\ pc = "net" /\ netUp /\ NoHostOnNetwork
    /\ netUp' = FALSE /\ pc' = "write" /\ result' = result
    /\ UNCHANGED <<vip, gwHost, gwMeta, gwRec, meta, attached, calls>>

\* NotFound: the callback returns it, so neither write nor Core.Delete runs.
DeleteNetworkNotFound ==
    /\ pc = "net" /\ ~netUp
    /\ Return("NotFound")
    /\ UNCHANGED <<netUp, vip, gwHost, gwMeta, gwRec, meta, attached, calls>>

(* Timeout: the code polls GetNetwork until the network is gone or the     *)
(* poll times out, and returns the Timeout error in both cases.            *)
DeleteNetworkTimeout ==
    /\ pc = "net" /\ netUp
    /\ \E gone \in BOOLEAN : (gone => NoHostOnNetwork) /\ netUp' = ~gone
    /\ Return("Timeout")
    /\ UNCHANGED <<vip, gwHost, gwMeta, gwRec, meta, attached, calls>>

DeleteNetworkOtherSwallowed ==
    /\ pc = "net" /\ netUp
    /\ pc' = "write" /\ result' = result
    /\ UNCHANGED <<netUp, vip, gwHost, gwMeta, gwRec, meta, attached, calls>>

\* Any other error is logged and returned.
DeleteNetworkOther ==
    /\ pc = "net" /\ netUp
    /\ Return("Other")
    /\ UNCHANGED <<netUp, vip, gwHost, gwMeta, gwRec, meta, attached, calls>>

\* Alter's write() of the unchanged payload: its PUTs may fail.
AlterWrite ==
    /\ pc = "write"
    /\ \E failed \in BOOLEAN :
          IF failed THEN Return("WriteError") ELSE pc' = "meta" /\ result' = result
    /\ UNCHANGED <<netUp, vip, gwHost, gwMeta, gwRec, meta, attached, calls>>

\* objn.core.Delete: the metadata entries are removed, or an error is returned.
DeleteMetadata ==
    /\ pc = "meta"
    /\ \E m \in DeleteOutcome(TRUE) :
          /\ meta' = ~m[1]
          /\ Return(IF m[2] THEN "MetaError" ELSE "ok")
    /\ UNCHANGED <<netUp, vip, gwHost, gwMeta, gwRec, attached, calls>>

Next ==
    \/ Start \/ RefuseAttached \/ Checkpoint
    \/ \E g \in Gateways : SkipGateway(g) \/ LoadHostFails(g) \/ DeleteGateway(g)
    \/ DeleteVIP
    \/ DeleteNetworkOK \/ DeleteNetworkNotFound \/ DeleteNetworkTimeout \/ DeleteNetworkOther
    \/ AlterWrite \/ DeleteMetadata

Spec == Init /\ [][Next]_vars

-----------------------------------------------------------------------------
(* A Delete that returns success has removed the provider network, the    *)
(* network metadata and the metadata of every gateway it recorded: the     *)
(* error paths of deleteGateway and DeleteNetwork all make Delete return.  *)
SuccessMeansGone ==
    result = "ok" => ~netUp /\ ~meta /\ \A g \in Gateways : gwRec[g] => ~gwMeta[g]

(* The network metadata is never removed while the provider network still *)
(* exists, whatever the order of failures and retries: otherwise nothing   *)
(* would be left to find and delete the network with.                      *)
NoUntrackedNetwork == netUp => meta

(* Spec 4.7 Delete step 5: on NotFound from DeleteNetwork "metadata        *)
(* cleanup still proceeds", so a Delete that returns NotFound leaves no    *)
(* metadata.  The code returns from inside the Alter callback instead.     *)
NotFoundCleansMetadata == result = "NotFound" => ~meta

(* Spec 4.7 Delete step 5: after a Timeout the poll returns "success once  *)
(* the network disappears", so Delete reports Timeout only while the       *)
(* network is still there.  The code returns the Timeout error regardless. *)
TimeoutOnlyIfPresent == result = "Timeout" => netUp

(* Spec 4.7 Delete-gateway: the helper "deletes the provider host, then    *)
(* the host's metadata", and Delete reaches a gateway only through its     *)
(* recorded id and that metadata (LoadHost).  So a gateway host on the     *)
(* provider keeps its metadata while the network's metadata records it,   *)
(* and a retried Delete can still delete it.  deleteGateway removes the    *)
(* metadata even when DeleteHost failed: every retry then skips the        *)
(* gateway, DeleteNetwork is refused, and the network cannot be deleted.   *)
GatewayReachable == \A g \in Gateways : gwHost[g] /\ gwRec[g] /\ meta => gwMeta[g]

(* Spec 4.7, Delete: the gateways go first, then the provider network,     *)
(* then the network's metadata, and nothing removed reappears, across     *)
(* every failure and retry.  deleteGateway's errors stop the call before  *)
(* DeleteNetwork, and every DeleteNetwork error but success stops it      *)
(* before the metadata is deleted.                                        *)
Teardown == INSTANCE NetworkTeardown
    WITH net <- netUp, md <- meta, gws <- {g \in Gateways : gwRec[g] /\ gwMeta[g]}

TeardownOrdered == Teardown!Spec

=============================================================================
