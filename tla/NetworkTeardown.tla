-------------------------- MODULE NetworkTeardown --------------------------
(***************************************************************************)
(* What network.Delete promises about the order of a teardown (spec 4.7,  *)
(* Delete: the gateways, then the provider network, then the network's    *)
(* metadata), whatever fails and however often the client retries: the   *)
(* metadata of the recorded gateways goes first, the provider network     *)
(* only once none is left, the network metadata only once the network is  *)
(* gone, and nothing removed comes back.  NetworkDelete is shown to       *)
(* implement it.                                                          *)
(***************************************************************************)
CONSTANT Gateways

VARIABLES
    net,   \* the provider network exists
    md,    \* the network metadata exists
    gws    \* the recorded gateways whose metadata exists

Init == net = TRUE /\ md = TRUE /\ gws \subseteq Gateways

\* A recorded gateway's metadata is removed.
RemoveGateway == \E g \in gws : gws' = gws \ {g} /\ UNCHANGED <<net, md>>

\* The provider network is removed once no recorded gateway is left.
RemoveNetwork == net /\ gws = {} /\ net' = FALSE /\ UNCHANGED <<md, gws>>

\* The network metadata is removed once the provider network is gone.
RemoveMetadata == ~net /\ md /\ md' = FALSE /\ UNCHANGED <<net, gws>>

Next == RemoveGateway \/ RemoveNetwork \/ RemoveMetadata

Spec == Init /\ [][Next]_<<net, md, gws>>
=============================================================================
