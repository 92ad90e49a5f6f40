---------------------------- MODULE NetworkHosts ----------------------------
(***************************************************************************)
(* The payload of a network's metadata as far as the properties of this    *)
(* project tell it apart: the hosts registered in its property hosts.v1,   *)
(* and the two callbacks that network.AttachHost and network.DetachHost    *)
(* pass to Alter (part_001).  hosts.v1 keeps ByID and ByName as mirror     *)
(* maps; a host's name is fixed by its id, so the set of attached host ids *)
(* determines both maps.                                                   *)
(***************************************************************************)
CONSTANTS Hosts,     \* host ids that may be attached to the network
          NoEntry    \* the value of a metadata entry that is absent

ASSUME HostsAssumption == Hosts # {}
ASSUME NoEntryAssumption == \A p \in SUBSET Hosts : p # NoEntry

\* A payload: the ids of the hosts in hosts.v1.
Payload == SUBSET Hosts

\* What an object-storage entry (or an in-memory carrier) may hold.
Entry == Payload \cup {NoEntry}

\* The callback of AttachHost: ByID[hostID] = hostName, ByName[hostName] = hostID.
AttachHost(h, p) == p \cup {h}

\* The callback of DetachHost: both entries go if ByID holds the id, else no-op.
DetachHost(h, p) == p \ {h}

\* The callbacks a task may run inside Alter.
Ops == [kind : {"attach", "detach"}, host : Hosts]

Apply(o, p) == IF o.kind = "attach" THEN AttachHost(o.host, p)
                                    ELSE DetachHost(o.host, p)
=============================================================================
