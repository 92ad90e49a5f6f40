------------------------------- MODULE MC_Core -------------------------------
(* Model-checking instance of Core: three tasks, two hosts, two instances. *)
EXTENDS Core

\* Every task calls the same network object (its lock is shared).
MCSharedInstance == [t \in Tasks |-> CHOOSE i \in Instances : TRUE]

\* Every task but one shares an instance; the last one loaded its own.
MCOwnInstance ==
    LET t0 == CHOOSE t \in Tasks : t # Creator
        i0 == CHOOSE i \in Instances : TRUE
    IN [t \in Tasks |-> IF t = t0 THEN CHOOSE i \in Instances : i # i0 ELSE i0]
=============================================================================
