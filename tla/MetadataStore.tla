--------------------------- MODULE MetadataStore ---------------------------
(***************************************************************************)
(* What the persistent object promises (spec 3, 4.6, 8): the metadata of   *)
(* one network is a single register that is created once, changed only by *)
(* whole callbacks applied atomically to its latest value, and removed.    *)
(* Core is shown to implement it with meta <- the byID entry.              *)
(***************************************************************************)
EXTENDS NetworkHosts

VARIABLE meta

\* Either no metadata yet, or a network saved earlier with no host attached.
Init == meta \in {NoEntry, {}}

\* Carry: the metadata appears, with no host attached.
Create == /\ meta = NoEntry
          /\ meta' = {}

\* Alter: one callback applied to the current revision.
Mutate == /\ meta # NoEntry
          /\ \E o \in Ops : meta' = Apply(o, meta)

\* Delete: the metadata disappears.
Remove == /\ meta # NoEntry
          /\ meta' = NoEntry

Next == Create \/ Mutate \/ Remove

Spec == Init /\ [][Next]_meta
=============================================================================
