--------------------------- MODULE SnapshotRegistry ----------------------------
(****************************************************************************)
(* What the snapshot manifest promises its readers (features/snapshots.py,  *)
(* docs/DATA_VERSIONING.md): an append-only registry of immutable snapshots *)
(* numbered 1, 2, 3, ...  It says nothing of processes, connections, tables *)
(* or crashes; SnapshotBuilder is shown to implement it.                    *)
(****************************************************************************)
EXTENDS Naturals

CONSTANT Snapshots          \* what a snapshot can contain

VARIABLE registry           \* version -> the snapshot published under it

Published == DOMAIN registry

RegistryInit == Published = {}

\* With n versions published, version n + 1 is published with some content; no
\* other entry changes.
Publish ==
    \E n \in Published \cup {0}, s \in Snapshots :
        /\ Published = 1..n
        /\ registry' = [v \in 1..(n + 1) |-> IF v = n + 1 THEN s ELSE registry[v]]

RegistrySpec == RegistryInit /\ [][Publish]_registry
================================================================================
