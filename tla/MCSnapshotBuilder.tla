--------------------------- MODULE MCSnapshotBuilder ---------------------------
(****************************************************************************)
(* Small instances of SnapshotBuilder.  c1 and c2 generate columns of the   *)
(* same names and types (they group or order differently), c3 others.  c4   *)
(* names a column sales does not have; c5 does not group by sku_id.         *)
(****************************************************************************)
EXTENDS SnapshotBuilder

MCConfigs == {"c1", "c2", "c3", "c4", "c5"}
MCShapeOf == [c \in MCConfigs |->
                 CASE c \in {"c1", "c2"} -> "narrow"
                   [] c = "c3"          -> "wide"
                   [] c = "c4"          -> "unknown"
                   [] c = "c5"          -> "keyless"]

\* From nothing, or after init-db, to spend the commands on what follows.
MCInit ==
    \/ Init
    \/ /\ BuilderInit
       /\ pc = [p \in Procs |-> "idle"]
       /\ conn = [p \in Procs |-> "none"]
       /\ exit = [p \in Procs |-> "none"]
       /\ dbFile = TRUE
       /\ schema = SchemaNames
       /\ starts = 0
       /\ kills = 0
       /\ exclusive \in BOOLEAN

MCSpec == MCInit /\ [][Next]_vars
MCFairSpec == MCSpec /\ \A p \in Procs : WF_vars(Step(p))
================================================================================
