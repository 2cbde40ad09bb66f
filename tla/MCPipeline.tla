------------------------------- MODULE MCPipeline -------------------------------
(****************************************************************************)
(* Small instances of Pipeline.  The columns of c2 include those of c1: a   *)
(* snapshot built from c2 serves both configurations, one built from c1     *)
(* only c1.  Runs start from nothing, from an initialised database, or from *)
(* one with a first snapshot, to spend their commands on what follows.      *)
(****************************************************************************)
EXTENDS Pipeline, TLC

MCConfigs == {"c1", "c2"}
MCShapeOf == [c \in MCConfigs |-> IF c = "c1" THEN {"lag_1"} ELSE {"lag_1", "lag_7"}]
MCDatasets == {"full", "short"}

First == [config |-> "c2", data |-> "full"]

\* After init-db, and after a first build or before it.
Prepared ==
    /\ ConsumerInit
    /\ pc = [p \in Procs |-> "idle"]
    /\ conn = [p \in Procs |-> "none"]
    /\ exit = [p \in Procs |-> "none"]
    /\ dbFile = TRUE
    /\ schema = SchemaNames
    /\ starts = 0
    /\ kills = 0
    /\ exclusive = FALSE
    /\ cfg = [p \in Procs |-> None]
    /\ ver = [p \in Procs |-> 0]
    /\ base = "full"
    /\ \/ /\ rollingView = None
          /\ storeView = None
          /\ tables = << >>
          /\ manifest = << >>
       \/ /\ rollingView = "c2"
          /\ storeView = "c2"
          /\ tables = <<First>>
          /\ manifest = <<First>>

\* The discipline of one command at a time admits no behaviour of its own.
MCInit == (PipelineInit /\ ~exclusive) \/ Prepared

\* Sound for the safety runs: nothing tells processes or cost files apart.
MCSymmetry == Permutations(Procs) \cup Permutations(CostConfigs)

MCSpec == MCInit /\ [][PipelineNext]_pipelineVars
================================================================================
