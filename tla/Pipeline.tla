-------------------------------- MODULE Pipeline --------------------------------
(****************************************************************************)
(* The commands that consume feature snapshots: train, recommend, simulate  *)
(* and report, interleaved with init-db, build-features and ingestions.     *)
(*                                                                          *)
(* recommend and simulate hold a read-write connection from the assembly of *)
(* their dataset to the table they persist, so nothing but a crash gets in  *)
(* between.  train and report read the database only, and read-only         *)
(* processes coexist: trainings and reports interleave, and meet in the     *)
(* MLflow store, which the file lock does not guard.                        *)
(*                                                                          *)
(* MLflow is external: the calls of one run take effect one by one, a run   *)
(* whose process dies stays "running", and any call may raise.              *)
(****************************************************************************)
EXTENDS SnapshotBuilder

CONSTANTS
    CostConfigs,   \* contents of costs.yaml
    Asked,         \* the versions a --snapshot-version argument may name
    Short,         \* the datasets with too few days to split
    NumQuantiles,  \* how many quantile models a training registers
    NumMetrics     \* how many metrics it logs

ASSUME PipelineAssumption ==
    /\ Asked \subseteq Nat \ {0}
    /\ Short \subseteq Datasets /\ None \notin CostConfigs
    /\ NumQuantiles \in Nat \ {0} /\ NumMetrics \in Nat \ {0}

VARIABLES
    want,     \* want[p]: the --snapshot-version argument, 0 for the latest one
    costs,    \* costs[p]: the costs.yaml p loaded
    mine,     \* mine[p]: the MLflow run of p
    held,     \* held[p]: the report data p gathered
    runs,     \* the MLflow experiment, in start order
    outputs,  \* what the recommendations and simulation_results tables hold
    report    \* the content of executive_report.html

consumerLocals == <<want, costs, mine, held>>
consumerVars == <<want, costs, mine, held, runs, outputs, report>>
pipelineVars == <<vars, consumerVars>>

OutputTables == {"recommendations", "simulation_results"}
TrainLabels == {"start_run", "log_snapshot", "log_metric", "register_model", "end_run"}
ConsumerLabels == {"train", "recommend", "simulate", "report", "persist_recommendations",
                   "persist_simulation_results", "finish", "truncate_report", "write_report"}
                  \cup TrainLabels

Empty == [content |-> "none"]     \* no table, no file, nothing gathered
Truncated == [content |-> "cut"]  \* a file opened for writing

--------------------------------------------------------------------------------
(****************************************************************************)
(* Choosing and reading a snapshot.                                         *)
(****************************************************************************)

\* Only what the command goes on to read of its arguments and configuration is
\* kept: train prices nothing, report assembles nothing.
StartConsumer(p, label) ==
    /\ Start(p, label)
    /\ \E v \in Asked \cup {0} : want' = [want EXCEPT ![p] = v]
    /\ IF label = "report" THEN UNCHANGED cfg
                           ELSE \E c \in Configs : cfg' = [cfg EXCEPT ![p] = c]
    /\ IF label = "train" THEN UNCHANGED costs
                          ELSE \E k \in CostConfigs : costs' = [costs EXCEPT ![p] = k]
    /\ UNCHANGED <<ver, viewVars, base, snapshotVars, mine, held, runs, outputs, report>>

\* Mutation: the newest table instead of the newest manifest row.
LatestTable(p) ==
    IF want[p] # 0 THEN want[p] ELSE IF DOMAIN tables = {} THEN 0 ELSE Max(DOMAIN tables)

\* The snapshot a command uses: the one its argument names, whether the manifest
\* knows it or not, or the latest in the manifest; 0 when there is none.
Resolved(p) ==
    IF want[p] # 0 THEN want[p] ELSE IF DOMAIN manifest = {} THEN 0 ELSE Max(DOMAIN manifest)

\* A duckdb error escapes: no manifest to look into, no such table, or a table
\* without the columns this features.yaml asks for.
AssemblyLeaks(p) ==
    \/ want[p] = 0 /\ "feature_snapshots" \notin schema
    \/ Resolved(p) # 0 /\ Resolved(p) \notin DOMAIN tables
    \/ /\ Resolved(p) \in DOMAIN tables
       /\ ~(ShapeOf[cfg[p]] \subseteq ShapeOf[tables[Resolved(p)].config])

\* FeatureError without a snapshot; ForecastError, OptimizationError or
\* SimulationError when the snapshot spans too few days.
AssemblyFails(p) ==
    Resolved(p) # 0 => tables[Resolved(p)].data \in Short

\* The connection is opened and the horizon dataset assembled and split.
Assemble(p, label, mode, next) ==
    /\ pc[p] = label
    /\ \/ /\ CanOpen(p, mode)
          /\ AssemblyLeaks(p)
          /\ End(p, "raw")
          /\ dbFile' = TRUE
          /\ UNCHANGED <<ver, schema, boundVars>>
       \/ /\ CanOpen(p, mode)
          /\ ~AssemblyLeaks(p)
          /\ AssemblyFails(p)
          /\ End(p, "error")
          /\ dbFile' = TRUE
          /\ UNCHANGED <<ver, schema, boundVars>>
       \/ /\ ~AssemblyLeaks(p)
          /\ ~AssemblyFails(p)
          /\ OpenSection(p, mode, next)
          /\ ver' = [ver EXCEPT ![p] = Resolved(p)]
          /\ UNCHANGED schema
       \/ Refused(p, mode) /\ UNCHANGED ver
    /\ UNCHANGED <<cfg, viewVars, base, snapshotVars, consumerVars>>

--------------------------------------------------------------------------------
(****************************************************************************)
(* train: one MLflow run, logged call by call.                              *)
(****************************************************************************)

NewRun(p) ==
    [want |-> want[p], trained |-> tables[ver[p]], snapshot |-> 0, metrics |-> 0,
     models |-> 0, status |-> "running"]

InTraining(p, label) ==
    /\ pc[p] = label
    /\ UNCHANGED <<dbFile, schema, boundVars, builderVars, want, costs, held, outputs, report>>

\* Mutation: a crashed last run taken up again, from its beginning.
StartRunResuming(p) ==
    /\ InTraining(p, "start_run")
    /\ IF Len(runs) # 0 /\ runs[Len(runs)].status = "failed"
         THEN /\ runs' = [runs EXCEPT ![Len(runs)] = NewRun(p)]
              /\ mine' = [mine EXCEPT ![p] = Len(runs)]
         ELSE /\ runs' = Append(runs, NewRun(p))
              /\ mine' = [mine EXCEPT ![p] = Len(runs) + 1]
    /\ Goto(p, "log_snapshot")
    /\ UNCHANGED <<conn, exit>>

StartRun(p) ==
    /\ InTraining(p, "start_run")
    /\ runs' = Append(runs, NewRun(p))
    /\ mine' = [mine EXCEPT ![p] = Len(runs) + 1]
    /\ Goto(p, "log_snapshot")
    /\ UNCHANGED <<conn, exit>>

LogSnapshot(p) ==
    /\ InTraining(p, "log_snapshot")
    /\ runs' = [runs EXCEPT ![mine[p]].snapshot = ver[p]]
    /\ Goto(p, "log_metric")
    /\ UNCHANGED <<conn, exit, mine>>

\* Mutation: the last metric left out.
LogMetricButLast(p) ==
    /\ InTraining(p, "log_metric")
    /\ LET n == runs[mine[p]].metrics
       IN  IF n + 1 < NumMetrics
             THEN runs' = [runs EXCEPT ![mine[p]].metrics = n + 1] /\ UNCHANGED pc
             ELSE Goto(p, "register_model") /\ UNCHANGED runs
    /\ UNCHANGED <<conn, exit, mine>>

\* One call per metric; then the models, if forecast.yaml has them registered.
LogMetric(p) ==
    /\ InTraining(p, "log_metric")
    /\ LET n == runs[mine[p]].metrics
       IN  /\ runs' = [runs EXCEPT ![mine[p]].metrics = n + 1]
           /\ IF n + 1 < NumMetrics
                THEN UNCHANGED pc
                ELSE Goto(p, "register_model") \/ Goto(p, "end_run")
    /\ UNCHANGED <<conn, exit, mine>>

\* Mutation: one entry too many.
RegisterModelOneMore(p) ==
    /\ InTraining(p, "register_model")
    /\ LET n == runs[mine[p]].models
       IN  IF n <= NumQuantiles
             THEN runs' = [runs EXCEPT ![mine[p]].models = n + 1] /\ UNCHANGED pc
             ELSE Goto(p, "end_run") /\ UNCHANGED runs
    /\ UNCHANGED <<conn, exit, mine>>

\* One registry entry per quantile, in order.
RegisterModel(p) ==
    /\ InTraining(p, "register_model")
    /\ LET n == runs[mine[p]].models
       IN  \/ /\ n < NumQuantiles
              /\ runs' = [runs EXCEPT ![mine[p]].models = n + 1]
              /\ UNCHANGED pc
           \/ /\ n = NumQuantiles
              /\ Goto(p, "end_run")
              /\ UNCHANGED runs
    /\ UNCHANGED <<conn, exit, mine>>

EndRun(p) ==
    /\ InTraining(p, "end_run")
    /\ runs' = [runs EXCEPT ![mine[p]].status = "finished"]
    /\ End(p, "ok")
    /\ UNCHANGED mine

\* An MLflow call raises: the run is marked failed on the way out and an
\* exception that nobody wraps escapes main.  Counted with the kills.
TrackingFails(p) ==
    /\ pc[p] \in TrainLabels
    /\ kills < MaxKills
    /\ kills' = kills + 1
    /\ runs' = IF pc[p] = "start_run" THEN runs
                                      ELSE [runs EXCEPT ![mine[p]].status = "failed"]
    /\ End(p, "raw")
    /\ UNCHANGED <<dbFile, schema, starts, exclusive, builderVars, consumerLocals, outputs, report>>

\* A user deletes the run of a training that failed or died.
DeleteRun ==
    \E i \in 1..Len(runs) :
        /\ runs[i].status \in {"failed", "running"}
        /\ \A p \in Procs : pc[p] \in TrainLabels => mine[p] # i
        /\ runs' = [runs EXCEPT ![i].status = "deleted"]
        /\ UNCHANGED <<vars, want, costs, mine, held, outputs, report>>

Train(p) ==
    \/ Assemble(p, "train", "ro", "start_run")
    \/ StartRun(p) \/ LogSnapshot(p) \/ LogMetric(p) \/ RegisterModel(p) \/ EndRun(p)
    \/ TrackingFails(p)

--------------------------------------------------------------------------------
(****************************************************************************)
(* recommend and simulate.                                                  *)
(****************************************************************************)

Result(p) ==
    [content |-> "rows", snapshot |-> ver[p], of |-> tables[ver[p]], costs |-> costs[p],
     want |-> want[p]]

\* CREATE OR REPLACE TABLE, wholesale and autocommitted; a duckdb error is wrapped.
\* The connection is released with the commit: until it is closed the others are
\* refused, as before, and p has nothing left to do on it.
Persist(p, label, table) ==
    /\ pc[p] = label
    /\ \/ /\ outputs' = [outputs EXCEPT ![table] = Result(p)]
          /\ conn' = [conn EXCEPT ![p] = "none"]
          /\ Goto(p, "finish")
          /\ UNCHANGED <<exit, kills>>
       \/ /\ kills < MaxKills
          /\ kills' = kills + 1
          /\ End(p, "error")
          /\ UNCHANGED outputs
    /\ UNCHANGED <<dbFile, schema, starts, exclusive, builderVars, consumerLocals, runs, report>>

\* The totals are logged and the command returns 0; a kill may still come first,
\* and then the new table is there without an exit code 0.
Finish(p) ==
    /\ pc[p] = "finish"
    /\ End(p, "ok")
    /\ UNCHANGED <<dbFile, schema, boundVars, builderVars, consumerVars>>

Recommend(p) ==
    \/ Assemble(p, "recommend", "rw", "persist_recommendations")
    \/ Persist(p, "persist_recommendations", "recommendations")

Simulate(p) ==
    \/ Assemble(p, "simulate", "rw", "persist_simulation_results")
    \/ Persist(p, "persist_simulation_results", "simulation_results")

--------------------------------------------------------------------------------
(****************************************************************************)
(* report.                                                                  *)
(****************************************************************************)

\* latest_run: the run started last that has not been deleted, whatever its
\* status; 0 without one.
LatestRun ==
    LET active == {i \in 1..Len(runs) : runs[i].status # "deleted"}
    IN  IF active = {} THEN 0 ELSE Max(active)

\* The manifest row of the snapshot asked for (or the latest), the metrics of the
\* latest run, both output tables, and the cost assumptions of this process.  0
\* and Empty: the section is not there.  The report does not say whether the run
\* was finished; "finished" keeps it for the properties.
Gathered(p) ==
    [content |-> "report",
     snapshot |-> IF Resolved(p) \in DOMAIN manifest THEN Resolved(p) ELSE 0,
     run |-> LatestRun,
     metrics |-> IF LatestRun = 0 THEN 0 ELSE runs[LatestRun].metrics,
     finished |-> LatestRun # 0 /\ runs[LatestRun].status = "finished",
     outputs |-> outputs,
     costs |-> costs[p]]

\* Mutation: the connection closed before the report is written.
GatherAndClose(p) ==
    /\ pc[p] = "report"
    /\ CanOpen(p, "ro")
    /\ "feature_snapshots" \in schema
    /\ held' = [held EXCEPT ![p] = Gathered(p)]
    /\ Goto(p, "truncate_report")
    /\ UNCHANGED <<conn, exit, dbFile, schema, boundVars, builderVars, want, costs, mine,
                   runs, outputs, report>>

\* The connection stays open until the file is written.  Without a manifest, or
\* when the MLflow store raises, an exception escapes.
Gather(p) ==
    /\ pc[p] = "report"
    /\ \/ /\ "feature_snapshots" \in schema
          /\ OpenSection(p, "ro", "truncate_report")
          /\ held' = [held EXCEPT ![p] = Gathered(p)]
          /\ UNCHANGED schema
       \/ /\ CanOpen(p, "ro")
          /\ "feature_snapshots" \notin schema
          /\ End(p, "raw")
          /\ UNCHANGED <<dbFile, schema, boundVars, held>>
       \/ /\ CanOpen(p, "ro")
          /\ kills < MaxKills
          /\ kills' = kills + 1
          /\ End(p, "raw")
          /\ UNCHANGED <<dbFile, schema, starts, exclusive, held>>
       \/ Refused(p, "ro") /\ UNCHANGED held
    /\ UNCHANGED <<builderVars, want, costs, mine, runs, outputs, report>>

InReporting(p, label) ==
    /\ pc[p] = label
    /\ UNCHANGED <<dbFile, schema, builderVars, consumerLocals, runs, outputs>>

\* Opening the file for writing empties it, or fails with an OSError that
\* becomes a ReportingError.
TruncateReport(p) ==
    /\ InReporting(p, "truncate_report")
    /\ \/ /\ report' = Truncated
          /\ Goto(p, "write_report")
          /\ UNCHANGED <<conn, exit, boundVars>>
       \/ /\ kills < MaxKills
          /\ kills' = kills + 1
          /\ End(p, "error")
          /\ UNCHANGED <<starts, exclusive, report>>

WriteReport(p) ==
    /\ InReporting(p, "write_report")
    /\ report' = held[p]
    /\ End(p, "ok")
    /\ UNCHANGED boundVars

Report(p) == Gather(p) \/ TruncateReport(p) \/ WriteReport(p)

--------------------------------------------------------------------------------
(****************************************************************************)
(* The whole: consumers and everything that changes the snapshots.          *)
(****************************************************************************)

ConsumerStep(p) == Train(p) \/ Recommend(p) \/ Simulate(p) \/ Finish(p) \/ Report(p)

ConsumerInit ==
    /\ want = [p \in Procs |-> 0]
    /\ costs = [p \in Procs |-> None]
    /\ mine = [p \in Procs |-> 0]
    /\ held = [p \in Procs |-> Empty]
    /\ runs = << >>
    /\ outputs = [t \in OutputTables |-> Empty]
    /\ report = Empty

PipelineInit == Init /\ ConsumerInit

PipelineNext ==
    \/ Next /\ UNCHANGED consumerVars
    \/ \E p \in Procs :
        \/ \E label \in {"train", "recommend", "simulate", "report"} : StartConsumer(p, label)
        \/ ConsumerStep(p)
    \/ DeleteRun

PipelineSpec == PipelineInit /\ [][PipelineNext]_pipelineVars

--------------------------------------------------------------------------------
(****************************************************************************)
(* Properties.                                                              *)
(****************************************************************************)

Runs == [want : Asked \cup {0}, trained : Snapshots, snapshot : Nat, metrics : 0..NumMetrics,
         models : 0..NumQuantiles, status : {"running", "failed", "finished", "deleted"}]

PipelineTypeOK ==
    /\ pc \in [Procs -> {"idle"} \cup SchemaNames \cup BuildLabels \cup ConsumerLabels]
    /\ exit \in [Procs -> ExitCodes]
    /\ conn \in [Procs -> Modes]
    /\ want \in [Procs -> Asked \cup {0}]
    /\ costs \in [Procs -> CostConfigs \cup {None}]
    /\ mine \in [Procs -> 0..Len(runs)]
    /\ runs \in Seq(Runs)
    /\ DOMAIN held = Procs /\ DOMAIN outputs = OutputTables
    /\ \A t \in OutputTables : outputs[t].content \in {"none", "rows"}
    /\ report.content \in {"none", "cut", "report"}

\* "A model version whose run has no snapshot_table param is invalid"
\* (docs/MODEL_VERSIONING.md:37-39): however a training ends, a registered model
\* belongs to a run that names the snapshot it was trained on and carries its
\* evaluation, and that snapshot still holds exactly the data it was trained on.
ModelsReproducible ==
    \A i \in 1..Len(runs) :
        runs[i].models > 0 =>
            /\ runs[i].metrics = NumMetrics
            /\ runs[i].snapshot \in DOMAIN tables
            /\ tables[runs[i].snapshot] = runs[i].trained

\* What a command chose by itself is published: a run, recommendation or
\* simulation made without --snapshot-version names a manifest row, even after
\* a build died between its table and its row.
DefaultsPublished ==
    /\ \A i \in 1..Len(runs) :
          runs[i].want = 0 /\ runs[i].snapshot # 0 => runs[i].snapshot \in DOMAIN manifest
    /\ \A t \in OutputTables :
          outputs[t] # Empty /\ outputs[t].want = 0 => outputs[t].snapshot \in DOMAIN manifest

\* "Backtests are re-runnable on the exact bytes a model saw"
\* (docs/adr/011-snapshot-data-versioning.md:33), and every recommendation and
\* simulated decision says "which feature_store_v{N} this run used"
\* (docs/DATA_MODEL.md:117,136): whatever runs and dies after a command has persisted
\* its table, before or after it reported success, the snapshot its rows name still
\* holds exactly what they were computed from.  That includes the table of a build
\* that died before its manifest row, which --snapshot-version can name.
OutputsReproducible ==
    \A t \in OutputTables :
        outputs[t] # Empty =>
            /\ outputs[t].snapshot \in DOMAIN tables
            /\ tables[outputs[t].snapshot] = outputs[t].of

\* The report on disk agrees with the database at the moment it was written:
\* its snapshot is in the manifest, and its recommendations and simulation are
\* the ones in the tables, whatever ran since the report was started.
ReportCurrent ==
    [][\A p \in Procs :
          (pc[p] = "write_report" /\ exit'[p] = "ok") =>
              /\ report'.snapshot \in DOMAIN manifest \cup {0}
              /\ want[p] = 0 => \A v \in DOMAIN manifest : v <= report'.snapshot
              /\ report'.outputs = outputs]_pipelineVars

\* "Metrics reported anywhere ... must be reproducible from a referenced MLflow
\* run", "one run per `demandpilot train` invocation" (docs/EXPERIMENT_TRACKING.md):
\* the run a report names still has every metric shown, whoever trained, failed or
\* cleaned up since; it lacks metrics, or is gone, only if it was not finished when
\* the report was gathered; and no two trainings write to one run.
MetricsReproducible ==
    /\ report.content = "report" /\ report.run # 0 =>
          LET shown == runs[report.run]
          IN  /\ report.metrics <= shown.metrics
              /\ report.metrics < NumMetrics \/ shown.status = "deleted" => ~report.finished
    /\ \A p, q \in Procs : p # q /\ {pc[p], pc[q]} \subseteq TrainLabels \ {"start_run"}
                            => mine[p] # mine[q]

\* "DatabaseError: If the query fails to execute" (forecasting/dataset.py:90): a
\* train, recommend or simulate that is told which snapshot to use, and so does not
\* look for the latest one, ends its assembly with exit code 1 when the query fails.
QueryFailuresWrapped ==
    [][\A p \in Procs :
          pc[p] \in {"train", "recommend", "simulate"} /\ want[p] # 0
              => exit'[p] # "raw"]_pipelineVars

\* "Every recommendation and simulated decision above is priced from these
\* ratios" (executive_report.html.j2:270): the cost assumptions a report shows
\* are those of the results it shows.
ReportPricedAsShown ==
    report.content = "report" =>
        \A t \in OutputTables :
            report.outputs[t] # Empty => report.outputs[t].costs = report.costs
================================================================================
