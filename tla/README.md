# A formal model of DemandPilot

TLA+ modules, TLC configurations and TLAPS proofs about DemandPilot, a command-line pipeline that
ingests M5 retail data into one DuckDB file, builds versioned feature snapshots, trains quantile
demand models, turns forecasts into orders, replays two ordering policies against history and
writes a report. Paths below are relative to `src/`, the repository; `demandpilot/` stands for
`src/demandpilot/` in it.

## 1. Inventory

DemandPilot has no server and no threads. Each command is a process of its own (`cli.py`), and
processes meet in three places: the DuckDB file, the MLflow store and the report file. What is hard
about it is therefore of two kinds. *Between* commands: a command dies or fails with part of its
statements committed, or another one gets in between two of its connections. *Inside* a command:
which rows a model has seen when it is judged, whether three separately written cost formulas
describe the same economics, and whether what the report says of a table is true of its rows.

| Component | State | Operations | Meets | What makes it correct |
|---|---|---|---|---|
| commands (`cli.py`) | the process, its exit code | parse, run, map exceptions to 0 / 1 | everything | a failure is a documented exception; a re-run is safe |
| database (`data/db.py`, `data/schema.py`) | the file, its lock, the schema | `connect`, `execute_script`, `apply_schema` | every command | connections exclude each other; scripts are idempotent |
| ingestion (`data/m5.py`, `sql/ingest_m5.sql.j2`) | five base tables, four staging tables, `_ingest_stats` | raw-file check, 19 statements, summary, validation | database, validation | complete or not validating; re-run recovers |
| validation (`data/validation.py`) | none | 13 checks | database | passes on one sound, complete dataset only |
| features (`features/generator.py`, two SQL views) | `rolling_features`, `feature_store` | render and replace the views | snapshots | no feature sees its own day |
| snapshots (`features/snapshots.py`) | `feature_store_v<N>`, `feature_snapshots` | build, resolve the latest | database, all consumers | immutable, gap-free, traceable |
| datasets and splits (`forecasting/dataset.py`, `split.py`) | none | self-join, stack, split | train, recommend, simulate | later partitions are later |
| training (`forecasting/pipeline.py`, `model.py`) | MLflow runs, registered models | fit, score, log | MLflow | reproducible, judged on unseen data |
| metrics and economics (`core/`) | none | pinball loss, rearrangement, fractile, costs | all of the above | the formulas agree |
| recommendations (`optimization/recommender.py`) | `recommendations` | build, persist | snapshots, database | one honest origin; table replaced whole |
| simulation (`simulation/`) | `simulation_results` | replay, grade, persist | snapshots, database | paired, held out, the same loss for both |
| tracking (`mlflow_utils.py`) | the tracking URI | resolve it, find the latest run | MLflow | train and report meet in one store |
| report (`reporting/`, three SQL queries) | the HTML file | gather, aggregate, render, write | database, MLflow, `costs.yaml` | what it shows is current, consistent, and true of the tables |
| configuration (`config/`, `logging_setup.py`) | six YAML files, edited at any time | find the root, read and validate five files, set up logging, resolve paths | every command | only sane parameters get to work; one root means one set of stores |

SQL templating, the exception classes, the report template and the download script keep no state
that another part reads; they are not modelled.

**Hard behaviours.** A build dies between `CREATE TABLE` and its manifest `INSERT`
(`features/snapshots.py:110-139`); two builds alternate between the three connections of each; an
ingestion dies among its nineteen autocommitted statements; a training's MLflow run is written call
by call; a report reads five sources that change independently; a configuration file is
saved while a command is between two others; series with gaps and different last
days are self-joined and split by date; independently fitted quantiles cross; a fitted distribution
degenerates. `PROJECT.json` lists each hazard at its line with the properties that watch it.

## 2. Modules

```
Workspace ── SnapshotBuilder ── Pipeline          HorizonDataset ── DatasetRun ─┬─ Backtest ─────┐
    │             │  refines                                                    ├─ Recommender ──┼─ HeldOut
    └─ Ingestion  └─ SnapshotRegistry                                           └─ PolicyReplay ─┘
                              Newsvendor ─┬─ QuantileForecast ── PolicyGrading ── ExecutiveSummary
                                          └─ ConfigLoading

proofs: SnapshotBuilderProofs ── PipelineProofs
        NewsvendorProofs ── PolicyGradingProofs ── ExecutiveSummaryProofs
        IngestionProofs   HeldOutProofs   ConfigLoadingProofs
```

A line means EXTENDS. The `MC*` modules give the constants of the runs their values.

* **Workspace**: the life of a command. `pc[p]` is the statement a process executes next, `conn[p]`
  its connection, `exit[p]` how its last command ended (`ok` and `error` are exit codes 0 and 1,
  `raw` an exception that is no `DemandPilotError` and escapes `main`, `killed` a dead process).
  `CanOpen` is DuckDB's lock: one read-write process or any number of read-only ones, and a refused
  open fails at once. `execute_script` is open, execute and close in one step (`RunScript`), a
  `with` block a section that holds `conn[p]` over several steps (`OpenSection` .. `End`). The
  variable `exclusive`, fixed at the start of a behaviour, says whether the users keep to the
  documented discipline of one command at a time; properties that need the discipline name it.
* **SnapshotBuilder**: `build-features`, statement by statement: `CreateRollingView` and
  `CreateStoreView` on connections of their own, then `SelectVersion`, `CreateTable`,
  `InsertManifest` on one. `rollingView` and `storeView` are the configs the two views were made
  from; a table is the config and the data it was built from, so "lineage" is an equation between
  `manifest[v]` and `tables[v]`. The names in `features.yaml` are free strings (`config/models.py:120`,
  `135`, `150-151`), and DuckDB binds a view when it is created: a config in `NoRolling` names what the
  first view cannot find, one in `NoStore` gives that view columns the second cannot join or exclude.
  `execute_script` then ends the build with exit code 1, before or after it replaced the first view.
  `init-db`, kills and ingestions by others are actions too.
* **SnapshotRegistry**: the abstract promise, an append-only sequence of immutable snapshots.
  SnapshotBuilder implements it with `registry <- [v \in DOMAIN manifest |-> tables[v]]`.
* **Ingestion**: `ingest-m5` and `validate`. The script is a sequence of nineteen records (load,
  clear, insert) executed one by one; a table is the set of datasets it holds rows of. A dataset
  says which tables cannot be loaded from it (`Rejects`) and which checks its rows fail (`Flaws`).
* **Pipeline**: composes SnapshotBuilder with `train`, `recommend`, `simulate` and `report`. The
  MLflow run is a record that grows call by call: the snapshot's name, one metric after the other,
  one registered model after the other. It fails where a call raises, stays "running" where the
  process dies, and may be deleted by a user afterwards; `LatestRun` is the query of `latest_run`.
  The output tables and the report name the snapshot, config and costs they were made from.
  `Persist` commits an output table, `Finish` ends the command with exit code 0: a kill in between
  leaves the new table without a success. What `build-features`, `train` and `report` still log and
  print after their last effect belongs to the step of that effect; no property concludes anything
  from an exit code 0 that is missing. A failing MLflow call, persist or file write is an action
  counted with the kills.
* **HorizonDataset**: pure operators. Sales rows are cells (series, day); a feature is the set of
  days it reads, counted in rows as `LAG` and `ROWS BETWEEN` do; `Assembled` is the self-join,
  `Split` the chronological split. Gaps come from weeks without a price, as in ingestion's join.
* **DatasetRun, Backtest, Recommender, PolicyReplay, HeldOut**: one run of `train`, `recommend` or
  `simulate` on any snapshot and configuration. DatasetRun holds what they share (`Assemble`,
  `SplitRows`, errors), HeldOut composes the three.
* **Newsvendor**: fractile, cost breakdown and pinball loss in exact integers: cost ratios over a
  common `Scale`, quantiles as fractions. `Economies` are the finite ratios that load; YAML's `.nan`
  and `.inf`, which load as well, are followed in ConfigLoading up to the work and no further.
* **QuantileForecast, PolicyGrading**: one forecast row of `train` or `recommend` (predict each
  quantile, rearrange, decide), and the loop of `simulate` over the rows of a series, whose ML
  policy orders such a forecast. What LightGBM predicts is any number; the baseline's order is any
  that its distribution's arguments allow, NaN included where scipy returns it.
* **ExecutiveSummary**: from rows to the figures of the report. `train` scores its rows and logs one
  metric per call, `recommend` and `simulate` replace their table, `report` aggregates what it finds
  as the three `sql/report_*.sql` and `reporting/data.py` do: header, largest misses, policy totals,
  savings and verdict, quantile table. Sums stand for averages.
* **ConfigLoading**: what a command does before its work: the root, the five files read one by one
  in the order of `load_config`, each with its validator, then `logging.yaml`, the paths and the
  tracking URI. `Edit` changes any file at any moment, `Start` begins in any directory with any
  `--root` and `DEMANDPILOT_ROOT`. The content of a file is a record that says why it cannot be
  read, or gives its settings; the work itself is one step, remembered in `used`.

DuckDB, MLflow, LightGBM, scipy and the operating system are external: they appear only as the
code uses them.

## 3. What the runs check

Passing runs (`PROJECT.json` has one mutant of the code for each property, which breaks it):

| Run | Instance | Properties |
|---|---|---|
| `snapshot_builds` | 2 processes, 3 commands from nothing or after `init-db`, 1 kill, 5 configs (two of one shape, one of another, two whose names do not bind), 2 datasets | `AtMostOneOrphan`, `SnapshotsImmutable`, `WedgeIsPermanent`, `RefinesRegistry`, with the discipline also `LineageExact` and the liveness property `BuildPublishes` |
| `ingest_all` | 2 processes, 3 commands, 1 kill, 2 sound and 4 bad datasets | `ValidatedMeansComplete` after every statement, `RawFilesReadFirst`, with the discipline also `FailuresClassified`, `OkMeansOwnData`, and the liveness property `RerunRecovers` |
| `pipeline_interleaved` | 2 processes, 3 commands from three starting points, 1 kill or failing call, 2 configs, 2 metrics, 2 models, deleted runs | `ModelsReproducible`, `DefaultsPublished`, `MetricsReproducible`, `OutputsReproducible`, `ReportCurrent` |
| `held_out` | all 256 pricings of 2 series over 4 weeks of 2 days, all commands, horizons and lead times to 3 | `SplitChronological`, `FeaturesPrecedeOrigin`, `FullHorizonHeldOut`, `ActualDemandUnseen`, `OneOriginForAll`, `OutcomesHeldOut`, `PoliciesPaired`, and the liveness property `RunEnds` |
| `order_decisions` | 4 cost files, predictions in {-1, 0, 1, 3}, up to 4 quantiles, 2 rows of each command, tables of an earlier run | `NoCrossing`, `RearrangementNeverHurts`, `OptimalAtFractile`, `GradedByPinball`, and of the report `SummarySpeaksForTable`, `SafetyStockShown`, `SavingsShown`, `AccuracyShown` |
| `config_loading` | 2 commands, 2 edits, 3 to 6 contents of each file, `.inf` and `.nan` ratios among them, 2 directories, 3 ways to give the root | `SoundBeforeWork`, `SameRootSameStores` |

Each run also checks the type invariant of its module. What a property says, and which code or
sentence of the documents it is about, stands above it in its module.

**Bounds.** Processes differ in nothing but their name, and every hazard found needs at most two of
them at once. Three commands are a build that dies, a build that meets its remains and one more;
what precedes them costs none, as the runs start from an initialised database too, and the pipeline
run also from one with a first snapshot. Two metrics and two models are the fewest of which some can
be missing. One kill is enough to leave every intermediate state behind, and `WedgeIsPermanent` is
proved for any number. Two configs of one shape and one of another tell a view that fails to bind
from a view that silently binds to the wrong columns; two more fail at either view for the names
they use, and leave their views, old or new, to the next build. Two weeks around a gap, one before
and one after, are the shortest data on which rows and days differ on both sides of a split. Four
predictions give every order pattern of crossing quantiles with ties. Two edits and two commands are
enough for a file that changes between two reads of one command, and for the stores of two commands
to differ. Symmetry is used in the pipeline runs only, over processes and cost files, where no
liveness is checked.

**Premises.** `BuildPublishes` is about one command at a time, an initialised database whose
numbering is not wedged, and a `features.yaml` whose names bind: with names that do not, the build
exits with code 1 and publishes nothing, however sound the file looked to its validator.
`SoundBeforeWork` demands a proper fractile of finite cost ratios and a positive lead time of
commands that do not override it; section 4 says what the others get.

**Fairness.** `FairSpec` assumes weak fairness of each started command's next statement: the
operating system runs it, and no statement waits for another process, since a refused connection
fails instead of blocking. Starting a command and killing one are never owed. A single run of
`train`, `recommend` or `simulate` (HeldOut) is one thread of control, so weak fairness of its next
step is what executing it means. No command retries, so nothing stronger is needed. ExecutiveSummary,
ConfigLoading and Pipeline are checked for safety only and assume no fairness.

All configurations switch deadlock checking off: the bounded number of commands is used up at some
point, and a run that has ended takes no step.

## 4. Where the code and its documents disagree

Each of these has a run in which TLC reaches the state:

* `snapshot_crash`: a build that dies between `CREATE TABLE` and the manifest `INSERT` blocks the
  version number for good; `docs/SYSTEM_FLOW.md:94-95` calls every step idempotent.
* `pipeline_leak`: a command given a `--snapshot-version` whose table does not exist ends in a
  traceback instead of exit code 1 (`forecasting/dataset.py:93`, against its docstring at line 90).
* `pipeline_report_costs`: the report shows the present `costs.yaml`, its tables were priced by an
  earlier one, against the template's sentence that everything shown is priced from these ratios.
* `replay_look_ahead`: the replayed model has seen outcomes later than the decisions it is replayed
  on; `OutcomesHeldOut` shows that none of them reaches the day a decision is graded on.
* `dataset_lags`: lags count rows, and a week without a price in between drops its rows.
* `grading_nan`: a normal baseline fitted to a constant history orders NaN.

More were seen while modelling and have no run of their own.

* *Configuration.* `--lead-time-days` bypasses the bound the configured lead time has (`cli.py:193`,
  against `config/models.py:221-223`): 0 joins a row to itself. An infinite stockout penalty
  (`.inf`) passes `ge=0` and makes the fractile inf / inf; a ratio of `.nan` passes every bound and
  the salvage validator, as no comparison with it is true (`config/models.py:86-99`), and makes the
  fractile NaN: both against rule 5 of `docs/EXCEPTION_STRATEGY.md:34-36`. Names of columns,
  functions and groups in `features.yaml` are not checked at all before the views are created. A tracking URI without a scheme is used as it is and depends on the
  directory a command is started in, against `configs/app.yaml:3-4`. `load_config` looks into
  `configs/` whatever `paths.configs_dir` says (`config/loader.py:73`); only `logging.yaml` is looked
  for there. A file that cannot be opened or decoded, keys that are no strings and `handlers: null`
  end in a traceback, against rule 1. `SoundBeforeWork` and
  `SameRootSameStores` name the lead time, the two kinds of ratios and the tracking URI.
* *Commands.* `latest_snapshot_table` queries the manifest unwrapped (`features/snapshots.py:54-56`),
  so `train`, `recommend` or `simulate` without a version on a database without the schema ends in a
  traceback too. `--snapshot-version 0` is taken for no version at all (`cli.py:257`). `recommend` and
  `simulate` fit models outside any MLflow run, against "no untracked training"
  (`docs/EXPERIMENT_TRACKING.md:32`). A training told to use the table of a build that died before
  its manifest row logs a run no row explains (`cli.py:162`, against `features/snapshots.py:6-7`).
* *Data.* With several horizons stacked, an outcome scored at a short horizon may have been a
  training target at a longer one (`forecasting/split.py:53`); `FullHorizonHeldOut` says what remains
  true. A series whose last known outcome is older than another's gets no recommendation
  (`optimization/recommender.py:141`, against its docstring at line 107).
* *Comparison.* The baseline orders the demand of `lead_time_days` days and the quantile policy that
  of one day, while both are graded against one day (`simulation/replay.py:232`, against
  `docs/adr/017`). When a total is NaN, the report says that the ML policy cost more.

Outside the documented discipline two things do not hold, as the documents admit: two builds that
alternate can record a config hash that is not the table's, and two ingestions can lose each
other's statistics. `LineageExact`, `FailuresClassified`, `OkMeansOwnData` and `RerunRecovers`
therefore name `exclusive`.

## 5. What is proved

Eight modules hold proofs. Their theorems hold for every value of the constants, from the named
assumptions on them, which stand in the modules that declare the constants (`ProcsAssumption`,
`ShapeAssumption`, `PipelineAssumption`, `PropertiesAssumption`, `ScaleAssumption`,
`ForecastAssumption`, `GradingAssumption`, `TablesAssumption`, ...) and which TLC evaluates. Every
safety property of the passing runs is proved, invariants and action properties alike, and so are
the two refinements of the registry.

**Induction.** The induction theorems of the library take a predicate and cannot be used here. What
can be instantiated is a *set*: `FiniteDescent` says that a set of bad subsets of a finite set is
empty if from each bad subset one element can be taken so that a bad one is left; it follows from
the well-foundedness of the natural numbers (`LeastNat`). With it a sum over a function, a fold in
the community modules, becomes something to reason about: the fold chooses a recursive table, such a
table exists (`SumTableExists`), and the sum takes up one summand at a time (`SumRecursion`). From
there come monotonicity, linearity, renaming of the index set and counting (`SumMono`, `SumLinear`,
`SumRenamed`, `SumCounts`), which the theorems about costs, losses and the report cite.

**SnapshotBuilderProofs.** The inductive invariant is

    IInv == TypeOK /\ WriterAlone /\ SectionLocked /\ BuildBound /\ Numbering
    BuilderInv == BuilderTypes /\ WriterAlone /\ SectionLocked /\ BuildBound /\ Numbering

`AtMostOneOrphan` alone is not inductive: that `CREATE TABLE` uses number n + 1 depends on the
manifest not having grown since the version was selected, hence on nobody else being inside the
last connection. `SectionLocked` and `WriterAlone` say that; `Numbering` adds what the versions
selected by running builds are; `BuildBound` keeps `None` out of the tables. From it follow
`TypeCorrect`, `AtMostOneOrphanThm`, `SnapshotsImmutableThm`, the step simulation
`RefinesRegistryThm`, and `WedgeIsPermanentThm`: from a wedged state every disjunct of `Next` leaves
the snapshots alone and no build ends well. `LineageExactThm` adds `AloneWithViews`, which holds
under `exclusive`: the only running build finds the views as it has made them.
`BuilderInv` says nothing about the labels of other commands. The lemmas that a step keeps the
invariant, replaces nothing (`NothingReplacedStep`), publishes or stutters (`RegistryStep`), leaves a
wedge (`WedgedStep`) or keeps a build alone with its views (`AloneStep`) are stated for any set of
labels, so that they hold where other commands run beside the builds.

**PipelineProofs.** `PipelineInv == BuilderInv /\ ConsumersInv`. A consumer touches no snapshot, so
`BuilderInv` survives its steps. Added is what a running consumer knows (`Knows(p)`): which
connection it holds, that the snapshot it chose exists and is published, what its MLflow run holds
by the statement it has come to (`Logging`), and that what it gathered is still what the database
holds (`Gathering`), which is true because its read-only connection excludes every writer. That
nobody else's step spoils this rests on two facts: snapshots only grow, and runs go forward only
(`RunsGo`: metrics are never taken back, a finished run stays finished, no two trainings log to one
run). `ModelsReproducible` needs `Logging`: a model can be registered only in a run that has its
snapshot's name and all metrics. That `LatestRun` is a run at all needs the maximum of a set, which
is obtained from the well-foundedness of the natural numbers. `OutputsReproducible` needs that the
table a consumer chose exists from the step that reads it to the one that persists the result
(`Chosen`), and again that snapshots only grow, so that the rows stay backed by it (`Backed`). For
the action property `ReportCurrent`, `WhoMoves` says who can change what in one step, and `Running`
that a command that has not ended has no exit code.
The builder's promises are proved again for the whole pipeline. `StepsApart` splits its next-state
relation: a step is one of the builder's world, or a consumer's that touches neither snapshots, views
nor any build (`Leaves`), or one that touches no command at all. `PipelineOneOrphan`,
`PipelineImmutable`, `PipelineRefinesRegistry`, `PipelineWedgeIsPermanent` and
`PipelineLineageExact` follow from it and the lemmas above. That a step of the composition maps to a
step of the registry is thus proved for builds and consumers together.

**IngestionProofs.** `IngestInv` relates `at[p]`, the statement an ingestion has come to, to what
each table holds: each table is filled by one statement and emptied by one (`FilledBy`,
`ClearedBy`), and by statement i exactly those filled and not yet emptied hold the dataset of the
run (`AsFar`). Ingestions exclude each other, but a dead or failed one leaves any prefix behind
(`Settled`). `ValidatedMeansCompleteThm` follows because `sales`, without which nothing validates,
is the first table emptied and the last one filled. `FailuresClassifiedThm` and `OkMeansOwnDataThm`
add what the discipline of one command at a time gives: the connection of the summary finds the
statistics of the script.

**HeldOutProofs.** `HeldOutInv` keeps, for one run, that every row is a row of the assembled
dataset, that its parts are those of the split, and that what was learnt and decided comes from the
right part. Underneath lies the date that is the n-th latest of a set: that exactly n dates fall on
it or later needs no induction, because counting the later dates is an injection into 1..N and
hence a surjection. `ActualDemandUnseenThm` assumes what the configuration's validator ensures,
positive lead times; `OneOriginForAllThm` does not need it.

**NewsvendorProofs.** Besides the sums: `AtMostOneCause`, `CostIsPinballLoss`
(realized cost is price times pinball loss at the critical fractile), `UncrossingNeverHurts`
(exchanging two crossed predictions never raises their total loss), and `QuantileIsOptimal`: over any
finite sample of demands, an order that is its quantile at the critical fractile costs no more in
total than any other. The cost of one demand has at every order a slope below it (`CostSlope`); the
slopes of a sample add up to a count of covered demands, which the quantile makes of the right sign. All of it is about `Economies`, finite cost ratios.

**ConfigLoadingProofs.** `ConfigInv`: what a command has loaded by now has passed its validator.
An edit can change a file a command has read, but not what the command has loaded, so
`SoundBeforeWorkThm` holds for any files, edits and commands; what the validator does ensure is that
finite cost ratios make a proper fractile (`CostsFractile`). For `SameRootSameStoresThm` the stores
are rewritten as a function of root, `app.yaml` and `logging.yaml` alone (`StoresOf`), in which the
directory no longer occurs. `ConfigTypeCorrect` needs to know at which file a command has read which
others (`ReadSoFar`), as a later validator uses an earlier file's settings, and that a command that
has not ended will use its settings at most once more (`Counted`).

**PolicyGradingProofs.** `GradedByPinballThm`: every decision of both policies is graded by that
loss, for any number of rows. The invariant `GradingInv` keeps the forecast of a row an integer at
the one quantile simulate fits (`FractileForecast`, with `SingleRearranged`: rearranging a single
prediction changes nothing) and every row already graded well graded. Then two theorems about
rearranging. `RearrangedSorts`: for any finite set of quantiles and any predictions, `Rearranged`
hands every value out as often as it was predicted, in order. The k-th quantile gets value v exactly
if k lies beyond the number of predictions below v and within the number up to v (`GetsValue`); ranks
count from 1 to n without gaps, by counting. `RearrangingNeverHurts`: of all ways to hand out the
same predictions the sorted one loses least, whatever is sold. Given the greatest prediction, the
greatest quantile loses no more together with the one it traded with (`GiveGreatest`, by
`UncrossingNeverHurts`), and the rest is the same question with one quantile less: a descent.

**ExecutiveSummaryProofs.** The inductive invariant is

    SummaryInv == GradingPart /\ RowsInv /\ TablesInv /\ RunInv /\ ReportInv
    GradingPart == GradingInv /\ SettingsInv /\ ForecastInv /\ LoopInv

`ForecastInv` says that the predictions are the models' own, rearranged, and the decision is taken
from them, which gives `NoCrossingThm`, `RearrangementNeverHurtsThm` and `OptimalAtFractileThm`.
`RowsInv` says of the rows of a command that they are of one run and one fractile, and that each
safety stock has the sign of that fractile, as the forecast behind it did not cross; `TablesInv`
that a table holds those rows or an earlier run's, never both, and that the results are all decisions
of the ML policy, then all of the baseline's. `SummarySpeaksForTableThm` and `SafetyStockShownThm`
follow, the latter because a sum has the sign its summands share. For `SavingsShownThm` the table is
read as pairs (`Paired`): the totals of a policy are sums over the pairs (`SumRenamed`), an order
between the demand and the other order costs no more (`CloserCostsLess`), and one NaN makes its total
NaN and the verdict unfavourable. For `AccuracyShownThm`, `RunInv` keeps that metrics are logged in
order and of rows that change no more, so that those present are a beginning of them all; coverage
counts more rows at a higher quantile, and the P50 loss is the WAPE in another unit, summand by
summand. `SummaryGradedThm` carries `GradedByPinball` over, `SummaryTypeCorrect` is the type
invariant.

`TablesAssumption` says what the tables of earlier runs hold. It is no mere convenience:
`TablesReproduced` proves that every table this model's own runs leave satisfies it again.

**Only model-checked.** Liveness (`BuildPublishes`, `RerunRecovers`, `RunEnds`), as the prover has
no support for fairness and ENABLED.

## 6. Not modelled

What LightGBM learns and what the Monte Carlo draws are; floating-point rounding (the economics are
exact, and cover finite cost ratios: what orders, costs and figures come of a `.nan` or `.inf` that
loaded is not followed); the report's charts, number formats and wording; YAML syntax and the validators of settings
no other module uses; argument parsing; SQL rendering; the printed summaries of the commands; the
download script.

## 7. Plan

The order follows the weight of the behaviour: snapshots first, since everything traces back to
them, then the data they are made of, the commands that use them, and last the arithmetic.

Done: the modules, runs and proofs above. Next:

1. *Wider instances*: a third process for the pipeline, a third series for the datasets; the proofs
   cover them already, the runs would exercise the liveness properties.
2. *Liveness by hand*: the safety halves of the three liveness properties, as leads-to chains whose
   single steps (a started build only ever moves to its next statement) are provable.
