----------------------------- MODULE PipelineProofs -----------------------------
(****************************************************************************)
(* Proofs about Pipeline, for every set of processes, configurations and    *)
(* data, and any number of commands, crashes and failing calls.             *)
(*                                                                          *)
(* A consumer never touches a snapshot, so BuilderInv of the builder's      *)
(* proofs holds beside it.  What is added is what a running consumer knows: *)
(* which snapshot it reads, how far its MLflow run has come, which          *)
(* connection it holds and what of the report it has gathered.              *)
(****************************************************************************)
EXTENDS Pipeline, SnapshotBuilderProofs, SequenceTheorems, WellFoundedInduction

AllLabels == {"idle"} \cup SchemaNames \cup BuildLabels \cup ConsumerLabels
PersistLabels == {"persist_recommendations", "persist_simulation_results"}
ReportLabels == {"truncate_report", "write_report"}
LogLabels == TrainLabels \ {"start_run"}

\* A result is written with the file held read-write, the report with it held
\* read-only.
Locked(p) ==
    /\ pc[p] \in PersistLabels => conn[p] = "rw"
    /\ pc[p] \in ReportLabels => conn[p] = "ro"

\* The snapshot a command reads exists, and is published if the command chose it.
Chosen(p) ==
    pc[p] \in TrainLabels \cup PersistLabels =>
        /\ ver[p] \in DOMAIN tables
        /\ want[p] = 0 => ver[p] \in DOMAIN manifest

\* What the run of a training that has come to this statement holds.
AsFarAs(label, r) ==
    /\ r.status = "running"
    /\ label = "log_snapshot" => r.snapshot = 0 /\ r.metrics = 0
    /\ label = "log_metric" => r.metrics < NumMetrics
    /\ label \in {"log_snapshot", "log_metric"} => r.models = 0
    /\ label \in {"register_model", "end_run"} => r.metrics = NumMetrics

\* The run of p describes what p trains on, as far as p has come.
Describes(p, r) ==
    /\ AsFarAs(pc[p], r)
    /\ r.trained = tables[ver[p]]
    /\ r.want = want[p]
    /\ pc[p] # "log_snapshot" => r.snapshot = ver[p]

Logging(p) ==
    pc[p] \in LogLabels => mine[p] \in 1..Len(runs) /\ Describes(p, runs[mine[p]])

\* The run a report quotes still has what is quoted.
Quotes(r) ==
    r.run # 0 =>
        /\ r.run \in 1..Len(runs)
        /\ r.metrics \in 0..runs[r.run].metrics
        /\ r.finished => runs[r.run].status = "finished" /\ r.metrics = NumMetrics

\* A report being written was gathered from the database as it still is.
Gathering(p) ==
    pc[p] \in ReportLabels =>
        /\ held[p].content = "report"
        /\ held[p].snapshot \in DOMAIN manifest \cup {0}
        /\ want[p] = 0 => \A v \in DOMAIN manifest : v <= held[p].snapshot
        /\ held[p].outputs = outputs
        /\ Quotes(held[p])

Knows(p) == Locked(p) /\ Chosen(p) /\ Logging(p) /\ Gathering(p)

\* No two trainings log to one run.
OwnRuns ==
    \A p, q \in Procs : p # q /\ {pc[p], pc[q]} \subseteq LogLabels => mine[p] # mine[q]

\* A run that can be trusted.
Sound(r) ==
    /\ r.models > 0 =>
          /\ r.metrics = NumMetrics
          /\ r.snapshot \in DOMAIN tables
          /\ tables[r.snapshot] = r.trained
    /\ r.want = 0 /\ r.snapshot # 0 => r.snapshot \in DOMAIN manifest
    /\ r.status = "finished" => r.metrics = NumMetrics

RunsSound == \A i \in 1..Len(runs) : Sound(runs[i])

\* An output table that can be trusted.
Backed(o) ==
    o # Empty =>
        /\ o.snapshot \in DOMAIN tables
        /\ tables[o.snapshot] = o.of
        /\ o.want = 0 => o.snapshot \in DOMAIN manifest

OutputsSound == \A t \in OutputTables : Backed(outputs[t])

ReportSound == report.content = "report" => Quotes(report)

ConsumersInv ==
    /\ PipelineTypeOK
    /\ \A p \in Procs : Knows(p)
    /\ OwnRuns /\ RunsSound /\ OutputsSound /\ ReportSound

\* The inductive invariant.
PipelineInv == BuilderInv /\ ConsumersInv

--------------------------------------------------------------------------------
(****************************************************************************)
(* What one step leaves as it was.                                          *)
(****************************************************************************)

\* Snapshots come and stay.
Grow ==
    /\ DOMAIN tables \subseteq DOMAIN tables'
    /\ \A v \in DOMAIN tables : tables'[v] = tables[v]
    /\ DOMAIN manifest \subseteq DOMAIN manifest'

\* Runs come and stay, their metrics are never taken back, and what is finished
\* stays finished.
RunsGo ==
    /\ \A i \in 1..Len(runs) :
          /\ i \in 1..Len(runs')
          /\ runs[i].metrics \in Nat /\ runs'[i].metrics \in Nat
          /\ runs[i].metrics <= runs'[i].metrics
          /\ runs[i].status = "finished" => runs'[i].status = "finished"

\* What q sees of the others in a step that is not its own.
Untouched(q) ==
    /\ pc'[q] = pc[q] /\ conn'[q] = conn[q] /\ ver'[q] = ver[q]
    /\ want'[q] = want[q] /\ mine'[q] = mine[q] /\ held'[q] = held[q]
    /\ pc[q] \in LogLabels => runs'[mine[q]] = runs[mine[q]]
    /\ pc[q] \in ReportLabels => UNCHANGED <<DOMAIN manifest, outputs>>

\* A quoted run is still the one quoted.
LEMMA StillQuotes ==
    ASSUME RunsGo
    PROVE  \A r : Quotes(r) => Quotes(r)'
<1> SUFFICES ASSUME NEW r, Quotes(r), r.run # 0 PROVE Quotes(r)'
  BY DEF Quotes
<1> DEFINE i == r.run
<1>1. i \in 1..Len(runs) /\ r.metrics \in 0..runs[i].metrics
  BY DEF Quotes
<1>2. /\ i \in 1..Len(runs') /\ runs[i].metrics \in Nat /\ runs'[i].metrics \in Nat
      /\ runs[i].metrics <= runs'[i].metrics
      /\ runs[i].status = "finished" => runs'[i].status = "finished"
  BY <1>1 DEF RunsGo
<1>3. r.metrics \in 0..runs'[i].metrics
  BY <1>1, <1>2
<1> QED
  BY <1>2, <1>3 DEF Quotes

\* A process that is not touched knows what it knew.
LEMMA StillKnows ==
    ASSUME NEW q \in Procs, Knows(q), Untouched(q), Grow, RunsGo
    PROVE  Knows(q)'
<1> USE DEF Untouched
<1>1. Locked(q)'
  BY DEF Knows, Locked
<1>2. Chosen(q)'
  BY DEF Knows, Chosen, Grow
<1>3. Logging(q)'
  <2> SUFFICES ASSUME pc[q] \in LogLabels
               PROVE  mine[q] \in 1..Len(runs') /\ Describes(q, runs[mine[q]])'
    BY DEF Logging
  <2>1. mine[q] \in 1..Len(runs) /\ Describes(q, runs[mine[q]])
    BY DEF Knows, Logging
  <2>2. ver[q] \in DOMAIN tables
    BY DEF Knows, Chosen, LogLabels
  <2>3. tables'[ver'[q]] = tables[ver[q]]
    BY <2>2 DEF Grow
  <2> QED
    BY <2>1, <2>3 DEF Describes, AsFarAs, RunsGo
<1>4. Gathering(q)'
  <2> SUFFICES ASSUME pc[q] \in ReportLabels PROVE Gathering(q)'
    BY DEF Gathering
  <2>1. Quotes(held[q])
    BY DEF Knows, Gathering
  <2>2. Quotes(held[q])'
    <3>1. held'[q] = held[q]
      OBVIOUS
    <3> QED
      BY <2>1, <3>1, StillQuotes DEF Quotes
  <2> QED
    BY <2>2 DEF Knows, Gathering
<1> QED
  BY <1>1, <1>2, <1>3, <1>4 DEF Knows

\* A step of p that writes no run.
LEMMA QuietStep ==
    ASSUME ConsumersInv, NEW p \in Procs, Grow,
           UNCHANGED runs,
           UNCHANGED outputs \/ OutputsSound',
           UNCHANGED report \/ ReportSound',
           \A q \in Procs \ {p} : Untouched(q),
           PipelineTypeOK', Knows(p)',
           pc'[p] \in LogLabels => pc[p] \in LogLabels /\ mine'[p] = mine[p]
    PROVE  ConsumersInv'
<1>1. RunsGo
  <2>1. ASSUME NEW i \in 1..Len(runs) PROVE runs[i].metrics \in Nat
    <3>1. runs[i] \in Runs
      BY DEF ConsumersInv, PipelineTypeOK
    <3> QED
      BY <3>1, PipelineAssumption DEF Runs
  <2> QED
    BY <2>1 DEF RunsGo
<1>2. \A q \in Procs : Knows(q)'
  BY <1>1, StillKnows DEF ConsumersInv
<1>3. OwnRuns'
  BY DEF ConsumersInv, OwnRuns, Untouched
<1>4. RunsSound'
  BY DEF ConsumersInv, RunsSound, Sound, Grow
<1>5. OutputsSound'
  BY DEF ConsumersInv, OutputsSound, Backed, Empty, Grow
<1>6. ReportSound'
  BY <1>1, StillQuotes DEF ConsumersInv, ReportSound
<1> QED
  BY <1>2, <1>3, <1>4, <1>5, <1>6 DEF ConsumersInv

\* One run i is written: it stays sound, loses no metric, was not finished, and no
\* other training than that of p logs to it.
RunWritten(p, i, r) ==
    /\ i \in 1..Len(runs) /\ r \in Runs /\ Sound(r)
    /\ runs' = [runs EXCEPT ![i] = r]
    /\ runs[i].metrics <= r.metrics
    /\ runs[i].status # "finished"
    /\ \A q \in Procs \ {p} : pc[q] \in LogLabels => mine[q] # i

\* Writing one run leaves the others, and a quotation of any of them, valid.
LEMMA WriteRun ==
    ASSUME PipelineTypeOK, NEW p \in Procs, NEW i, NEW r, RunWritten(p, i, r)
    PROVE  /\ runs' \in Seq(Runs) /\ Len(runs') = Len(runs)
           /\ runs'[i] = r
           /\ \A j \in 1..Len(runs) : j # i => runs'[j] = runs[j]
           /\ RunsGo
<1>1. /\ runs \in Seq(Runs) /\ i \in 1..Len(runs) /\ r \in Runs
      /\ runs' = [runs EXCEPT ![i] = r]
  BY DEF RunWritten, PipelineTypeOK
<1>2. /\ runs' \in Seq(Runs) /\ Len(runs') = Len(runs)
      /\ \A j \in 1..Len(runs) : runs'[j] = IF j = i THEN r ELSE runs[j]
  BY <1>1, ExceptSeq
<1>3. \A x \in Runs : x.metrics \in Nat
  BY PipelineAssumption DEF Runs
<1>4. \A j \in 1..Len(runs) : runs[j] \in Runs
  BY <1>1
<1>5. RunsGo
  BY <1>1, <1>2, <1>3, <1>4 DEF RunsGo, RunWritten
<1> QED
  BY <1>1, <1>2, <1>5

\* A step of p that writes a run.
LEMMA RunStep ==
    ASSUME ConsumersInv, NEW p \in Procs, NEW i, NEW r, RunWritten(p, i, r),
           UNCHANGED <<snapshotVars, ver, want, costs, mine, held, outputs, report>>,
           pc' \in [Procs -> AllLabels], conn' \in [Procs -> Modes],
           exit' \in [Procs -> ExitCodes],
           \A q \in Procs \ {p} : pc'[q] = pc[q] /\ conn'[q] = conn[q],
           Knows(p)',
           pc'[p] \in LogLabels => pc[p] \in LogLabels
    PROVE  ConsumersInv'
<1>1. /\ runs' \in Seq(Runs) /\ Len(runs') = Len(runs)
      /\ runs'[i] = r
      /\ \A j \in 1..Len(runs) : j # i => runs'[j] = runs[j]
      /\ RunsGo
  BY WriteRun DEF ConsumersInv
<1>2. Grow
  BY DEF Grow, snapshotVars
<1>3. \A q \in Procs \ {p} : Untouched(q)
  <2> SUFFICES ASSUME NEW q \in Procs \ {p} PROVE Untouched(q)
    OBVIOUS
  <2>1. ASSUME pc[q] \in LogLabels PROVE runs'[mine[q]] = runs[mine[q]]
    BY <1>1, <2>1 DEF ConsumersInv, Knows, Logging, RunWritten
  <2> QED
    BY <2>1 DEF Untouched, snapshotVars
<1>4. \A q \in Procs : Knows(q)'
  BY <1>1, <1>2, <1>3, StillKnows DEF ConsumersInv
<1>5. PipelineTypeOK'
  BY <1>1 DEF ConsumersInv, PipelineTypeOK, AllLabels
<1>6. OwnRuns'
  BY DEF ConsumersInv, OwnRuns
<1>7. RunsSound'
  BY <1>1 DEF ConsumersInv, RunsSound, Sound, RunWritten, snapshotVars
<1>8. OutputsSound'
  BY DEF ConsumersInv, OutputsSound, Backed, Empty, snapshotVars
<1>9. ReportSound'
  BY <1>1, StillQuotes DEF ConsumersInv, ReportSound
<1> QED
  BY <1>4, <1>5, <1>6, <1>7, <1>8, <1>9 DEF ConsumersInv

--------------------------------------------------------------------------------
(****************************************************************************)
(* The steps of builds, init-db, ingestions and crashes.                    *)
(****************************************************************************)

\* The statements of builds, trainings, results and reports are told apart by label.
LEMMA LabelsApart ==
    /\ ({"idle"} \cup SchemaNames \cup BuildLabels) \cap ConsumerLabels = {}
    /\ TrainLabels \cup PersistLabels \cup ReportLabels \subseteq ConsumerLabels
    /\ TrainLabels \cap ReportLabels = {} /\ PersistLabels \cap ReportLabels = {}
    /\ TrainLabels \cap PersistLabels = {} /\ LogLabels \subseteq TrainLabels
BY DEF SchemaNames, SchemaFiles, BuildLabels, ConsumerLabels, TrainLabels, PersistLabels,
       ReportLabels, LogLabels

\* Builds, init-db, ingestions and crashes of any command keep the invariant.
LEMMA BuilderStep ==
    ASSUME PipelineInv, [Next]_vars, UNCHANGED consumerVars
    PROVE  PipelineInv'
<1>0. /\ pc \in [Procs -> AllLabels] /\ BuilderInv /\ ConsumersInv
  BY DEF PipelineInv, ConsumersInv, PipelineTypeOK, AllLabels
<1>1. BuilderInv'
  BY <1>0, BuilderNext
<1>2. PICK n \in Nat : Numbered(n)
  BY <1>0 DEF BuilderInv, Numbering
<1>3. StepOnSnapshots(n)
  BY <1>0, <1>2, SnapshotStep
<1>4. Grow
  <2>1. CASE UNCHANGED snapshotVars
    BY <2>1 DEF Grow, snapshotVars
  <2>2. CASE /\ DOMAIN tables = 1..n /\ DOMAIN tables' = 1..(n + 1)
             /\ \A v \in 1..n : tables'[v] = tables[v]
             /\ manifest' = manifest
    BY <2>2 DEF Grow
  <2>3. CASE DOMAIN manifest' = 1..(n + 1) /\ tables' = tables
    BY <1>2, <2>3 DEF Numbered, Grow
  <2> QED
    BY <1>3, <2>1, <2>2, <2>3 DEF StepOnSnapshots
<1>5. UNCHANGED <<want, costs, mine, held, runs, outputs, report>>
  BY DEF consumerVars
<1>6. \A q \in Procs : pc[q] \in ReportLabels => manifest' = manifest
  <2>1. CASE UNCHANGED manifest
    BY <2>1
  <2>2. CASE \E p \in Procs : pc[p] = "insert_manifest"
    <3>1. PICK p \in Procs : pc[p] = "insert_manifest"
      BY <2>2
    <3>2. conn[p] = "rw"
      BY <1>0, <3>1 DEF BuilderInv, SectionLocked
    <3>3. \A q \in Procs : q # p => conn[q] = "none"
      BY <1>0, <3>2 DEF BuilderInv, WriterAlone
    <3>4. \A q \in Procs : pc[q] \in ReportLabels => conn[q] = "ro"
      BY <1>0 DEF ConsumersInv, Knows, Locked
    <3> QED
      BY <3>1, <3>3, <3>4 DEF ReportLabels
  <2> QED
    BY <1>3, <2>1, <2>2 DEF StepOnSnapshots, snapshotVars
<1>7. PipelineTypeOK'
  <2>1. conn' \in [Procs -> Modes] /\ exit' \in [Procs -> ExitCodes]
    BY <1>1 DEF BuilderInv, BuilderTypes
  <2>2. pc' \in [Procs -> AllLabels]
    BY <1>0, MoveStep DEF Moved, AllLabels
  <2> QED
    BY <1>0, <1>5, <2>1, <2>2 DEF ConsumersInv, PipelineTypeOK, AllLabels
<1>8. ASSUME NEW q \in Procs, pc'[q] = pc[q], conn'[q] = conn[q], ver'[q] = ver[q]
      PROVE  Untouched(q)
  BY <1>5, <1>6, <1>8 DEF Untouched
<1>9. CASE UNCHANGED <<pc, conn, ver>>
  <2>1. \A q \in Procs : Untouched(q)
    BY <1>8, <1>9
  <2>2. PICK p \in Procs : TRUE
    BY ProcsAssumption
  <2>3. RunsGo
    <3>1. ASSUME NEW i \in 1..Len(runs) PROVE runs[i].metrics \in Nat
      <4>1. runs[i] \in Runs
        BY <1>0 DEF ConsumersInv, PipelineTypeOK
      <4> QED
        BY <4>1, PipelineAssumption DEF Runs
    <3> QED
      BY <1>5, <3>1 DEF RunsGo
  <2>4. Knows(p)'
    BY <1>0, <1>4, <2>1, <2>3, StillKnows DEF ConsumersInv
  <2>5. ConsumersInv'
    BY <1>0, <1>4, <1>5, <1>7, <1>9, <2>1, <2>4, QuietStep
  <2> QED
    BY <1>1, <2>5 DEF PipelineInv
<1>10. CASE \E p \in Procs : Moved(p)
  <2>1. PICK p \in Procs : Moved(p)
    BY <1>10
  <2>2. \A q \in Procs \ {p} : Untouched(q)
    BY <1>0, <1>8, <2>1 DEF Moved
  <2>3. pc'[p] \notin TrainLabels \cup PersistLabels \cup ReportLabels /\ pc'[p] \notin LogLabels
    BY <1>0, <2>1, LabelsApart DEF Moved
  <2>4. Knows(p)'
    BY <2>3 DEF Knows, Locked, Chosen, Logging, Gathering
  <2>5. ConsumersInv'
    BY <1>0, <1>4, <1>5, <1>7, <2>2, <2>3, <2>4, QuietStep
  <2> QED
    BY <1>1, <2>5 DEF PipelineInv
<1> QED
  BY <1>0, <1>9, <1>10, MoveStep

--------------------------------------------------------------------------------
(****************************************************************************)
(* The steps of a consumer.                                                 *)
(****************************************************************************)

\* What a consumer does to what it shares with builds.
ConsumerMove(p) ==
    /\ pc[p] \in {"idle"} \cup ConsumerLabels
    /\ \E l \in {"idle"} \cup ConsumerLabels : pc' = [pc EXCEPT ![p] = l]
    /\ \E m \in Modes : /\ conn' = [conn EXCEPT ![p] = m]
                        /\ m \in {"none", conn[p]} \/ CanOpen(p, m)
    /\ exit' \in [Procs -> ExitCodes] /\ dbFile' \in BOOLEAN
    /\ starts' \in Nat /\ kills' \in Nat
    /\ cfg' \in [Procs -> Configs \cup {None}] /\ ver' \in [Procs -> Nat]
    /\ \A q \in Procs \ {p} : cfg'[q] = cfg[q] /\ ver'[q] = ver[q]
    /\ UNCHANGED <<schema, exclusive, viewVars, base, snapshotVars>>

\* A consumer's step keeps what the builder's proofs rest on.
LEMMA ConsumerKeepsBuilder ==
    ASSUME BuilderInv, pc \in [Procs -> AllLabels], NEW p \in Procs, ConsumerMove(p)
    PROVE  /\ BuilderInv'
           /\ pc' \in [Procs -> AllLabels] /\ conn' \in [Procs -> Modes]
           /\ \A q \in Procs \ {p} : pc'[q] = pc[q] /\ conn'[q] = conn[q]
<1>0. conn \in [Procs -> Modes]
  BY DEF BuilderInv, BuilderTypes
<1>1. /\ pc' \in [Procs -> AllLabels] /\ conn' \in [Procs -> Modes]
      /\ \A q \in Procs \ {p} : pc'[q] = pc[q] /\ conn'[q] = conn[q]
  BY <1>0 DEF ConsumerMove, AllLabels
<1>2. pc[p] \notin BuildLabels /\ pc'[p] \notin BuildLabels
  BY LabelsApart DEF ConsumerMove, BuildLabels
<1>3. BuilderTypes'
  BY <1>1 DEF BuilderInv, BuilderTypes, ConsumerMove, viewVars, snapshotVars
<1>4. WriterAlone'
  <2>1. PICK m \in Modes : /\ conn' = [conn EXCEPT ![p] = m]
                           /\ m \in {"none", conn[p]} \/ CanOpen(p, m)
    BY DEF ConsumerMove
  <2>2. CASE CanOpen(p, m)
    BY <1>0, <2>1, <2>2 DEF BuilderInv, WriterAlone, CanOpen, Modes
  <2>3. CASE m \in {"none", conn[p]}
    BY <1>0, <2>1, <2>3 DEF BuilderInv, WriterAlone
  <2> QED
    BY <2>1, <2>2, <2>3
<1>5. SectionLocked'
  BY <1>1, <1>2 DEF BuilderInv, SectionLocked, BuildLabels
<1>6. BuildBound'
  BY <1>1, <1>2 DEF BuilderInv, BuildBound, ConsumerMove, viewVars
<1>7. Numbering'
  <2>1. PICK n \in Nat : Numbered(n)
    BY DEF BuilderInv, Numbering
  <2>2. UNCHANGED <<tables, manifest>>
    BY DEF ConsumerMove, snapshotVars
  <2>3. \A q \in Procs : pc'[q] \in {"create_table", "insert_manifest"} =>
            pc'[q] = pc[q] /\ ver'[q] = ver[q]
    BY <1>1, <1>2 DEF ConsumerMove, BuildLabels
  <2>4. Numbered(n)'
    BY <2>1, <2>2, <2>3 DEF Numbered
  <2> QED
    BY <2>4 DEF Numbering
<1> QED
  BY <1>1, <1>3, <1>4, <1>5, <1>6, <1>7 DEF BuilderInv

StoresTyped ==
    /\ DOMAIN held = Procs /\ DOMAIN outputs = OutputTables
    /\ \A t \in OutputTables : outputs[t].content \in {"none", "rows"}
    /\ report.content \in {"none", "cut", "report"}

\* A move of p that writes no run, and an output only while nobody reports.
LEMMA QuietMove ==
    ASSUME PipelineInv, NEW p \in Procs, ConsumerMove(p),
           UNCHANGED <<mine, runs>>,
           \/ UNCHANGED outputs
           \/ OutputsSound' /\ \A q \in Procs \ {p} : pc[q] \notin ReportLabels,
           DOMAIN outputs' = OutputTables,
           \A t \in OutputTables : outputs'[t].content \in {"none", "rows"},
           UNCHANGED report \/ ReportSound',
           report'.content \in {"none", "cut", "report"},
           DOMAIN held' = Procs,
           want' \in [Procs -> Asked \cup {0}], costs' \in [Procs -> CostConfigs \cup {None}],
           \A q \in Procs \ {p} : want'[q] = want[q] /\ held'[q] = held[q],
           Knows(p)',
           pc'[p] \in LogLabels => pc[p] \in LogLabels
    PROVE  PipelineInv'
<1>0. pc \in [Procs -> AllLabels] /\ BuilderInv /\ ConsumersInv
  BY DEF PipelineInv, ConsumersInv, PipelineTypeOK, AllLabels
<1>1. /\ BuilderInv'
      /\ pc' \in [Procs -> AllLabels] /\ conn' \in [Procs -> Modes]
      /\ \A q \in Procs \ {p} : pc'[q] = pc[q] /\ conn'[q] = conn[q]
  BY <1>0, ConsumerKeepsBuilder
<1>2. Grow
  BY DEF ConsumerMove, Grow, snapshotVars
<1>3. \A q \in Procs \ {p} : Untouched(q)
  BY <1>1 DEF ConsumerMove, Untouched, snapshotVars
<1>4. PipelineTypeOK'
  BY <1>0, <1>1 DEF ConsumersInv, PipelineTypeOK, ConsumerMove, AllLabels
<1>5. ConsumersInv'
  BY <1>0, <1>2, <1>3, <1>4, QuietStep
<1> QED
  BY <1>1, <1>5 DEF PipelineInv

\* A process that is idle, or inside no section, knows nothing.
LEMMA KnowsNothing ==
    ASSUME NEW p \in Procs,
           pc'[p] \notin TrainLabels \cup PersistLabels \cup ReportLabels
    PROVE  Knows(p)' /\ pc'[p] \notin LogLabels
BY LabelsApart DEF Knows, Locked, Chosen, Logging, Gathering

\* A command of a consumer ends, in whatever way.
LEMMA EndStep ==
    ASSUME PipelineInv, NEW p \in Procs, NEW code \in ExitCodes,
           pc[p] \in ConsumerLabels, End(p, code),
           dbFile' \in BOOLEAN, kills' \in Nat,
           UNCHANGED <<schema, starts, exclusive, builderVars, consumerVars>>
    PROVE  PipelineInv'
<1>0. BuilderInv /\ ConsumersInv
  BY DEF PipelineInv
<1>1. /\ pc \in [Procs -> AllLabels] /\ exit \in [Procs -> ExitCodes]
      /\ starts \in Nat /\ cfg \in [Procs -> Configs \cup {None}] /\ ver \in [Procs -> Nat]
      /\ want \in [Procs -> Asked \cup {0}] /\ costs \in [Procs -> CostConfigs \cup {None}]
      /\ StoresTyped
  BY <1>0 DEF ConsumersInv, PipelineTypeOK, AllLabels, BuilderInv, BuilderTypes, StoresTyped
<1>2. ConsumerMove(p)
  BY <1>1 DEF ConsumerMove, End, builderVars, viewVars, snapshotVars, localVars, Modes
<1>3. pc'[p] = "idle"
  BY <1>1 DEF End
<1>4. Knows(p)' /\ pc'[p] \notin LogLabels
  BY <1>3, KnowsNothing DEF TrainLabels, PersistLabels, ReportLabels
<1> QED
  BY <1>1, <1>2, <1>4, QuietMove DEF consumerVars, StoresTyped

\* A command starts.
LEMMA StartConsumerStep ==
    ASSUME PipelineInv, NEW p \in Procs, NEW label \in {"train", "recommend", "simulate", "report"},
           StartConsumer(p, label)
    PROVE  PipelineInv'
<1>0. BuilderInv /\ ConsumersInv
  BY DEF PipelineInv
<1>1. /\ pc \in [Procs -> AllLabels] /\ exit \in [Procs -> ExitCodes] /\ conn \in [Procs -> Modes]
      /\ starts \in Nat /\ kills \in Nat /\ dbFile \in BOOLEAN
      /\ cfg \in [Procs -> Configs \cup {None}] /\ ver \in [Procs -> Nat]
      /\ want \in [Procs -> Asked \cup {0}] /\ costs \in [Procs -> CostConfigs \cup {None}]
      /\ StoresTyped
  BY <1>0 DEF ConsumersInv, PipelineTypeOK, AllLabels, BuilderInv, BuilderTypes, StoresTyped
<1>2. /\ pc[p] = "idle" /\ pc' = [pc EXCEPT ![p] = label]
      /\ exit' = [exit EXCEPT ![p] = "none"] /\ starts' = starts + 1
      /\ UNCHANGED <<conn, dbFile, schema, kills, exclusive>>
  BY DEF StartConsumer, Start, Idle, Goto
<1>3. /\ want' \in [Procs -> Asked \cup {0}]
      /\ \A q \in Procs \ {p} : want'[q] = want[q]
  BY <1>1 DEF StartConsumer
<1>4. /\ cfg' \in [Procs -> Configs \cup {None}]
      /\ \A q \in Procs \ {p} : cfg'[q] = cfg[q]
  BY <1>1 DEF StartConsumer
<1>5. costs' \in [Procs -> CostConfigs \cup {None}]
  BY <1>1 DEF StartConsumer
<1>6. ConsumerMove(p)
  <2>1. conn' = [conn EXCEPT ![p] = conn[p]] /\ conn[p] \in Modes
    BY <1>1, <1>2
  <2>2. label \in {"idle"} \cup ConsumerLabels
    BY DEF ConsumerLabels
  <2>3. exit' \in [Procs -> ExitCodes] /\ starts' \in Nat
    BY <1>1, <1>2 DEF ExitCodes
  <2>4. UNCHANGED <<schema, exclusive, viewVars, base, snapshotVars, ver>>
    BY <1>2 DEF StartConsumer
  <2> QED
    BY <1>1, <1>2, <1>4, <2>1, <2>2, <2>3, <2>4 DEF ConsumerMove
<1>7. Knows(p)' /\ pc'[p] \notin LogLabels
  <2>1. pc'[p] = label
    BY <1>1, <1>2
  <2> QED
    BY <2>1, KnowsNothing DEF TrainLabels, PersistLabels, ReportLabels
<1>8. /\ UNCHANGED <<mine, held, runs, outputs, report>>
      /\ DOMAIN held' = Procs /\ DOMAIN outputs' = OutputTables
      /\ \A t \in OutputTables : outputs'[t].content \in {"none", "rows"}
      /\ report'.content \in {"none", "cut", "report"}
  BY <1>1 DEF StartConsumer, StoresTyped
<1> QED
  BY <1>3, <1>5, <1>6, <1>7, <1>8, QuietMove

--------------------------------------------------------------------------------
(****************************************************************************)
(* Choosing and reading a snapshot.                                         *)
(****************************************************************************)

\* A command without an argument uses the latest row of the manifest.
LEMMA ResolvedIs ==
    ASSUME BuilderInv, NEW p \in Procs, want[p] \in Asked \cup {0}
    PROVE  /\ Resolved(p) \in Nat
           /\ want[p] = 0 /\ Resolved(p) # 0 => Resolved(p) \in DOMAIN manifest
           /\ want[p] = 0 => \A v \in DOMAIN manifest : v <= Resolved(p)
<1>1. PICK n \in Nat : Numbered(n)
  BY DEF BuilderInv, Numbering
<1>2. DOMAIN manifest = 1..n
  BY <1>1 DEF Numbered
<1>3. CASE want[p] # 0
  BY <1>3, PipelineAssumption DEF Resolved
<1>4. CASE want[p] = 0 /\ n = 0
  BY <1>2, <1>4 DEF Resolved
<1>5. CASE want[p] = 0 /\ n # 0
  <2>1. n \in 1..n /\ \A y \in 1..n : n >= y
    BY <1>5
  <2>2. \A x \in 1..n : (\A y \in 1..n : x >= y) => x = n
    BY <2>1
  <2>3. Max(1..n) = n
    BY <2>1, <2>2 DEF Max
  <2>4. Resolved(p) = n
    BY <1>2, <1>5, <2>1, <2>3 DEF Resolved
  <2> QED
    BY <1>2, <2>1, <2>4
<1> QED
  BY <1>3, <1>4, <1>5

\* The dataset is assembled, or the command ends.
LEMMA AssembleStep ==
    ASSUME PipelineInv, NEW p \in Procs, NEW label, NEW mode, NEW next,
           label \in {"train", "recommend", "simulate"},
           \/ next = "start_run" /\ mode = "ro"
           \/ next \in PersistLabels /\ mode = "rw",
           Assemble(p, label, mode, next)
    PROVE  PipelineInv'
<1>0. BuilderInv /\ ConsumersInv
  BY DEF PipelineInv
<1>1. /\ pc \in [Procs -> AllLabels] /\ exit \in [Procs -> ExitCodes] /\ conn \in [Procs -> Modes]
      /\ starts \in Nat /\ kills \in Nat /\ dbFile \in BOOLEAN
      /\ cfg \in [Procs -> Configs \cup {None}] /\ ver \in [Procs -> Nat]
      /\ want \in [Procs -> Asked \cup {0}] /\ costs \in [Procs -> CostConfigs \cup {None}]
      /\ StoresTyped
  BY <1>0 DEF ConsumersInv, PipelineTypeOK, AllLabels, BuilderInv, BuilderTypes, StoresTyped
<1>2. /\ pc[p] = label /\ pc[p] \in ConsumerLabels
      /\ UNCHANGED <<cfg, viewVars, base, snapshotVars, consumerVars>>
  BY DEF Assemble, ConsumerLabels
<1>3. CASE /\ \E code \in {"raw", "error"} : End(p, code)
           /\ dbFile' \in {dbFile, TRUE}
           /\ UNCHANGED <<ver, schema, boundVars>>
  <2>1. PICK code \in {"raw", "error"} : End(p, code)
    BY <1>3
  <2>2. UNCHANGED <<starts, kills, exclusive, builderVars>>
    BY <1>2, <1>3 DEF boundVars, builderVars, viewVars, snapshotVars
  <2> QED
    BY <1>1, <1>2, <1>3, <2>1, <2>2, EndStep DEF ExitCodes
<1>4. CASE /\ ~AssemblyLeaks(p) /\ ~AssemblyFails(p)
           /\ OpenSection(p, mode, next)
           /\ ver' = [ver EXCEPT ![p] = Resolved(p)]
           /\ UNCHANGED schema
  <2>1. /\ Resolved(p) \in Nat
        /\ want[p] = 0 /\ Resolved(p) # 0 => Resolved(p) \in DOMAIN manifest
    BY <1>0, <1>1, ResolvedIs
  <2>2. Resolved(p) \in DOMAIN tables /\ Resolved(p) # 0
    BY <1>4 DEF AssemblyLeaks, AssemblyFails
  <2>3. /\ pc' = [pc EXCEPT ![p] = next] /\ conn' = [conn EXCEPT ![p] = mode]
        /\ CanOpen(p, mode) /\ dbFile' = TRUE
        /\ UNCHANGED <<exit, starts, kills, exclusive>>
    BY <1>4 DEF OpenSection, Goto, boundVars
  <2>4. next \in ConsumerLabels /\ mode \in Modes
    BY LabelsApart DEF Modes, TrainLabels
  <2>5. /\ ver' \in [Procs -> Nat] /\ ver'[p] = Resolved(p)
        /\ \A q \in Procs \ {p} : ver'[q] = ver[q]
    BY <1>1, <1>4, <2>1
  <2>6. ConsumerMove(p)
    BY <1>1, <1>2, <1>4, <2>3, <2>4, <2>5 DEF ConsumerMove
  <2>7. pc'[p] = next /\ conn'[p] = mode
    BY <1>1, <2>3
  <2>8. next \notin LogLabels /\ next \notin ReportLabels
    BY DEF LogLabels, ReportLabels, PersistLabels, TrainLabels
  <2>9. Knows(p)'
    <3>1. Locked(p)'
      BY <2>7, <2>8 DEF Locked, PersistLabels
    <3>2. Chosen(p)'
      BY <1>2, <2>1, <2>2, <2>5 DEF Chosen, consumerVars, snapshotVars
    <3>3. Logging(p)' /\ Gathering(p)'
      BY <2>7, <2>8 DEF Logging, Gathering
    <3> QED
      BY <3>1, <3>2, <3>3 DEF Knows
  <2> QED
    BY <1>1, <1>2, <2>6, <2>7, <2>8, <2>9, QuietMove DEF consumerVars, StoresTyped
<1> QED
  BY <1>3, <1>4 DEF Assemble, Refused

--------------------------------------------------------------------------------
(****************************************************************************)
(* train.                                                                   *)
(****************************************************************************)

\* A call of a training that writes its run.
LEMMA LogStep ==
    ASSUME PipelineInv, NEW p \in Procs, NEW label, NEW r \in Runs,
           pc[p] \in LogLabels,
           label \in LogLabels \cup {"idle"},
           pc' = [pc EXCEPT ![p] = label],
           IF label = "idle" THEN conn' = [conn EXCEPT ![p] = "none"] ELSE conn' = conn,
           exit' \in [Procs -> ExitCodes], starts' \in Nat, kills' \in Nat,
           runs' = [runs EXCEPT ![mine[p]] = r],
           UNCHANGED <<dbFile, schema, exclusive, builderVars, want, costs, mine, held, outputs, report>>,
           runs[mine[p]].metrics <= r.metrics,
           Sound(r),
           label # "idle" =>
               /\ AsFarAs(label, r)
               /\ r.trained = tables[ver[p]] /\ r.want = want[p]
               /\ label # "log_snapshot" => r.snapshot = ver[p]
    PROVE  PipelineInv'
<1>0. BuilderInv /\ ConsumersInv
  BY DEF PipelineInv
<1>1. /\ pc \in [Procs -> AllLabels] /\ conn \in [Procs -> Modes]
      /\ cfg \in [Procs -> Configs \cup {None}] /\ ver \in [Procs -> Nat] /\ dbFile \in BOOLEAN
  BY <1>0 DEF ConsumersInv, PipelineTypeOK, AllLabels, BuilderInv, BuilderTypes
<1>2. /\ mine[p] \in 1..Len(runs) /\ runs[mine[p]].status = "running"
      /\ Chosen(p)
  BY <1>0 DEF ConsumersInv, Knows, Logging, Describes, AsFarAs
<1>3. ConsumerMove(p)
  <2>1. pc[p] \in ConsumerLabels /\ label \in {"idle"} \cup ConsumerLabels
    BY LabelsApart
  <2>2. \E m \in Modes : conn' = [conn EXCEPT ![p] = m] /\ m \in {"none", conn[p]}
    <3>1. conn' = [conn EXCEPT ![p] = "none"] \/ conn' = [conn EXCEPT ![p] = conn[p]]
      BY <1>1
    <3> QED
      BY <1>1, <3>1 DEF Modes
  <2> QED
    BY <1>1, <2>1, <2>2 DEF ConsumerMove, builderVars, viewVars, snapshotVars
<1>4. /\ BuilderInv'
      /\ pc' \in [Procs -> AllLabels] /\ conn' \in [Procs -> Modes]
      /\ \A q \in Procs \ {p} : pc'[q] = pc[q] /\ conn'[q] = conn[q]
  BY <1>0, <1>1, <1>3, ConsumerKeepsBuilder
<1>5. RunWritten(p, mine[p], r)
  BY <1>0, <1>2 DEF RunWritten, ConsumersInv, OwnRuns
<1>6. runs'[mine[p]] = r /\ Len(runs') = Len(runs)
  BY <1>0, <1>5, WriteRun DEF ConsumersInv
<1>7. Knows(p)' /\ (pc'[p] \in LogLabels => pc[p] \in LogLabels)
  <2>1. CASE label = "idle"
    <3>1. pc'[p] = "idle"
      BY <1>1, <2>1
    <3> QED
      BY <3>1, KnowsNothing DEF TrainLabels, PersistLabels, ReportLabels
  <2>2. CASE label # "idle"
    <3>1. pc'[p] = label /\ pc'[p] \in LogLabels
      BY <1>1, <2>2
    <3>2. Locked(p)' /\ Gathering(p)'
      BY <3>1, LabelsApart DEF Locked, Gathering
    <3>3. Chosen(p)'
      BY <1>2, LabelsApart DEF Chosen, builderVars
    <3>4. Logging(p)'
      <4>1. Describes(p, r)'
        BY <2>2, <3>1 DEF Describes, AsFarAs, builderVars
      <4> QED
        BY <1>2, <1>6, <4>1 DEF Logging, Describes, AsFarAs
    <3> QED
      BY <3>1, <3>2, <3>3, <3>4 DEF Knows
  <2> QED
    BY <2>1, <2>2
<1>8. ConsumersInv'
  BY <1>0, <1>4, <1>5, <1>7, RunStep DEF builderVars, snapshotVars
<1> QED
  BY <1>4, <1>8 DEF PipelineInv

\* The run of a training in its log.
LEMMA MyRun ==
    ASSUME PipelineInv, NEW p \in Procs, pc[p] \in LogLabels
    PROVE  /\ mine[p] \in 1..Len(runs) /\ runs[mine[p]] \in Runs
           /\ runs[mine[p]].metrics \in Nat /\ runs[mine[p]].models \in Nat
           /\ Describes(p, runs[mine[p]]) /\ Sound(runs[mine[p]])
           /\ ver[p] \in DOMAIN tables /\ ver[p] \in Nat
           /\ want[p] = 0 => ver[p] \in DOMAIN manifest
           /\ conn \in [Procs -> Modes] /\ exit \in [Procs -> ExitCodes]
           /\ pc \in [Procs -> AllLabels] /\ starts \in Nat /\ kills \in Nat
<1>1. Knows(p) /\ PipelineTypeOK /\ RunsSound /\ BuilderTypes
  BY DEF PipelineInv, ConsumersInv, BuilderInv
<1>2. mine[p] \in 1..Len(runs) /\ Describes(p, runs[mine[p]])
  BY <1>1 DEF Knows, Logging
<1>3. runs[mine[p]] \in Runs /\ Sound(runs[mine[p]])
  BY <1>1, <1>2 DEF PipelineTypeOK, RunsSound
<1>4. runs[mine[p]].metrics \in Nat /\ runs[mine[p]].models \in Nat
  BY <1>3, PipelineAssumption DEF Runs
<1>5. /\ ver[p] \in DOMAIN tables
      /\ want[p] = 0 => ver[p] \in DOMAIN manifest
  BY <1>1 DEF Knows, Chosen, LogLabels
<1>6. /\ conn \in [Procs -> Modes] /\ exit \in [Procs -> ExitCodes] /\ ver[p] \in Nat
      /\ pc \in [Procs -> AllLabels] /\ starts \in Nat /\ kills \in Nat
  BY <1>1 DEF PipelineTypeOK, AllLabels, BuilderTypes
<1> QED
  BY <1>2, <1>3, <1>4, <1>5, <1>6

\* runs[i] with one field written.
LEMMA WrittenField ==
    ASSUME NEW i \in DOMAIN runs, runs[i] \in Runs
    PROVE  /\ \A x : [runs EXCEPT ![i].snapshot = x] =
                        [runs EXCEPT ![i] = [runs[i] EXCEPT !.snapshot = x]]
           /\ \A x : [runs EXCEPT ![i].metrics = x] =
                        [runs EXCEPT ![i] = [runs[i] EXCEPT !.metrics = x]]
           /\ \A x : [runs EXCEPT ![i].models = x] =
                        [runs EXCEPT ![i] = [runs[i] EXCEPT !.models = x]]
           /\ \A x : [runs EXCEPT ![i].status = x] =
                        [runs EXCEPT ![i] = [runs[i] EXCEPT !.status = x]]
OBVIOUS

\* Naming the snapshot in the run keeps the invariant.
LEMMA LogSnapshotStep ==
    ASSUME PipelineInv, NEW p \in Procs, LogSnapshot(p)
    PROVE  PipelineInv'
<1> DEFINE old == runs[mine[p]]
           r == [old EXCEPT !.snapshot = ver[p]]
<1>0. pc[p] = "log_snapshot" /\ pc[p] \in LogLabels
  BY DEF LogSnapshot, InTraining, LogLabels, TrainLabels
<1>1. /\ mine[p] \in 1..Len(runs) /\ old \in Runs /\ old.metrics \in Nat
      /\ Describes(p, old) /\ Sound(old)
      /\ ver[p] \in DOMAIN tables /\ ver[p] \in Nat
      /\ want[p] = 0 => ver[p] \in DOMAIN manifest
      /\ conn \in [Procs -> Modes] /\ exit \in [Procs -> ExitCodes]
      /\ pc \in [Procs -> AllLabels] /\ starts \in Nat /\ kills \in Nat
  BY <1>0, MyRun
<1>2. /\ old.status = "running" /\ old.metrics = 0 /\ old.models = 0
      /\ old.trained = tables[ver[p]] /\ old.want = want[p]
  BY <1>0, <1>1 DEF Describes, AsFarAs
<1>3. runs' = [runs EXCEPT ![mine[p]] = r]
  BY <1>1, WrittenField DEF LogSnapshot, PipelineInv, ConsumersInv, PipelineTypeOK
<1>4. /\ pc' = [pc EXCEPT ![p] = "log_metric"]
      /\ UNCHANGED <<conn, exit, mine, starts, kills, exclusive, dbFile, schema, builderVars,
                     want, costs, held, outputs, report>>
  BY DEF LogSnapshot, InTraining, Goto, boundVars
<1>5. r \in Runs /\ Sound(r) /\ AsFarAs("log_metric", r)
  BY <1>1, <1>2, PipelineAssumption DEF Runs, Sound, AsFarAs
<1>6. /\ IF "log_metric" = "idle" THEN conn' = [conn EXCEPT ![p] = "none"] ELSE conn' = conn
      /\ exit' \in [Procs -> ExitCodes] /\ starts' \in Nat /\ kills' \in Nat
  BY <1>1, <1>4
<1>7. r.trained = tables[ver[p]] /\ r.want = want[p] /\ r.snapshot = ver[p]
      /\ old.metrics <= r.metrics
  BY <1>1, <1>2 DEF Runs
<1>8. "log_metric" \in LogLabels
  BY DEF LogLabels, TrainLabels
<1> HIDE DEF r
<1> QED
  BY <1>0, <1>1, <1>3, <1>4, <1>5, <1>6, <1>7, <1>8, LogStep

\* Logging one metric keeps the invariant.
LEMMA LogMetricStep ==
    ASSUME PipelineInv, NEW p \in Procs, LogMetric(p)
    PROVE  PipelineInv'
<1> DEFINE old == runs[mine[p]]
           r == [old EXCEPT !.metrics = old.metrics + 1]
<1>0. pc[p] = "log_metric" /\ pc[p] \in LogLabels
  BY DEF LogMetric, InTraining, LogLabels, TrainLabels
<1>1. /\ mine[p] \in 1..Len(runs) /\ old \in Runs /\ old.metrics \in Nat
      /\ Describes(p, old) /\ Sound(old)
      /\ ver[p] \in DOMAIN tables /\ ver[p] \in Nat
      /\ want[p] = 0 => ver[p] \in DOMAIN manifest
      /\ conn \in [Procs -> Modes] /\ exit \in [Procs -> ExitCodes]
      /\ pc \in [Procs -> AllLabels] /\ starts \in Nat /\ kills \in Nat
  BY <1>0, MyRun
<1>2. /\ old.status = "running" /\ old.metrics < NumMetrics /\ old.models = 0
      /\ old.trained = tables[ver[p]] /\ old.want = want[p] /\ old.snapshot = ver[p]
  BY <1>0, <1>1 DEF Describes, AsFarAs
<1>3. runs' = [runs EXCEPT ![mine[p]] = r]
  <2>1. runs' = [runs EXCEPT ![mine[p]].metrics = old.metrics + 1]
    BY DEF LogMetric
  <2> QED
    BY <1>1, <2>1, WrittenField DEF PipelineInv, ConsumersInv, PipelineTypeOK
<1>4. /\ UNCHANGED <<conn, exit, mine, starts, kills, exclusive, dbFile, schema, builderVars,
                     want, costs, held, outputs, report>>
      /\ exit' \in [Procs -> ExitCodes] /\ starts' \in Nat /\ kills' \in Nat
  BY <1>1 DEF LogMetric, InTraining, boundVars
<1>5. PICK label \in {"log_metric", "register_model", "end_run"} :
        /\ pc' = [pc EXCEPT ![p] = label]
        /\ label = "log_metric" => old.metrics + 1 < NumMetrics
        /\ label # "log_metric" => ~(old.metrics + 1 < NumMetrics)
  <2>1. CASE old.metrics + 1 < NumMetrics
    <3>1. pc' = [pc EXCEPT ![p] = "log_metric"]
      BY <1>0, <1>1, <2>1 DEF LogMetric
    <3> QED
      BY <2>1, <3>1
  <2>2. CASE ~(old.metrics + 1 < NumMetrics)
    BY <2>2 DEF LogMetric, Goto
  <2> QED
    BY <2>1, <2>2
<1>6. /\ r.metrics = old.metrics + 1 /\ r.models = 0 /\ r.status = "running"
      /\ r.trained = tables[ver[p]] /\ r.want = want[p] /\ r.snapshot = ver[p]
      /\ r \in Runs
  <2>1. /\ r.metrics = old.metrics + 1 /\ r.models = 0 /\ r.status = "running"
        /\ r.trained = tables[ver[p]] /\ r.want = want[p] /\ r.snapshot = ver[p]
    BY <1>1, <1>2 DEF Runs
  <2>2. old.metrics + 1 \in 0..NumMetrics
    BY <1>1, <1>2, PipelineAssumption
  <2>3. r \in Runs
    BY <1>1, <2>2 DEF Runs
  <2> QED
    BY <2>1, <2>3
<1> HIDE DEF r
<1>7. Sound(r) /\ AsFarAs(label, r) /\ old.metrics <= r.metrics
  BY <1>1, <1>2, <1>5, <1>6, PipelineAssumption DEF Sound, AsFarAs
<1>8. label \in LogLabels /\ label # "idle"
  BY <1>5 DEF LogLabels, TrainLabels
<1> QED
  BY <1>0, <1>1, <1>3, <1>4, <1>5, <1>6, <1>7, <1>8, LogStep

\* Registering one quantile model keeps the invariant: the run is complete by then.
LEMMA RegisterModelStep ==
    ASSUME PipelineInv, NEW p \in Procs, RegisterModel(p)
    PROVE  PipelineInv'
<1> DEFINE old == runs[mine[p]]
<1>0. pc[p] = "register_model" /\ pc[p] \in LogLabels
  BY DEF RegisterModel, InTraining, LogLabels, TrainLabels
<1>1. /\ mine[p] \in 1..Len(runs) /\ old \in Runs /\ old.metrics \in Nat /\ old.models \in Nat
      /\ Describes(p, old) /\ Sound(old)
      /\ ver[p] \in DOMAIN tables /\ ver[p] \in Nat
      /\ want[p] = 0 => ver[p] \in DOMAIN manifest
      /\ conn \in [Procs -> Modes] /\ exit \in [Procs -> ExitCodes]
      /\ pc \in [Procs -> AllLabels] /\ starts \in Nat /\ kills \in Nat
  BY <1>0, MyRun
<1>2. /\ old.status = "running" /\ old.metrics = NumMetrics
      /\ old.trained = tables[ver[p]] /\ old.want = want[p] /\ old.snapshot = ver[p]
  BY <1>0, <1>1 DEF Describes, AsFarAs
<1>3. runs \in Seq(Runs)
  BY DEF PipelineInv, ConsumersInv, PipelineTypeOK
<1>4. /\ UNCHANGED <<conn, exit, mine, starts, kills, exclusive, dbFile, schema, builderVars,
                     want, costs, held, outputs, report>>
      /\ exit' \in [Procs -> ExitCodes] /\ starts' \in Nat /\ kills' \in Nat
  BY <1>1 DEF RegisterModel, InTraining, boundVars
<1>5. PICK label \in {"register_model", "end_run"}, r \in Runs :
        /\ pc' = [pc EXCEPT ![p] = label]
        /\ runs' = [runs EXCEPT ![mine[p]] = r]
        /\ r.metrics = NumMetrics /\ r.status = "running"
        /\ r.trained = tables[ver[p]] /\ r.want = want[p] /\ r.snapshot = ver[p]
  <2>1. CASE old.models < NumQuantiles
    <3> DEFINE r == [old EXCEPT !.models = old.models + 1]
    <3>1. runs' = [runs EXCEPT ![mine[p]].models = old.models + 1] /\ pc' = pc
      BY <1>1, <2>1, PipelineAssumption DEF RegisterModel
    <3>2. runs' = [runs EXCEPT ![mine[p]] = r]
      BY <1>1, <1>3, <3>1, WrittenField
    <3>3. pc' = [pc EXCEPT ![p] = "register_model"]
      BY <1>0, <1>1, <3>1
    <3>4. /\ r \in Runs /\ r.metrics = NumMetrics /\ r.status = "running"
          /\ r.trained = tables[ver[p]] /\ r.want = want[p] /\ r.snapshot = ver[p]
      <4>1. \A o \in Runs, n \in 0..NumQuantiles : [o EXCEPT !.models = n] \in Runs
        BY DEF Runs
      <4>2. \A o \in Runs, n \in 0..NumQuantiles :
               LET s == [o EXCEPT !.models = n]
               IN  /\ s.metrics = o.metrics /\ s.status = o.status /\ s.trained = o.trained
                   /\ s.want = o.want /\ s.snapshot = o.snapshot
        BY DEF Runs
      <4>3. old \in Runs /\ old.models + 1 \in 0..NumQuantiles
        BY <1>1, <2>1, PipelineAssumption
      <4> HIDE DEF old
      <4> QED
        BY <1>2, <4>1, <4>2, <4>3
    <3> HIDE DEF r
    <3> QED
      BY <3>2, <3>3, <3>4
  <2>2. CASE ~(old.models < NumQuantiles)
    <3>1. pc' = [pc EXCEPT ![p] = "end_run"] /\ runs' = runs
      BY <2>2 DEF RegisterModel, Goto
    <3>2. runs' = [runs EXCEPT ![mine[p]] = old]
      BY <1>1, <1>3, <3>1
    <3> QED
      BY <1>1, <1>2, <3>1, <3>2
  <2> QED
    BY <2>1, <2>2
<1>6. Sound(r) /\ AsFarAs(label, r) /\ old.metrics <= r.metrics
  BY <1>1, <1>2, <1>5, PipelineAssumption DEF Sound, AsFarAs
<1>7. label \in LogLabels /\ label # "idle"
  BY <1>5 DEF LogLabels, TrainLabels
<1> QED
  BY <1>0, <1>1, <1>4, <1>5, <1>6, <1>7, LogStep

\* A run ends finished, or failed.
LEMMA ClosingStep ==
    ASSUME PipelineInv, NEW p \in Procs, pc[p] \in LogLabels, NEW code \in ExitCodes,
           NEW status \in {"failed", "finished"},
           status = "finished" => pc[p] = "end_run",
           runs' = [runs EXCEPT ![mine[p]].status = status],
           End(p, code), kills' \in Nat,
           UNCHANGED <<mine, starts, exclusive, dbFile, schema, builderVars, want, costs, held,
                       outputs, report>>
    PROVE  PipelineInv'
<1> DEFINE old == runs[mine[p]]
           r == [old EXCEPT !.status = status]
<1>1. /\ mine[p] \in 1..Len(runs) /\ old \in Runs /\ old.metrics \in Nat
      /\ Describes(p, old) /\ Sound(old)
      /\ exit \in [Procs -> ExitCodes] /\ starts \in Nat
  BY MyRun
<1>2. runs' = [runs EXCEPT ![mine[p]] = r]
  BY <1>1, WrittenField DEF PipelineInv, ConsumersInv, PipelineTypeOK
<1>3. r \in Runs /\ r.metrics = old.metrics /\ r.status = status /\ r.models = old.models
      /\ r.want = old.want /\ r.snapshot = old.snapshot /\ r.trained = old.trained
  BY <1>1 DEF Runs
<1> HIDE DEF r
<1>4. Sound(r) /\ old.metrics <= r.metrics
  BY <1>1, <1>3 DEF Sound, Describes, AsFarAs
<1>5. /\ pc' = [pc EXCEPT ![p] = "idle"] /\ exit' \in [Procs -> ExitCodes]
      /\ conn' = [conn EXCEPT ![p] = "none"] /\ starts' \in Nat
  BY <1>1 DEF End
<1> QED
  BY <1>2, <1>3, <1>4, <1>5, LogStep

\* Ending a run that has every metric keeps the invariant.
LEMMA EndRunStep ==
    ASSUME PipelineInv, NEW p \in Procs, EndRun(p)
    PROVE  PipelineInv'
<1>1. pc[p] = "end_run" /\ pc[p] \in LogLabels
  BY DEF EndRun, InTraining, LogLabels, TrainLabels
<1>2. kills \in Nat
  BY DEF PipelineInv, BuilderInv, BuilderTypes
<1> QED
  BY <1>1, <1>2, ClosingStep DEF EndRun, InTraining, boundVars, ExitCodes

\* An MLflow call that raises keeps the invariant.
LEMMA TrackingFailsStep ==
    ASSUME PipelineInv, NEW p \in Procs, TrackingFails(p)
    PROVE  PipelineInv'
<1>1. kills' \in Nat /\ dbFile \in BOOLEAN
  BY DEF PipelineInv, BuilderInv, BuilderTypes, TrackingFails
<1>2. CASE pc[p] = "start_run"
  <2>1. pc[p] \in ConsumerLabels
    BY LabelsApart DEF TrackingFails
  <2> QED
    BY <1>1, <1>2, <2>1, EndStep DEF TrackingFails, ExitCodes, consumerVars, consumerLocals
<1>3. CASE pc[p] # "start_run"
  <2>1. pc[p] \in LogLabels
    BY <1>3 DEF TrackingFails, LogLabels
  <2> QED
    BY <1>1, <1>3, <2>1, ClosingStep DEF TrackingFails, ExitCodes, consumerLocals
<1> QED
  BY <1>2, <1>3


\* A run of one's own is appended: the others keep theirs.
LEMMA StartRunStep ==
    ASSUME PipelineInv, NEW p \in Procs, StartRun(p)
    PROVE  PipelineInv'
<1> DEFINE new == NewRun(p)
           n == Len(runs)
<1>0. BuilderInv /\ ConsumersInv
  BY DEF PipelineInv
<1>1. /\ pc \in [Procs -> AllLabels] /\ exit \in [Procs -> ExitCodes] /\ conn \in [Procs -> Modes]
      /\ starts \in Nat /\ kills \in Nat /\ dbFile \in BOOLEAN
      /\ cfg \in [Procs -> Configs \cup {None}] /\ ver \in [Procs -> Nat]
      /\ want \in [Procs -> Asked \cup {0}] /\ mine \in [Procs -> 0..n] /\ runs \in Seq(Runs)
      /\ \A v \in DOMAIN tables : tables[v] \in Snapshots
  BY <1>0 DEF ConsumersInv, PipelineTypeOK, AllLabels, BuilderInv, BuilderTypes
<1>2. /\ pc[p] = "start_run" /\ pc' = [pc EXCEPT ![p] = "log_snapshot"]
      /\ runs' = Append(runs, new) /\ mine' = [mine EXCEPT ![p] = n + 1]
      /\ UNCHANGED <<conn, exit, dbFile, schema, starts, kills, exclusive, builderVars, want,
                     costs, held, outputs, report>>
  BY DEF StartRun, InTraining, Goto, boundVars
<1>3. /\ ver[p] \in DOMAIN tables
      /\ want[p] = 0 => ver[p] \in DOMAIN manifest
  BY <1>0, <1>2 DEF ConsumersInv, Knows, Chosen, TrainLabels
<1>4. /\ new \in Runs /\ new.want = want[p] /\ new.trained = tables[ver[p]]
      /\ new.snapshot = 0 /\ new.metrics = 0 /\ new.models = 0 /\ new.status = "running"
  BY <1>1, <1>3, PipelineAssumption DEF NewRun, Runs
<1> HIDE DEF new
<1>5. /\ n \in Nat
      /\ runs' \in Seq(Runs) /\ Len(runs') = n + 1 /\ runs'[n + 1] = new
      /\ \A i \in 1..n : runs'[i] = runs[i] /\ runs[i] \in Runs
  BY <1>1, <1>2, <1>4, AppendProperties, LenProperties
<1> HIDE DEF n
<1>6. ConsumerMove(p)
  <2>1. conn' = [conn EXCEPT ![p] = conn[p]] /\ conn[p] \in Modes
    BY <1>1, <1>2
  <2>2. pc[p] \in ConsumerLabels /\ "log_snapshot" \in ConsumerLabels
    BY <1>2 DEF ConsumerLabels, TrainLabels
  <2> QED
    BY <1>1, <1>2, <2>1, <2>2 DEF ConsumerMove, builderVars, viewVars, snapshotVars
<1>7. /\ BuilderInv'
      /\ pc' \in [Procs -> AllLabels] /\ conn' \in [Procs -> Modes]
      /\ \A q \in Procs \ {p} : pc'[q] = pc[q] /\ conn'[q] = conn[q]
  BY <1>0, <1>1, <1>6, ConsumerKeepsBuilder
<1>8. Grow
  BY <1>2 DEF Grow, builderVars
<1>9. RunsGo
  <2>1. \A x \in Runs : x.metrics \in Nat
    BY PipelineAssumption DEF Runs
  <2> QED
    BY <1>5, <2>1 DEF RunsGo, n
<1>10. \A q \in Procs \ {p} : Untouched(q)
  <2> SUFFICES ASSUME NEW q \in Procs \ {p} PROVE Untouched(q)
    OBVIOUS
  <2>1. pc[q] \in LogLabels => mine[q] \in 1..n
    BY <1>0 DEF ConsumersInv, Knows, Logging, n
  <2>2. mine'[q] = mine[q]
    BY <1>1, <1>2
  <2> QED
    BY <1>2, <1>5, <1>7, <2>1, <2>2 DEF Untouched, builderVars
<1>11. pc'[p] = "log_snapshot" /\ mine'[p] = n + 1
  BY <1>1, <1>2
<1>12. Knows(p)'
  <2>1. Locked(p)' /\ Gathering(p)'
    BY <1>11 DEF Locked, Gathering, PersistLabels, ReportLabels
  <2>2. Chosen(p)'
    BY <1>2, <1>3 DEF Chosen, builderVars
  <2>3. Logging(p)'
    BY <1>2, <1>4, <1>5, <1>11 DEF Logging, Describes, AsFarAs, builderVars
  <2> QED
    BY <2>1, <2>2, <2>3 DEF Knows
<1>13. \A q \in Procs : Knows(q)'
  BY <1>0, <1>8, <1>9, <1>10, <1>12, StillKnows DEF ConsumersInv
<1>14. OwnRuns'
  <2>1. \A q \in Procs \ {p} : pc'[q] \in LogLabels =>
            pc[q] \in LogLabels /\ mine'[q] = mine[q] /\ mine[q] \in 1..n
    BY <1>0, <1>10 DEF Untouched, ConsumersInv, Knows, Logging, n
  <2>2. n + 1 \notin 1..n
    BY <1>5
  <2> QED
    BY <1>0, <1>11, <2>1, <2>2 DEF ConsumersInv, OwnRuns
<1>15. RunsSound'
  <2>1. new' = new
    BY <1>2 DEF new, NewRun, builderVars
  <2>2. Sound(new)'
    BY <1>4, <2>1 DEF Sound
  <2>3. \A i \in 1..n : Sound(runs[i])'
    BY <1>0, <1>2, <1>5 DEF ConsumersInv, RunsSound, Sound, builderVars, n
  <2>4. \A i \in 1..(n + 1) : i \in 1..n \/ i = n + 1
    BY <1>5
  <2> QED
    BY <1>5, <2>1, <2>2, <2>3, <2>4 DEF RunsSound, Sound
<1>16. OutputsSound'
  BY <1>0, <1>2 DEF ConsumersInv, OutputsSound, Backed, Empty, builderVars
<1>17. ReportSound'
  BY <1>0, <1>2, <1>9, StillQuotes DEF ConsumersInv, ReportSound
<1>18. PipelineTypeOK'
  <2>1. mine' \in [Procs -> 0..(n + 1)]
    BY <1>1, <1>2, <1>5 DEF n
  <2> QED
    BY <1>0, <1>1, <1>2, <1>5, <1>7, <2>1 DEF ConsumersInv, PipelineTypeOK, AllLabels
<1> QED
  BY <1>7, <1>13, <1>14, <1>15, <1>16, <1>17, <1>18 DEF PipelineInv, ConsumersInv

\* A run nobody logs to is deleted.
LEMMA DeleteRunStep ==
    ASSUME PipelineInv, DeleteRun
    PROVE  PipelineInv'
<1>0. BuilderInv /\ ConsumersInv
  BY DEF PipelineInv
<1>1. PICK i \in 1..Len(runs) :
        /\ runs[i].status \in {"failed", "running"}
        /\ \A p \in Procs : pc[p] \in TrainLabels => mine[p] # i
        /\ runs' = [runs EXCEPT ![i].status = "deleted"]
  BY DEF DeleteRun
<1>2. UNCHANGED <<vars, want, costs, mine, held, outputs, report>>
  BY DEF DeleteRun
<1> DEFINE r == [runs[i] EXCEPT !.status = "deleted"]
<1>3. runs \in Seq(Runs) /\ runs[i] \in Runs /\ Sound(runs[i]) /\ runs[i].metrics \in Nat
  <2>1. runs \in Seq(Runs) /\ Sound(runs[i])
    BY <1>0 DEF ConsumersInv, PipelineTypeOK, RunsSound
  <2>2. runs[i] \in Runs
    BY <2>1
  <2>3. runs[i].metrics \in Nat
    BY <2>2, PipelineAssumption DEF Runs
  <2> QED
    BY <2>1, <2>2, <2>3
<1>4. runs' = [runs EXCEPT ![i] = r]
  BY <1>1, <1>3, WrittenField
<1>5. r \in Runs /\ r.metrics = runs[i].metrics /\ r.status = "deleted" /\ r.models = runs[i].models
      /\ r.want = runs[i].want /\ r.snapshot = runs[i].snapshot /\ r.trained = runs[i].trained
  BY <1>3 DEF Runs
<1> HIDE DEF r
<1>6. PICK p \in Procs : TRUE
  BY ProcsAssumption
<1>7. \A q \in Procs : pc[q] \in LogLabels => mine[q] # i
  BY <1>1, LabelsApart
<1>8. RunWritten(p, i, r)
  <2>1. Sound(r)
    BY <1>3, <1>5 DEF Sound
  <2>2. runs[i].status # "finished" /\ runs[i].metrics <= r.metrics
    BY <1>1, <1>3, <1>5
  <2> QED
    BY <1>4, <1>5, <1>7, <2>1, <2>2 DEF RunWritten
<1>9. Grow
  BY <1>2 DEF Grow, vars, builderVars
<1>10. /\ \A j \in 1..Len(runs) : j # i => runs'[j] = runs[j]
       /\ RunsGo
  BY <1>0, <1>8, WriteRun DEF ConsumersInv
<1>11. UNCHANGED <<pc, conn, exit, ver, tables, manifest>>
  BY <1>2 DEF vars, workspaceVars, builderVars
<1>12. Untouched(p)
  BY <1>0, <1>2, <1>7, <1>10, <1>11 DEF Untouched, ConsumersInv, Knows, Logging
<1>13. Knows(p)'
  BY <1>0, <1>9, <1>10, <1>12, StillKnows DEF ConsumersInv
<1>14. ConsumersInv'
  <2>1. /\ pc' \in [Procs -> AllLabels] /\ conn' \in [Procs -> Modes]
        /\ exit' \in [Procs -> ExitCodes]
    BY <1>0, <1>11 DEF ConsumersInv, PipelineTypeOK, AllLabels
  <2> QED
    BY <1>0, <1>2, <1>8, <1>11, <1>13, <2>1, RunStep DEF snapshotVars
<1> QED
  BY <1>0, <1>2, <1>14, StutterStep DEF PipelineInv

--------------------------------------------------------------------------------
(****************************************************************************)
(* recommend, simulate and report.                                          *)
(****************************************************************************)

\* recommend and simulate replace their table with what they read.
LEMMA PersistStep ==
    ASSUME PipelineInv, NEW p \in Procs, NEW label \in PersistLabels,
           NEW table \in OutputTables, Persist(p, label, table)
    PROVE  PipelineInv'
<1>0. BuilderInv /\ ConsumersInv
  BY DEF PipelineInv
<1>1. /\ pc \in [Procs -> AllLabels] /\ exit \in [Procs -> ExitCodes] /\ conn \in [Procs -> Modes]
      /\ starts \in Nat /\ kills \in Nat /\ dbFile \in BOOLEAN
      /\ cfg \in [Procs -> Configs \cup {None}] /\ ver \in [Procs -> Nat]
      /\ want \in [Procs -> Asked \cup {0}] /\ costs \in [Procs -> CostConfigs \cup {None}]
      /\ StoresTyped
  BY <1>0 DEF ConsumersInv, PipelineTypeOK, AllLabels, BuilderInv, BuilderTypes, StoresTyped
<1>2. /\ pc[p] = label /\ pc[p] \in ConsumerLabels
      /\ UNCHANGED <<dbFile, schema, starts, exclusive, builderVars, want, costs, mine, held,
                     runs, report>>
  BY LabelsApart DEF Persist, consumerLocals
<1>3. CASE kills' = kills + 1 /\ End(p, "error") /\ UNCHANGED outputs
  BY <1>1, <1>2, <1>3, EndStep DEF ExitCodes, consumerVars
<1>4. CASE /\ outputs' = [outputs EXCEPT ![table] = Result(p)]
           /\ conn' = [conn EXCEPT ![p] = "none"]
           /\ Goto(p, "finish")
           /\ UNCHANGED <<exit, kills>>
  <2>1. conn[p] = "rw" /\ Chosen(p)
    BY <1>0, <1>2 DEF ConsumersInv, Knows, Locked
  <2>2. \A q \in Procs \ {p} : conn[q] = "none"
    BY <1>0, <2>1 DEF BuilderInv, WriterAlone
  <2>3. \A q \in Procs \ {p} : pc[q] \notin ReportLabels
    BY <1>0, <2>2 DEF ConsumersInv, Knows, Locked
  <2>4. /\ ver[p] \in DOMAIN tables
        /\ want[p] = 0 => ver[p] \in DOMAIN manifest
    BY <1>2, <2>1 DEF Chosen
  <2>5. /\ DOMAIN outputs' = OutputTables
        /\ \A t \in OutputTables : outputs'[t] = IF t = table THEN Result(p) ELSE outputs[t]
    BY <1>1, <1>4 DEF StoresTyped
  <2>6. /\ Result(p).content = "rows" /\ Result(p).snapshot = ver[p]
        /\ Result(p).of = tables[ver[p]] /\ Result(p).want = want[p]
    BY DEF Result
  <2>7. OutputsSound'
    <3>1. Backed(Result(p))
      BY <2>4, <2>6 DEF Backed
    <3>2. \A t \in OutputTables : Backed(outputs[t])
      BY <1>0 DEF ConsumersInv, OutputsSound
    <3>3. UNCHANGED <<tables, manifest>>
      BY <1>2 DEF builderVars
    <3>4. ASSUME NEW t \in OutputTables PROVE Backed(outputs[t])'
      <4>1. PICK o : outputs'[t] = o /\ Backed(o)
        BY <2>5, <3>1, <3>2
      <4> QED
        BY <3>3, <4>1 DEF Backed, Empty
    <3> QED
      BY <3>4 DEF OutputsSound
  <2>8. /\ \A t \in OutputTables : outputs'[t].content \in {"none", "rows"}
        /\ DOMAIN held' = Procs /\ report'.content \in {"none", "cut", "report"}
    BY <1>1, <1>2, <2>5, <2>6 DEF StoresTyped
  <2>9. ConsumerMove(p)
    <3>1. "finish" \in ConsumerLabels /\ "none" \in Modes
      BY DEF ConsumerLabels, Modes
    <3> QED
      BY <1>1, <1>2, <1>4, <3>1 DEF ConsumerMove, Goto, builderVars, viewVars, snapshotVars
  <2>10. Knows(p)' /\ pc'[p] \notin LogLabels
    <3>1. pc'[p] = "finish"
      BY <1>1, <1>4 DEF Goto
    <3>2. "finish" \notin TrainLabels \cup PersistLabels \cup ReportLabels
      BY DEF TrainLabels, PersistLabels, ReportLabels
    <3> QED
      BY <3>1, <3>2 DEF Knows, Locked, Chosen, Logging, Gathering, LogLabels
  <2> QED
    BY <1>1, <1>2, <2>3, <2>5, <2>7, <2>8, <2>9, <2>10, QuietMove
<1> QED
  BY <1>3, <1>4 DEF Persist

\* What is left of recommend and simulate changes nothing but their exit code.
LEMMA FinishStep ==
    ASSUME PipelineInv, NEW p \in Procs, Finish(p)
    PROVE  PipelineInv'
<1>1. pc[p] \in ConsumerLabels
  BY DEF Finish, ConsumerLabels
<1>2. starts \in Nat /\ kills \in Nat /\ dbFile \in BOOLEAN
  BY DEF PipelineInv, BuilderInv, BuilderTypes
<1> QED
  BY <1>1, <1>2, EndStep DEF Finish, ExitCodes, boundVars, consumerVars

\* The natural numbers are well-founded, so a bounded set of them has a maximum.
LEMMA NatWellFounded == IsWellFoundedOn({ss \in Nat \X Nat : ss[1] < ss[2]}, Nat)
BY NatLessThanWellFounded DEF OpToRel

\* A non-empty set of bounded numbers has a maximum.
LEMMA MaxExists ==
    ASSUME NEW n \in Nat, NEW S \in SUBSET (1..n), S # {}
    PROVE  Max(S) \in S /\ \A x \in S : x <= Max(S)
<1> DEFINE T == {n - x : x \in S}
<1>0. \A x \in S : x \in 1..n /\ n - x \in Nat
  OBVIOUS
<1>1. T \subseteq Nat /\ T # {}
  BY <1>0, Zenon
<1>2. PICK t \in T : \A u \in T : ~(<<u, t>> \in {ss \in Nat \X Nat : ss[1] < ss[2]})
  BY <1>1, NatWellFounded, WFMin, Zenon
<1>3. \A u \in T : u >= t
  <2>1. \A u, w \in Nat : ~(<<u, w>> \in {ss \in Nat \X Nat : ss[1] < ss[2]}) => u >= w
    OBVIOUS
  <2> QED
    BY <1>1, <1>2, <2>1, Zenon
<1>4. PICK x \in S : t = n - x
  BY Zenon
<1>5. \A y \in S : n - y >= n - x
  BY <1>3, <1>4, Zenon
<1>6. \A y \in S : x >= y
  BY <1>0, <1>5
<1>7. Max(S) \in S /\ \A y \in S : Max(S) >= y
  BY <1>6 DEF Max
<1> QED
  BY <1>0, <1>7

\* latest_run is one of the runs, or there is none.
LEMMA LatestRunIs ==
    ASSUME runs \in Seq(Runs)
    PROVE  LatestRun # 0 => LatestRun \in 1..Len(runs)
<1> DEFINE active == {i \in 1..Len(runs) : runs[i].status # "deleted"}
<1>1. Len(runs) \in Nat
  BY LenProperties
<1>2. CASE active = {}
  BY <1>2 DEF LatestRun
<1>3. CASE active # {}
  <2>1. active \in SUBSET (1..Len(runs))
    OBVIOUS
  <2>2. LatestRun = Max(active)
    BY <1>3 DEF LatestRun
  <2> HIDE DEF active
  <2>3. Max(active) \in active
    BY <1>1, <1>3, <2>1, MaxExists
  <2> QED
    BY <2>1, <2>2, <2>3
<1> QED
  BY <1>2, <1>3

\* What is gathered agrees with the database and the MLflow store.
LEMMA GatheredIs ==
    ASSUME PipelineInv, NEW p \in Procs
    PROVE  /\ Gathered(p).content = "report"
           /\ Gathered(p).snapshot \in DOMAIN manifest \cup {0}
           /\ want[p] = 0 => \A v \in DOMAIN manifest : v <= Gathered(p).snapshot
           /\ Gathered(p).outputs = outputs
           /\ Quotes(Gathered(p))
<1>0. /\ BuilderInv /\ runs \in Seq(Runs) /\ RunsSound /\ want[p] \in Asked \cup {0}
  BY DEF PipelineInv, ConsumersInv, PipelineTypeOK
<1>1. /\ Gathered(p).content = "report" /\ Gathered(p).outputs = outputs
      /\ Gathered(p).snapshot = IF Resolved(p) \in DOMAIN manifest THEN Resolved(p) ELSE 0
      /\ Gathered(p).run = LatestRun
      /\ Gathered(p).metrics = IF LatestRun = 0 THEN 0 ELSE runs[LatestRun].metrics
      /\ Gathered(p).finished = (LatestRun # 0 /\ runs[LatestRun].status = "finished")
  BY DEF Gathered
<1>2. /\ want[p] = 0 /\ Resolved(p) # 0 => Resolved(p) \in DOMAIN manifest
      /\ want[p] = 0 => \A v \in DOMAIN manifest : v <= Resolved(p)
  BY <1>0, ResolvedIs
<1>3. Gathered(p).snapshot \in DOMAIN manifest \cup {0}
  BY <1>1
<1>4. want[p] = 0 => Gathered(p).snapshot = Resolved(p)
  BY <1>1, <1>2
<1>5. Quotes(Gathered(p))
  <2> SUFFICES ASSUME LatestRun # 0 PROVE Quotes(Gathered(p))
    BY <1>1 DEF Quotes
  <2>1. LatestRun \in 1..Len(runs)
    BY <1>0, LatestRunIs
  <2>2. runs[LatestRun].metrics \in Nat /\ Sound(runs[LatestRun])
    <3>1. runs[LatestRun] \in Runs /\ Sound(runs[LatestRun])
      BY <1>0, <2>1 DEF RunsSound
    <3> QED
      BY <3>1, PipelineAssumption DEF Runs
  <2> DEFINE g == Gathered(p)
  <2>3. /\ g.run = LatestRun /\ g.metrics = runs[LatestRun].metrics
        /\ g.finished = (runs[LatestRun].status = "finished")
    BY <1>1
  <2>4. runs[LatestRun].status = "finished" => runs[LatestRun].metrics = NumMetrics
    BY <2>2 DEF Sound
  <2> HIDE DEF g
  <2>5. g.metrics \in 0..runs[g.run].metrics
    BY <2>2, <2>3
  <2>6. g.finished => runs[g.run].status = "finished" /\ g.metrics = NumMetrics
    BY <2>3, <2>4
  <2>7. Quotes(g)
    BY <2>1, <2>3, <2>5, <2>6 DEF Quotes
  <2> QED
    BY <2>7 DEF g
<1> QED
  BY <1>1, <1>2, <1>3, <1>4, <1>5

\* What report gathers is what the database holds, as long as it is connected.
LEMMA GatherStep ==
    ASSUME PipelineInv, NEW p \in Procs, Gather(p)
    PROVE  PipelineInv'
<1>0. BuilderInv /\ ConsumersInv
  BY DEF PipelineInv
<1>1. /\ pc \in [Procs -> AllLabels] /\ exit \in [Procs -> ExitCodes] /\ conn \in [Procs -> Modes]
      /\ starts \in Nat /\ kills \in Nat /\ dbFile \in BOOLEAN
      /\ cfg \in [Procs -> Configs \cup {None}] /\ ver \in [Procs -> Nat]
      /\ want \in [Procs -> Asked \cup {0}] /\ costs \in [Procs -> CostConfigs \cup {None}]
      /\ StoresTyped
  BY <1>0 DEF ConsumersInv, PipelineTypeOK, AllLabels, BuilderInv, BuilderTypes, StoresTyped
<1>2. /\ pc[p] = "report" /\ pc[p] \in ConsumerLabels
      /\ UNCHANGED <<builderVars, want, costs, mine, runs, outputs, report>>
  BY DEF Gather, ConsumerLabels
<1>3. CASE /\ \E code \in {"raw", "error"} : End(p, code)
           /\ kills' \in {kills, kills + 1}
           /\ UNCHANGED <<dbFile, schema, starts, exclusive, held>>
  <2>1. PICK code \in {"raw", "error"} : End(p, code)
    BY <1>3
  <2> QED
    BY <1>1, <1>2, <1>3, <2>1, EndStep DEF ExitCodes, consumerVars
<1>4. CASE /\ OpenSection(p, "ro", "truncate_report")
           /\ held' = [held EXCEPT ![p] = Gathered(p)]
           /\ UNCHANGED schema
  <2>1. /\ pc' = [pc EXCEPT ![p] = "truncate_report"] /\ conn' = [conn EXCEPT ![p] = "ro"]
        /\ CanOpen(p, "ro") /\ dbFile' = TRUE
        /\ UNCHANGED <<exit, starts, kills, exclusive>>
    BY <1>4 DEF OpenSection, Goto, boundVars
  <2>2. ConsumerMove(p)
    <3>1. "truncate_report" \in {"idle"} \cup ConsumerLabels /\ "ro" \in Modes
      BY DEF ConsumerLabels, Modes
    <3> QED
      BY <1>1, <1>2, <1>4, <2>1, <3>1 DEF ConsumerMove, builderVars, viewVars, snapshotVars
  <2>3. /\ pc'[p] = "truncate_report" /\ conn'[p] = "ro" /\ held'[p] = Gathered(p)
        /\ DOMAIN held' = Procs /\ \A q \in Procs \ {p} : held'[q] = held[q]
    BY <1>1, <1>4, <2>1 DEF StoresTyped
  <2>4. pc'[p] \notin TrainLabels \cup PersistLabels \cup LogLabels
    BY <2>3 DEF TrainLabels, PersistLabels, LogLabels
  <2>5. Gathering(p)'
    <3>1. /\ Gathered(p).content = "report"
          /\ Gathered(p).snapshot \in DOMAIN manifest \cup {0}
          /\ want[p] = 0 => \A v \in DOMAIN manifest : v <= Gathered(p).snapshot
          /\ Gathered(p).outputs = outputs
          /\ Quotes(Gathered(p))
      BY GatheredIs
    <3>2. Quotes(held[p])'
      BY <1>2, <2>3, <3>1 DEF Quotes
    <3> QED
      BY <1>2, <2>3, <3>1, <3>2 DEF Gathering, builderVars
  <2>6. Knows(p)'
    BY <2>3, <2>4, <2>5 DEF Knows, Locked, Chosen, Logging
  <2>7. /\ DOMAIN outputs' = OutputTables
        /\ \A t \in OutputTables : outputs'[t].content \in {"none", "rows"}
        /\ report'.content \in {"none", "cut", "report"}
    BY <1>1, <1>2 DEF StoresTyped
  <2> QED
    BY <1>1, <1>2, <2>2, <2>3, <2>4, <2>6, <2>7, QuietMove
<1> QED
  BY <1>3, <1>4 DEF Gather, Refused, boundVars

\* Writing the report publishes what was gathered.
LEMMA WritingStep ==
    ASSUME PipelineInv, NEW p \in Procs, TruncateReport(p) \/ WriteReport(p)
    PROVE  PipelineInv'
<1>0. BuilderInv /\ ConsumersInv
  BY DEF PipelineInv
<1>1. /\ pc \in [Procs -> AllLabels] /\ exit \in [Procs -> ExitCodes] /\ conn \in [Procs -> Modes]
      /\ starts \in Nat /\ kills \in Nat /\ dbFile \in BOOLEAN
      /\ cfg \in [Procs -> Configs \cup {None}] /\ ver \in [Procs -> Nat]
      /\ want \in [Procs -> Asked \cup {0}] /\ costs \in [Procs -> CostConfigs \cup {None}]
      /\ StoresTyped
  BY <1>0 DEF ConsumersInv, PipelineTypeOK, AllLabels, BuilderInv, BuilderTypes, StoresTyped
<1>2. /\ pc[p] \in ReportLabels /\ pc[p] \in ConsumerLabels
      /\ UNCHANGED <<dbFile, schema, builderVars, want, costs, mine, held, runs, outputs>>
  BY LabelsApart DEF TruncateReport, WriteReport, InReporting, ReportLabels, consumerLocals
<1>3. conn[p] = "ro" /\ Gathering(p)
  BY <1>0, <1>2 DEF ConsumersInv, Knows, Locked
<1>4. /\ held[p].content = "report" /\ Quotes(held[p])
  BY <1>2, <1>3 DEF Gathering
<1>5. /\ DOMAIN held' = Procs /\ DOMAIN outputs' = OutputTables
      /\ \A t \in OutputTables : outputs'[t].content \in {"none", "rows"}
  BY <1>1, <1>2 DEF StoresTyped
<1>6. CASE kills' = kills + 1 /\ End(p, "error") /\ UNCHANGED <<starts, exclusive, report>>
  BY <1>1, <1>2, <1>6, EndStep DEF ExitCodes, consumerVars
<1>7. CASE /\ report' = Truncated /\ Goto(p, "write_report")
           /\ UNCHANGED <<conn, exit, boundVars>>
  <2>1. pc'[p] = "write_report" /\ conn' = [conn EXCEPT ![p] = conn[p]]
    BY <1>1, <1>7 DEF Goto
  <2>2. ConsumerMove(p)
    <3>1. "write_report" \in ConsumerLabels /\ conn[p] \in Modes
      BY <1>1 DEF ConsumerLabels
    <3> QED
      BY <1>1, <1>2, <1>7, <2>1, <3>1 DEF ConsumerMove, Goto, boundVars, builderVars, viewVars,
                                          snapshotVars
  <2>3. Knows(p)'
    <3>1. Locked(p)' /\ Chosen(p)' /\ Logging(p)'
      BY <1>3, <1>7, <2>1 DEF Locked, Chosen, Logging, TrainLabels, PersistLabels, LogLabels
    <3>2. Quotes(held[p])'
      BY <1>2, <1>4 DEF Quotes
    <3>3. Gathering(p)'
      BY <1>2, <1>3, <3>2 DEF Gathering, builderVars
    <3> QED
      BY <3>1, <3>3 DEF Knows
  <2>4. report'.content = "cut" /\ ReportSound' /\ pc'[p] \notin LogLabels
    BY <1>7, <2>1 DEF Truncated, ReportSound, LogLabels, TrainLabels
  <2> QED
    BY <1>1, <1>2, <1>5, <2>2, <2>3, <2>4, QuietMove
<1>8. CASE report' = held[p] /\ End(p, "ok") /\ UNCHANGED boundVars
  <2>1. ConsumerMove(p)
    BY <1>1, <1>2, <1>8 DEF ConsumerMove, End, boundVars, builderVars, viewVars, snapshotVars,
                            Modes, ExitCodes
  <2>2. Knows(p)' /\ pc'[p] \notin LogLabels
    <3>1. pc'[p] = "idle"
      BY <1>1, <1>8 DEF End
    <3> QED
      BY <3>1, KnowsNothing DEF TrainLabels, PersistLabels, ReportLabels
  <2>3. report'.content = "report" /\ ReportSound'
    BY <1>2, <1>4, <1>8 DEF ReportSound, Quotes
  <2> QED
    BY <1>1, <1>2, <1>5, <2>1, <2>2, <2>3, QuietMove
<1> QED
  BY <1>6, <1>7, <1>8 DEF TruncateReport, WriteReport, InReporting

--------------------------------------------------------------------------------
(****************************************************************************)
(* The invariant and what follows from it.                                  *)
(****************************************************************************)

\* The invariant holds before the first command.
LEMMA PipelineInitInv == PipelineInit => PipelineInv
<1> SUFFICES ASSUME PipelineInit PROVE PipelineInv
  OBVIOUS
<1>1. Init /\ ConsumerInit
  BY DEF PipelineInit
<1>2. BuilderInv /\ pc = [p \in Procs |-> "idle"]
  BY <1>1, InitIInv, IInvSplit DEF Init, WorkspaceInit
<1>3. /\ runs = << >> /\ Len(runs) = 0 /\ report.content = "none"
      /\ \A t \in OutputTables : outputs[t] = Empty /\ outputs[t].content = "none"
  BY <1>1 DEF ConsumerInit, Empty
<1>4. PipelineTypeOK
  BY <1>1, <1>3 DEF PipelineTypeOK, Init, WorkspaceInit, ConsumerInit, ExitCodes, Modes
<1>5. \A p \in Procs : Knows(p)
  BY <1>2 DEF Knows, Locked, Chosen, Logging, Gathering, TrainLabels, PersistLabels, ReportLabels,
              LogLabels
<1>6. OwnRuns
  BY <1>2 DEF OwnRuns, LogLabels, TrainLabels
<1>7. RunsSound /\ OutputsSound /\ ReportSound
  BY <1>3 DEF RunsSound, OutputsSound, Backed, ReportSound
<1> QED
  BY <1>2, <1>4, <1>5, <1>6, <1>7 DEF PipelineInv, ConsumersInv

\* It survives a step that changes nothing,
LEMMA PipelineStutter == PipelineInv /\ UNCHANGED pipelineVars => PipelineInv'
<1> SUFFICES ASSUME PipelineInv, UNCHANGED pipelineVars PROVE PipelineInv'
  OBVIOUS
<1>1. [Next]_vars /\ UNCHANGED consumerVars
  BY DEF pipelineVars
<1> QED
  BY <1>1, BuilderStep

\* and every step there is.
LEMMA PipelineNextInv == PipelineInv /\ [PipelineNext]_pipelineVars => PipelineInv'
<1> SUFFICES ASSUME PipelineInv, [PipelineNext]_pipelineVars PROVE PipelineInv'
  OBVIOUS
<1>1. CASE Next /\ UNCHANGED consumerVars
  BY <1>1, BuilderStep
<1>2. ASSUME NEW p \in Procs, Train(p) PROVE PipelineInv'
  <2>1. CASE Assemble(p, "train", "ro", "start_run")
    BY <2>1, AssembleStep
  <2> QED
    BY <1>2, <2>1, StartRunStep, LogSnapshotStep, LogMetricStep, RegisterModelStep, EndRunStep,
       TrackingFailsStep DEF Train
<1>3. ASSUME NEW p \in Procs, Recommend(p) \/ Simulate(p) PROVE PipelineInv'
  <2>1. CASE Assemble(p, "recommend", "rw", "persist_recommendations")
    BY <2>1, AssembleStep DEF PersistLabels
  <2>2. CASE Assemble(p, "simulate", "rw", "persist_simulation_results")
    BY <2>2, AssembleStep DEF PersistLabels
  <2>3. CASE \/ Persist(p, "persist_recommendations", "recommendations")
             \/ Persist(p, "persist_simulation_results", "simulation_results")
    BY <2>3, PersistStep DEF PersistLabels, OutputTables
  <2> QED
    BY <1>3, <2>1, <2>2, <2>3 DEF Recommend, Simulate
<1>4. ASSUME NEW p \in Procs, Report(p) PROVE PipelineInv'
  BY <1>4, GatherStep, WritingStep DEF Report
<1>5. ASSUME NEW p \in Procs, NEW label \in {"train", "recommend", "simulate", "report"},
             StartConsumer(p, label)
      PROVE  PipelineInv'
  BY <1>5, StartConsumerStep
<1> QED
  BY <1>1, <1>2, <1>3, <1>4, <1>5, FinishStep, DeleteRunStep, PipelineStutter DEF PipelineNext, ConsumerStep

\* PipelineInv holds in every reachable state.
THEOREM PipelineInductive == PipelineSpec => []PipelineInv
BY PipelineInitInv, PipelineNextInv, PTL DEF PipelineSpec

\* Every variable of the pipeline keeps its type, for any number of commands.
THEOREM PipelineTypeCorrect == PipelineSpec => []PipelineTypeOK
<1>1. PipelineInv => PipelineTypeOK
  BY DEF PipelineInv, ConsumersInv
<1> QED
  BY <1>1, PipelineInductive, PTL

\* However trainings fail, die and interleave, a registered model belongs to a
\* run that names the snapshot it was trained on, as it was (docs/adr/011).
THEOREM ModelsReproducibleThm == PipelineSpec => []ModelsReproducible
<1>1. PipelineInv => ModelsReproducible
  BY DEF PipelineInv, ConsumersInv, RunsSound, Sound, ModelsReproducible
<1> QED
  BY <1>1, PipelineInductive, PTL

\* What a command chose by itself is a row of the manifest, crashed builds or not.
THEOREM DefaultsPublishedThm == PipelineSpec => []DefaultsPublished
<1>1. PipelineInv => DefaultsPublished
  BY DEF PipelineInv, ConsumersInv, RunsSound, Sound, OutputsSound, Backed, DefaultsPublished
<1> QED
  BY <1>1, PipelineInductive, PTL

\* The snapshot that the rows of an output table name still holds what they were
\* computed from, whatever has run, failed or died since they were persisted
\* (docs/adr/011-snapshot-data-versioning.md:33, recommender.py:217-229).
THEOREM OutputsReproducibleThm == PipelineSpec => []OutputsReproducible
<1>1. PipelineInv => OutputsReproducible
  BY DEF PipelineInv, ConsumersInv, OutputsSound, Backed, OutputsReproducible
<1> QED
  BY <1>1, PipelineInductive, PTL

\* The run a report names keeps what the report quotes, and no two trainings log
\* to one run (docs/EXPERIMENT_TRACKING.md).
THEOREM MetricsReproducibleThm == PipelineSpec => []MetricsReproducible
<1>1. ASSUME PipelineInv PROVE MetricsReproducible
  <2>1. ASSUME report.content = "report", report.run # 0
        PROVE  /\ report.metrics <= runs[report.run].metrics
               /\ report.metrics < NumMetrics \/ runs[report.run].status = "deleted"
                    => ~report.finished
    <3>1. /\ report.run \in 1..Len(runs) /\ report.metrics \in 0..runs[report.run].metrics
          /\ report.finished => /\ runs[report.run].status = "finished"
                                /\ report.metrics = NumMetrics
      BY <1>1, <2>1 DEF PipelineInv, ConsumersInv, ReportSound, Quotes
    <3>2. ~(NumMetrics < NumMetrics)
      BY PipelineAssumption
    <3> QED
      BY <3>1, <3>2
  <2>2. \A p, q \in Procs : p # q /\ {pc[p], pc[q]} \subseteq LogLabels => mine[p] # mine[q]
    BY <1>1 DEF PipelineInv, ConsumersInv, OwnRuns
  <2> QED
    BY <2>1, <2>2 DEF MetricsReproducible, LogLabels
<1> QED
  BY <1>1, PipelineInductive, PTL

--------------------------------------------------------------------------------
(****************************************************************************)
(* What one step may do to the exit codes and the report.                   *)
(****************************************************************************)

\* In each step one process moves: its command ends, or starts, or goes on without
\* an exit code; and only WriteReport follows the truncation of the report, but for
\* a crash.
CommandStep(p) ==
    /\ \A q \in Procs \ {p} : pc'[q] = pc[q] /\ exit'[q] = exit[q]
    /\ \/ pc'[p] = "idle"
       \/ exit'[p] = "none"
       \/ pc[p] # "idle" /\ exit'[p] = exit[p]
    /\ pc[p] = "write_report" => WriteReport(p) \/ exit'[p] = "killed"

\* At most one command moves in a step, and CommandStep says how.
LEMMA WhoMoves ==
    ASSUME PipelineInv, [PipelineNext]_pipelineVars
    PROVE  UNCHANGED <<pc, exit>> \/ \E p \in Procs : CommandStep(p)
<1> USE DEF CommandStep, End, Goto
<1>0. pc \in [Procs -> AllLabels] /\ exit \in [Procs -> ExitCodes]
  BY DEF PipelineInv, ConsumersInv, PipelineTypeOK, AllLabels
<1>1. CASE Next /\ UNCHANGED consumerVars
  <2>1. ASSUME NEW p \in Procs, StartBuild(p) PROVE CommandStep(p)
    BY <1>0, <2>1 DEF StartBuild, Start, Idle
  <2>2. ASSUME NEW p \in Procs, CreateRollingView(p) PROVE CommandStep(p)
    BY <1>0, <2>2 DEF CreateRollingView, RunScript, ScriptFails, Refused
  <2>3. ASSUME NEW p \in Procs, CreateStoreView(p) PROVE CommandStep(p)
    BY <1>0, <2>3 DEF CreateStoreView, RunScript, ScriptFails, Refused
  <2>4. ASSUME NEW p \in Procs, SelectVersion(p) PROVE CommandStep(p)
    BY <1>0, <2>4 DEF SelectVersion, OpenSection, Refused
  <2>5. ASSUME NEW p \in Procs, CreateTable(p) \/ InsertManifest(p) PROVE CommandStep(p)
    BY <1>0, <2>5 DEF CreateTable, InsertManifest
  <2>6. ASSUME NEW p \in Procs, InitDb(p) PROVE CommandStep(p)
    BY <1>0, <2>6 DEF InitDb, Start, Idle, ApplySchemaFile, RunScript, Refused, SchemaFiles
  <2>7. ASSUME NEW p \in Procs, KillCommand(p) PROVE CommandStep(p)
    BY <1>0, <2>7 DEF KillCommand, Kill
  <2>8. CASE Reingest
    BY <2>8 DEF Reingest, workspaceVars
  <2> QED
    BY <1>1, <2>1, <2>2, <2>3, <2>4, <2>5, <2>6, <2>7, <2>8 DEF Next, BuildStep
<1>2. ASSUME NEW p \in Procs, NEW label, NEW mode, NEW next,
             label \in {"train", "recommend", "simulate"}, Assemble(p, label, mode, next)
      PROVE  CommandStep(p)
  BY <1>0, <1>2 DEF Assemble, OpenSection, Refused, consumerVars
<1>3. ASSUME NEW p \in Procs,
             StartRun(p) \/ LogSnapshot(p) \/ LogMetric(p) \/ RegisterModel(p) \/ EndRun(p)
      PROVE  CommandStep(p)
  BY <1>0, <1>3 DEF StartRun, LogSnapshot, LogMetric, RegisterModel, EndRun, InTraining
<1>4. ASSUME NEW p \in Procs, TrackingFails(p) PROVE CommandStep(p)
  BY <1>0, <1>4 DEF TrackingFails, TrainLabels
<1>5. ASSUME NEW p \in Procs, NEW label \in PersistLabels, NEW table \in OutputTables,
             Persist(p, label, table)
      PROVE  CommandStep(p)
  BY <1>0, <1>5 DEF Persist, PersistLabels
<1>6. ASSUME NEW p \in Procs, Gather(p) \/ TruncateReport(p) PROVE CommandStep(p)
  BY <1>0, <1>6 DEF Gather, OpenSection, Refused, TruncateReport, InReporting
<1>7. ASSUME NEW p \in Procs, WriteReport(p) PROVE CommandStep(p)
  BY <1>0, <1>7 DEF WriteReport, InReporting
<1>8. ASSUME NEW p \in Procs, NEW label, StartConsumer(p, label) PROVE CommandStep(p)
  BY <1>0, <1>8 DEF StartConsumer, Start, Idle
<1>9. CASE DeleteRun \/ UNCHANGED pipelineVars
  BY <1>9 DEF DeleteRun, pipelineVars, vars, workspaceVars, consumerVars
<1>10. ASSUME NEW p \in Procs, Finish(p) PROVE CommandStep(p)
  BY <1>0, <1>10 DEF Finish
<1>11. ASSUME NEW p \in Procs, ConsumerStep(p) PROVE CommandStep(p)
  <2>1. CASE Train(p)
    BY <1>2, <1>3, <1>4, <2>1 DEF Train
  <2>2. CASE Recommend(p)
    BY <1>2, <1>5, <2>2 DEF Recommend, PersistLabels, OutputTables
  <2>3. CASE Simulate(p)
    BY <1>2, <1>5, <2>3 DEF Simulate, PersistLabels, OutputTables
  <2>4. CASE Report(p)
    BY <1>6, <1>7, <2>4 DEF Report
  <2> QED
    BY <1>11, <1>10, <2>1, <2>2, <2>3, <2>4 DEF ConsumerStep
<1> QED
  BY <1>1, <1>8, <1>9, <1>11 DEF PipelineNext

\* A command that has not ended has no exit code.
Running == \A p \in Procs : pc[p] # "idle" => exit[p] = "none"

\* No command has an exit code before it ends.
LEMMA RunningInductive == PipelineSpec => []Running
<1>1. PipelineInit => Running
  BY DEF PipelineInit, Init, WorkspaceInit, Running
<1>2. ASSUME PipelineInv, Running, [PipelineNext]_pipelineVars PROVE Running'
  <2>1. UNCHANGED <<pc, exit>> \/ \E p \in Procs : CommandStep(p)
    BY <1>2, WhoMoves
  <2>2. ASSUME NEW p \in Procs, CommandStep(p) PROVE Running'
    BY <1>2, <2>2 DEF Running, CommandStep
  <2> QED
    BY <1>2, <2>1, <2>2 DEF Running
<1> QED
  BY <1>1, <1>2, PipelineInductive, PTL DEF PipelineSpec

\* The report on disk agrees with the database at the moment it was written: the
\* connection report holds while it renders keeps every writer out
\* (cli.py:261-264).
THEOREM ReportCurrentThm == PipelineSpec => ReportCurrent
<1> DEFINE Current ==
      \A p \in Procs :
          (pc[p] = "write_report" /\ exit'[p] = "ok") =>
              /\ report'.snapshot \in DOMAIN manifest \cup {0}
              /\ want[p] = 0 => \A v \in DOMAIN manifest : v <= report'.snapshot
              /\ report'.outputs = outputs
<1>1. ASSUME PipelineInv, Running, [PipelineNext]_pipelineVars PROVE [Current]_pipelineVars
  <2> SUFFICES ASSUME NEW p \in Procs, pc[p] = "write_report", exit'[p] = "ok"
               PROVE  /\ report'.snapshot \in DOMAIN manifest \cup {0}
                      /\ want[p] = 0 => \A v \in DOMAIN manifest : v <= report'.snapshot
                      /\ report'.outputs = outputs
    OBVIOUS
  <2>1. exit[p] = "none"
    BY <1>1 DEF Running
  <2>2. PICK q \in Procs : CommandStep(q)
    BY <1>1, <2>1, WhoMoves
  <2>3. q = p
    BY <2>1, <2>2 DEF CommandStep
  <2>4. WriteReport(p)
    BY <2>2, <2>3 DEF CommandStep
  <2>5. Gathering(p)
    BY <1>1 DEF PipelineInv, ConsumersInv, Knows
  <2> QED
    BY <2>4, <2>5 DEF WriteReport, Gathering, ReportLabels
<1> QED
  BY <1>1, PipelineInductive, RunningInductive, PTL DEF PipelineSpec, ReportCurrent
--------------------------------------------------------------------------------
(****************************************************************************)
(* The promises of the builder, kept beside the consumers.                  *)
(****************************************************************************)

\* A consumer's step leaves the snapshots, the views and every build alone, and with
\* one command at a time it is the step of the only one.
Leaves(p) ==
    /\ UNCHANGED <<snapshotVars, rollingView, exclusive>>
    /\ pc[p] \notin BuildLabels /\ pc'[p] \notin BuildLabels
    /\ \A q \in Procs \ {p} : pc'[q] = pc[q]
    /\ exclusive /\ Idle(p) => \A q \in Procs : Idle(q)

\* Every step is one of the builder's world, or a consumer's, or touches neither the
\* snapshots nor any command.
LEMMA StepsApart ==
    ASSUME pc \in [Procs -> AllLabels], [PipelineNext]_pipelineVars
    PROVE  [Next]_vars \/ \E p \in Procs : Leaves(p)
<1> USE DEF Leaves, Idle, End, Goto, BuildLabels, viewVars, snapshotVars, builderVars, boundVars
<1>1. ASSUME NEW p \in Procs, NEW label, NEW mode, NEW next,
             label \in {"train", "recommend", "simulate"},
             next \in {"start_run"} \cup PersistLabels, Assemble(p, label, mode, next)
      PROVE  Leaves(p)
  BY <1>1 DEF Assemble, OpenSection, Refused, PersistLabels
<1>2. ASSUME NEW p \in Procs,
             StartRun(p) \/ LogSnapshot(p) \/ LogMetric(p) \/ RegisterModel(p) \/ EndRun(p)
      PROVE  Leaves(p)
  <2>1. CASE StartRun(p)
    BY <2>1 DEF StartRun, InTraining
  <2>2. CASE LogSnapshot(p)
    BY <2>2 DEF LogSnapshot, InTraining
  <2>3. CASE LogMetric(p)
    BY <2>3 DEF LogMetric, InTraining
  <2>4. CASE RegisterModel(p)
    BY <2>4 DEF RegisterModel, InTraining
  <2>5. CASE EndRun(p)
    BY <2>5 DEF EndRun, InTraining
  <2> QED
    BY <1>2, <2>1, <2>2, <2>3, <2>4, <2>5
<1>3. ASSUME NEW p \in Procs, TrackingFails(p) PROVE Leaves(p)
  BY <1>3 DEF TrackingFails, TrainLabels
<1>4. ASSUME NEW p \in Procs, NEW label \in PersistLabels, NEW table, Persist(p, label, table)
      PROVE  Leaves(p)
  BY <1>4 DEF Persist, PersistLabels
<1>5. ASSUME NEW p \in Procs, Finish(p) PROVE Leaves(p)
  BY <1>5 DEF Finish
<1>6. ASSUME NEW p \in Procs, Gather(p) \/ TruncateReport(p) \/ WriteReport(p) PROVE Leaves(p)
  BY <1>6 DEF Gather, OpenSection, Refused, TruncateReport, WriteReport, InReporting
<1>7. ASSUME NEW p \in Procs, NEW label \in {"train", "recommend", "simulate", "report"},
             StartConsumer(p, label)
      PROVE  Leaves(p)
  BY <1>7 DEF StartConsumer, Start, Idle
<1>8. CASE DeleteRun \/ UNCHANGED pipelineVars
  BY <1>8 DEF DeleteRun, pipelineVars
<1>9. ASSUME NEW p \in Procs, ConsumerStep(p) PROVE Leaves(p)
  <2>1. CASE Train(p)
    BY <1>1, <1>2, <1>3, <2>1 DEF Train
  <2>2. CASE Recommend(p)
    BY <1>1, <1>4, <2>2 DEF Recommend, PersistLabels
  <2>3. CASE Simulate(p)
    BY <1>1, <1>4, <2>3 DEF Simulate, PersistLabels
  <2>4. CASE Report(p)
    BY <1>6, <2>4 DEF Report
  <2> QED
    BY <1>9, <1>5, <2>1, <2>2, <2>3, <2>4 DEF ConsumerStep
<1> QED
  BY <1>7, <1>8, <1>9 DEF PipelineNext

\* However many trainings, recommendations, replays and reports run beside the builds,
\* versions are issued without a gap and at most one table has no manifest row.
THEOREM PipelineOneOrphan == PipelineSpec => []AtMostOneOrphan
<1>1. PipelineInv => AtMostOneOrphan
  BY NumberedMeansOneOrphan DEF PipelineInv, BuilderInv
<1> QED
  BY <1>1, PipelineInductive, PTL

\* No command of the pipeline replaces a snapshot table or rewrites a manifest row.
THEOREM PipelineImmutable == PipelineSpec => SnapshotsImmutable
<1>1. ASSUME PipelineInv, [PipelineNext]_pipelineVars PROVE NothingReplaced
  <2>1. pc \in [Procs -> AllLabels] /\ BuilderInv
    BY <1>1 DEF PipelineInv, ConsumersInv, PipelineTypeOK, AllLabels
  <2>2. CASE [Next]_vars
    BY <2>1, <2>2, NothingReplacedStep
  <2>3. CASE UNCHANGED snapshotVars
    BY <2>3 DEF NothingReplaced, snapshotVars
  <2> QED
    BY <1>1, <2>1, <2>2, <2>3, StepsApart DEF Leaves
<1> QED
  BY <1>1, PipelineInductive, PTL DEF PipelineSpec, SnapshotsImmutable, NothingReplaced

\* The whole pipeline, not the builds alone, implements the append-only registry: what
\* the manifest shows a reader is published version by version and never changed.
THEOREM PipelineRefinesRegistry == PipelineSpec => RefinesRegistry
<1>1. PipelineInit => Registry!RegistryInit
  BY DEF PipelineInit, Init, BuilderInit, Registry!RegistryInit, Registry!Published
<1>2. ASSUME PipelineInv, [PipelineNext]_pipelineVars
      PROVE  [Registry!Publish]_([v \in DOMAIN manifest |-> tables[v]])
  <2>1. pc \in [Procs -> AllLabels] /\ BuilderInv
    BY <1>2 DEF PipelineInv, ConsumersInv, PipelineTypeOK, AllLabels
  <2>2. CASE [Next]_vars
    BY <2>1, <2>2, RegistryStep
  <2>3. CASE UNCHANGED snapshotVars
    BY <2>3 DEF snapshotVars
  <2> QED
    BY <1>2, <2>1, <2>2, <2>3, StepsApart DEF Leaves
<1> QED
  BY <1>1, <1>2, PipelineInductive, PTL
     DEF PipelineSpec, RefinesRegistry, Registry!RegistrySpec

\* A build that died between CREATE TABLE and INSERT blocks the pipeline for good: no
\* other command repairs the numbering (features/snapshots.py:110-139).
THEOREM PipelineWedgeIsPermanent == PipelineSpec => WedgeIsPermanent
<1> DEFINE Kept == Wedged => /\ Wedged'
                             /\ UNCHANGED snapshotVars
                             /\ \A p \in Procs :
                                    pc[p] \in BuildLabels /\ Idle(p)' => exit'[p] # "ok"
<1>1. ASSUME PipelineInv, [PipelineNext]_pipelineVars PROVE [Kept]_vars
  <2>1. pc \in [Procs -> AllLabels] /\ BuilderInv
    BY <1>1 DEF PipelineInv, ConsumersInv, PipelineTypeOK, AllLabels
  <2>2. CASE [Next]_vars
    BY <2>1, <2>2, WedgedStep DEF NoSuccess
  <2>3. ASSUME NEW p \in Procs, Leaves(p) PROVE Kept
    <3> SUFFICES ASSUME Wedged
                 PROVE  /\ Wedged' /\ UNCHANGED snapshotVars
                        /\ \A q \in Procs :
                              pc[q] \in BuildLabels /\ Idle(q)' => exit'[q] # "ok"
      OBVIOUS
    <3>1. \A q \in Procs : pc[q] \in BuildLabels => pc'[q] = pc[q]
      BY <2>3 DEF Leaves
    <3>2. \A q \in Procs : pc'[q] = "insert_manifest" => pc[q] = "insert_manifest"
      BY <2>3 DEF Leaves, BuildLabels
    <3>3. UNCHANGED snapshotVars
      BY <2>3 DEF Leaves
    <3>4. Wedged'
      BY <3>2, <3>3 DEF Wedged, snapshotVars
    <3> QED
      BY <3>1, <3>3, <3>4 DEF Idle, BuildLabels
  <2> QED
    BY <1>1, <2>1, <2>2, <2>3, StepsApart
<1> QED
  BY <1>1, PipelineInductive, PTL DEF PipelineSpec, WedgeIsPermanent

\* One command at a time, a manifest row names the config and the data of its table
\* whatever trainings, recommendations, replays and reports came between the builds.
THEOREM PipelineLineageExact == PipelineSpec => []LineageExact
<1> DEFINE Inv == exclusive => AloneWithViews
<1>1. PipelineInit => Inv
  BY DEF PipelineInit, Init, WorkspaceInit, BuilderInit, AloneWithViews, Lineage, Idle, BuildLabels
<1>2. ASSUME PipelineInv, Inv, [PipelineNext]_pipelineVars PROVE Inv'
  <2>1. pc \in [Procs -> AllLabels] /\ BuilderInv
    BY <1>2 DEF PipelineInv, ConsumersInv, PipelineTypeOK, AllLabels
  <2>2. CASE [Next]_vars
    BY <1>2, <2>1, <2>2, AloneStep, ExclusiveStays
  <2>3. ASSUME NEW p \in Procs, Leaves(p), exclusive PROVE AloneWithViews'
    <3>1. /\ UNCHANGED <<tables, manifest, rollingView>>
          /\ \A q \in Procs \ {p} : pc'[q] = pc[q] /\ Idle(q)
          /\ pc'[p] \notin BuildLabels
      BY <1>2, <2>3 DEF Leaves, AloneWithViews, snapshotVars
    <3>2. \A q \in Procs : pc'[q] \notin BuildLabels
      BY <3>1 DEF Idle, BuildLabels
    <3> QED
      BY <1>2, <2>3, <3>1, <3>2 DEF AloneWithViews, Lineage, Idle, BuildLabels
  <2> QED
    BY <1>2, <2>1, <2>2, <2>3, StepsApart DEF Leaves
<1>3. Inv => LineageExact
  BY DEF AloneWithViews, LineageExact
<1> HIDE DEF Inv
<1> QED
  BY <1>1, <1>2, <1>3, PipelineInductive, PTL DEF PipelineSpec
================================================================================
