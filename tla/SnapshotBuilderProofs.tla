------------------------- MODULE SnapshotBuilderProofs -------------------------
(****************************************************************************)
(* Proofs about SnapshotBuilder, for every set of processes, every set of   *)
(* configs and data, and any number of commands and crashes.                *)
(****************************************************************************)
EXTENDS SnapshotBuilder, FiniteSetTheorems, TLAPS

\* Whoever holds the file read-write holds it alone.
WriterAlone ==
    \A p, q \in Procs : p # q /\ conn[p] = "rw" => conn[q] = "none"

\* The statements of the last connection run with the file held read-write.
SectionLocked ==
    \A p \in Procs : pc[p] \in {"create_table", "insert_manifest"} => conn[p] = "rw"

\* A build has loaded a config, and past its first statement the view exists.
BuildBound ==
    \A p \in Procs :
        /\ pc[p] \in BuildLabels => cfg[p] \in Configs
        /\ pc[p] \in BuildLabels \ {"rolling_view"} => rollingView \in Configs

\* n versions are published; a build inside its last connection has selected
\* the next one, and has created its table once it is about to insert the row.
Numbered(n) ==
    /\ DOMAIN manifest = 1..n
    /\ DOMAIN tables = 1..n \/ DOMAIN tables = 1..(n + 1)
    /\ \A p \in Procs : pc[p] = "create_table" => ver[p] = n + 1
    /\ \A p \in Procs :
          pc[p] = "insert_manifest" => ver[p] = n + 1 /\ DOMAIN tables = 1..(n + 1)

Numbering == \E n \in Nat : Numbered(n)

\* The types, but for the labels: processes may be inside other commands too.
BuilderTypes ==
    /\ conn \in [Procs -> Modes]
    /\ exit \in [Procs -> ExitCodes]
    /\ dbFile \in BOOLEAN
    /\ schema \subseteq SchemaNames
    /\ starts \in Nat /\ kills \in Nat /\ exclusive \in BOOLEAN
    /\ cfg \in [Procs -> Configs \cup {None}]
    /\ ver \in [Procs -> Nat]
    /\ rollingView \in Configs \cup {None}
    /\ storeView \in Configs \cup {None}
    /\ base \in Datasets
    /\ DOMAIN tables \subseteq Nat /\ \A v \in DOMAIN tables : tables[v] \in Snapshots
    /\ DOMAIN manifest \subseteq Nat /\ \A v \in DOMAIN manifest : manifest[v] \in Snapshots

\* What the steps of a build keep, whatever other commands run beside it.
BuilderInv == BuilderTypes /\ WriterAlone /\ SectionLocked /\ BuildBound /\ Numbering

\* The inductive invariant.
IInv == TypeOK /\ WriterAlone /\ SectionLocked /\ BuildBound /\ Numbering

--------------------------------------------------------------------------------
\* After versions 1..n the next one is n + 1.
LEMMA NextAfterInterval == ASSUME NEW n \in Nat PROVE NextVersion(1..n) = n + 1
  <1>1. CASE n = 0
    BY <1>1 DEF NextVersion
  <1>2. CASE n # 0
    <2>1. n \in 1..n /\ \A y \in 1..n : n >= y
      BY <1>2
    <2>2. \A x \in 1..n : (\A y \in 1..n : x >= y) => x = n
      BY <2>1
    <2>3. Max(1..n) = n
      BY <2>1, <2>2 DEF Max
    <2> QED
      BY <1>2, <2>1, <2>3 DEF NextVersion
  <1> QED
    BY <1>1, <1>2

\* The invariant holds before the first command.
LEMMA InitIInv == Init => IInv
  <1> SUFFICES ASSUME Init PROVE IInv
    OBVIOUS
  <1> USE DEF Init, WorkspaceInit, BuilderInit
  <1>1. DOMAIN manifest = {} /\ DOMAIN tables = {}
    OBVIOUS
  <1>2. TypeOK
    BY <1>1 DEF TypeOK, Modes, ExitCodes
  <1>3. WriterAlone /\ SectionLocked /\ BuildBound
    BY DEF WriterAlone, SectionLocked, BuildBound, BuildLabels
  <1>4. Numbered(0)
    BY <1>1 DEF Numbered
  <1> QED
    BY <1>2, <1>3, <1>4 DEF IInv, Numbering

\* A step of p that touches no snapshot, view or connection but its own, and
\* does not enter the last connection, keeps the part of BuilderInv about the lock.
LEMMA StartStep ==
  ASSUME NEW Labels, pc \in [Procs -> Labels], BuilderInv, NEW p \in Procs,
         StartBuild(p)
  PROVE  BuilderInv'
  <1> USE DEF StartBuild, Start, Goto, Idle
  <1>1. BuilderTypes'
    BY DEF BuilderInv, BuilderTypes, BuildLabels, ExitCodes, viewVars, snapshotVars
  <1>2. WriterAlone' /\ SectionLocked'
    BY DEF BuilderInv, BuilderTypes, WriterAlone, SectionLocked
  <1>3. BuildBound'
    BY DEF BuilderInv, BuilderTypes, BuildBound, BuildLabels, viewVars
  <1>4. Numbering'
    BY DEF BuilderInv, BuilderTypes, Numbering, Numbered, snapshotVars
  <1> QED
    BY <1>1, <1>2, <1>3, <1>4 DEF BuilderInv

\* Replacing the rolling_features view keeps BuilderInv.
LEMMA RollingViewStep ==
  ASSUME NEW Labels, pc \in [Procs -> Labels], BuilderInv, NEW p \in Procs,
         CreateRollingView(p)
  PROVE  BuilderInv'
  <1> USE DEF CreateRollingView, RunScript, ScriptFails, Refused, End, Goto
  <1>0. cfg[p] \in Configs /\ (rollingView' = rollingView \/ rollingView' = cfg[p])
    BY DEF BuilderInv, BuildBound, BuildLabels
  <1>1. BuilderTypes'
    BY <1>0 DEF BuilderInv, BuilderTypes, BuildLabels, ExitCodes, Modes, localVars, snapshotVars, boundVars
  <1>2. WriterAlone' /\ SectionLocked'
    BY DEF BuilderInv, BuilderTypes, WriterAlone, SectionLocked, Modes
  <1>3. BuildBound'
    BY <1>0 DEF BuilderInv, BuilderTypes, BuildBound, BuildLabels, localVars
  <1>4. Numbering'
    BY DEF BuilderInv, BuilderTypes, Numbering, Numbered, snapshotVars, localVars
  <1> QED
    BY <1>1, <1>2, <1>3, <1>4 DEF BuilderInv

\* Replacing the feature_store view keeps BuilderInv.
LEMMA StoreViewStep ==
  ASSUME NEW Labels, pc \in [Procs -> Labels], BuilderInv, NEW p \in Procs,
         CreateStoreView(p)
  PROVE  BuilderInv'
  <1> USE DEF CreateStoreView, RunScript, ScriptFails, Refused, End, Goto
  <1>1. BuilderTypes'
    BY DEF BuilderInv, BuilderTypes, BuildLabels, ExitCodes, Modes, localVars, snapshotVars, boundVars
  <1>2. WriterAlone' /\ SectionLocked'
    BY DEF BuilderInv, BuilderTypes, WriterAlone, SectionLocked, Modes
  <1>3. BuildBound'
    BY DEF BuilderInv, BuilderTypes, BuildBound, BuildLabels, localVars
  <1>4. Numbering'
    BY DEF BuilderInv, BuilderTypes, Numbering, Numbered, snapshotVars, localVars
  <1> QED
    BY <1>1, <1>2, <1>3, <1>4 DEF BuilderInv

\* Selecting a version keeps BuilderInv: the section is entered alone.
LEMMA SelectStep ==
  ASSUME NEW Labels, pc \in [Procs -> Labels], BuilderInv, NEW p \in Procs,
         SelectVersion(p)
  PROVE  BuilderInv'
  <1> USE DEF SelectVersion, OpenSection, CanOpen, Refused, End, Goto
  <1>0. PICK n \in Nat : Numbered(n)
    BY DEF BuilderInv, Numbering
  <1>n. NextVersion(DOMAIN manifest) = n + 1
    BY <1>0, NextAfterInterval DEF Numbered
  <1>1. BuilderTypes'
    <2>1. ver' \in [Procs -> Nat]
      BY <1>n DEF BuilderInv, BuilderTypes
    <2>2. /\ conn' \in [Procs -> Modes]
          /\ exit' \in [Procs -> ExitCodes]
          /\ dbFile' \in BOOLEAN
      BY DEF BuilderInv, BuilderTypes, BuildLabels, ExitCodes, Modes
    <2> QED
      BY <2>1, <2>2 DEF BuilderInv, BuilderTypes, viewVars, snapshotVars, boundVars
  <1>2. WriterAlone' /\ SectionLocked'
    BY DEF BuilderInv, BuilderTypes, WriterAlone, SectionLocked, Modes
  <1>3. BuildBound'
    BY DEF BuilderInv, BuilderTypes, BuildBound, BuildLabels, viewVars
  <1>4. Numbered(n)'
    BY <1>0, <1>n DEF BuilderInv, BuilderTypes, Numbered, snapshotVars
  <1> QED
    BY <1>1, <1>2, <1>3, <1>4 DEF BuilderInv, Numbering

\* Creating the snapshot table keeps BuilderInv: it is one ahead of the manifest.
LEMMA CreateStep ==
  ASSUME NEW Labels, pc \in [Procs -> Labels], BuilderInv, NEW p \in Procs,
         CreateTable(p)
  PROVE  BuilderInv'
  <1> USE DEF CreateTable, End, Goto
  <1>0. PICK n \in Nat : Numbered(n)
    BY DEF BuilderInv, Numbering
  <1>p. ver[p] = n + 1 /\ conn[p] = "rw" /\ rollingView \in Configs
    BY <1>0 DEF BuilderInv, Numbered, SectionLocked, BuildBound, BuildLabels
  <1>q. \A q \in Procs : q # p => pc[q] \notin {"create_table", "insert_manifest"}
    BY <1>p DEF BuilderInv, WriterAlone, SectionLocked
  <1>t. \/ tables' = tables /\ pc' = [pc EXCEPT ![p] = "idle"]
        \/ /\ DOMAIN tables = 1..n
           /\ DOMAIN tables' = 1..(n + 1)
           /\ tables'[n + 1] = [config |-> rollingView, data |-> base]
           /\ \A v \in 1..n : tables'[v] = tables[v]
    <2>1. CASE CanCreate(ver[p])
      <3>1. DOMAIN tables = 1..n
        BY <1>0, <1>p, <2>1 DEF Numbered, CanCreate
      <3>2. tables' = Put(tables, n + 1, [config |-> rollingView, data |-> base])
        BY <2>1, <1>p
      <3>3. DOMAIN tables' = 1..(n + 1)
        BY <3>1, <3>2 DEF Put
      <3>4. /\ tables'[n + 1] = [config |-> rollingView, data |-> base]
            /\ \A v \in 1..n : tables'[v] = tables[v]
        BY <3>1, <3>2 DEF Put
      <3> QED
        BY <3>1, <3>3, <3>4
    <2> QED
      BY <2>1
  <1>1. BuilderTypes'
    <2>1. DOMAIN tables' \subseteq Nat /\ \A v \in DOMAIN tables' : tables'[v] \in Snapshots
      <3>1. [config |-> rollingView, data |-> base] \in Snapshots
        BY <1>p DEF BuilderInv, BuilderTypes, Snapshots
      <3>2. \A v \in 1..(n + 1) : v \in 1..n \/ v = n + 1
        OBVIOUS
      <3>3. DOMAIN tables \subseteq Nat /\ \A v \in DOMAIN tables : tables[v] \in Snapshots
        BY DEF BuilderInv, BuilderTypes
      <3>4. 1..(n + 1) \subseteq Nat
        OBVIOUS
      <3> HIDE DEF CreateTable, End, Goto
      <3> QED
        BY <1>t, <3>1, <3>2, <3>3, <3>4
    <2>2. /\ conn' \in [Procs -> Modes]
          /\ exit' \in [Procs -> ExitCodes]
      BY DEF BuilderInv, BuilderTypes, BuildLabels, ExitCodes, Modes
    <2> QED
      BY <2>1, <2>2 DEF BuilderInv, BuilderTypes, viewVars, localVars, boundVars
  <1>2. WriterAlone' /\ SectionLocked'
    BY <1>p DEF BuilderInv, BuilderTypes, WriterAlone, SectionLocked, Modes
  <1>3. BuildBound'
    BY DEF BuilderInv, BuilderTypes, BuildBound, BuildLabels, viewVars, localVars
  <1>4. Numbered(n)'
    <2>1. DOMAIN manifest' = 1..n /\ ver' = ver
      BY <1>0 DEF Numbered, localVars
    <2>2. \A q \in Procs : q # p => pc'[q] \notin {"create_table", "insert_manifest"}
      BY <1>q DEF BuilderInv, BuilderTypes
    <2>3. \/ pc'[p] = "idle"
          \/ pc'[p] = "insert_manifest" /\ DOMAIN tables' = 1..(n + 1)
      BY <1>t DEF BuilderInv, BuilderTypes
    <2>4. DOMAIN tables' = 1..n \/ DOMAIN tables' = 1..(n + 1)
      BY <1>0, <1>t DEF Numbered
    <2> QED
      BY <2>1, <2>2, <2>3, <2>4, <1>p DEF Numbered
  <1> QED
    BY <1>1, <1>2, <1>3, <1>4 DEF BuilderInv, Numbering

\* Inserting the manifest row keeps BuilderInv: it closes the gap.
LEMMA InsertStep ==
  ASSUME NEW Labels, pc \in [Procs -> Labels], BuilderInv, NEW p \in Procs,
         InsertManifest(p)
  PROVE  BuilderInv'
  <1> USE DEF InsertManifest, End
  <1>0. PICK n \in Nat : Numbered(n)
    BY DEF BuilderInv, Numbering
  <1>p. /\ ver[p] = n + 1 /\ DOMAIN tables = 1..(n + 1)
        /\ conn[p] = "rw" /\ cfg[p] \in Configs
    BY <1>0 DEF BuilderInv, Numbered, SectionLocked, BuildBound, BuildLabels
  <1>q. \A q \in Procs : q # p => pc[q] \notin {"create_table", "insert_manifest"}
    BY <1>p DEF BuilderInv, WriterAlone, SectionLocked
  <1>m. /\ DOMAIN manifest' = 1..(n + 1)
        /\ manifest'[n + 1] = [config |-> cfg[p], data |-> tables[n + 1].data]
        /\ \A v \in 1..n : manifest'[v] = manifest[v]
    BY <1>0, <1>p DEF Numbered, Put
  <1>1. BuilderTypes'
    <2>1. DOMAIN manifest' \subseteq Nat /\ \A v \in DOMAIN manifest' : manifest'[v] \in Snapshots
      <3>1. tables[n + 1].data \in Datasets
        BY <1>p DEF BuilderInv, BuilderTypes, Snapshots
      <3> QED
        <4>1. manifest'[n + 1] \in Snapshots
          BY <3>1, <1>m, <1>p DEF Snapshots
        <4>2. \A v \in 1..n : manifest'[v] \in Snapshots
          BY <1>0, <1>m DEF BuilderInv, BuilderTypes, Numbered
        <4>3. \A v \in 1..(n + 1) : v \in 1..n \/ v = n + 1
          OBVIOUS
        <4> QED
          BY <4>1, <4>2, <4>3, <1>m
    <2>2. /\ conn' \in [Procs -> Modes]
          /\ exit' \in [Procs -> ExitCodes]
      BY DEF BuilderInv, BuilderTypes, BuildLabels, ExitCodes, Modes
    <2> QED
      BY <2>1, <2>2 DEF BuilderInv, BuilderTypes, viewVars, localVars, boundVars
  <1>2. WriterAlone' /\ SectionLocked'
    BY <1>p DEF BuilderInv, BuilderTypes, WriterAlone, SectionLocked, Modes
  <1>3. BuildBound'
    BY DEF BuilderInv, BuilderTypes, BuildBound, BuildLabels, viewVars, localVars
  <1>4. Numbered(n + 1)'
    BY <1>p, <1>q, <1>m DEF BuilderInv, BuilderTypes, Numbered, localVars
  <1>5. Numbering'
    BY <1>4 DEF Numbering
  <1> QED
    BY <1>1, <1>2, <1>3, <1>5 DEF BuilderInv

\* init-db, a crash and an ingestion by others leave every snapshot alone and
\* never enter the last connection of a build.
LEMMA OtherSteps ==
  ASSUME NEW Labels, pc \in [Procs -> Labels], BuilderInv,
         (\E p \in Procs : InitDb(p) \/ KillCommand(p)) \/ Reingest
  PROVE  BuilderInv' /\ UNCHANGED snapshotVars
  <1>1. ASSUME NEW p \in Procs, InitDb(p) \/ KillCommand(p)
        PROVE  BuilderInv' /\ UNCHANGED snapshotVars
    <2> USE DEF InitDb, KillCommand, Kill, Start, ApplySchemaFile, RunScript, Refused,
                End, Goto, Idle, builderVars, boundVars
    <2>0. UNCHANGED <<cfg, ver, rollingView, storeView, base, tables, manifest>>
      BY <1>1
    <2>1. BuilderTypes'
      <3>1. schema' \subseteq SchemaNames /\ dbFile' \in BOOLEAN
        BY <1>1 DEF BuilderInv, BuilderTypes, SchemaNames
      <3>2. /\ conn' \in [Procs -> Modes]
            /\ exit' \in [Procs -> ExitCodes]
            /\ starts' \in Nat /\ kills' \in Nat
        BY <1>1 DEF BuilderInv, BuilderTypes, SchemaNames, SchemaFiles, ExitCodes, Modes
      <3>3. exclusive' = exclusive
        BY <1>1
      <3>4. BuilderTypes
        BY DEF BuilderInv
      <3> HIDE DEF InitDb, KillCommand, Kill, Start, ApplySchemaFile, RunScript, Refused,
                   End, Goto, Idle, builderVars, boundVars
      <3> QED
        BY <2>0, <3>1, <3>2, <3>3, <3>4 DEF BuilderTypes
    <2>2. /\ \A q \in Procs : pc'[q] = pc[q] \/ pc'[q] \in {"idle"} \cup SchemaNames
          /\ \A q \in Procs : q # p => pc'[q] = pc[q] /\ conn'[q] = conn[q]
          /\ conn'[p] \in {"none", conn[p]}
          /\ pc'[p] \in {"idle"} \cup SchemaNames
      BY <1>1 DEF BuilderInv, BuilderTypes, SchemaNames, SchemaFiles
    <2>3. SchemaNames \cap BuildLabels = {} /\ "idle" \notin BuildLabels
      BY DEF SchemaNames, SchemaFiles, BuildLabels
    <2>4. WriterAlone' /\ SectionLocked'
      BY <2>2, <2>3 DEF BuilderInv, WriterAlone, SectionLocked, BuildLabels
    <2>5. BuildBound'
      BY <2>0, <2>2, <2>3 DEF BuilderInv, BuildBound
    <2>6. Numbering'
      BY <2>0, <2>2, <2>3 DEF BuilderInv, Numbering, Numbered, BuildLabels
    <2> QED
      BY <2>0, <2>1, <2>4, <2>5, <2>6 DEF BuilderInv, snapshotVars
  <1>2. ASSUME Reingest PROVE BuilderInv' /\ UNCHANGED snapshotVars
    BY <1>2 DEF Reingest, BuilderInv, BuilderTypes, WriterAlone, SectionLocked, BuildBound, Numbering,
                Numbered, workspaceVars, localVars, viewVars, snapshotVars
  <1> QED
    BY <1>1, <1>2

\* A step that changes nothing keeps BuilderInv.
LEMMA StutterStep == BuilderInv /\ UNCHANGED vars => BuilderInv'
  BY DEF BuilderInv, BuilderTypes, WriterAlone, SectionLocked, BuildBound, Numbering, Numbered, vars,
         workspaceVars, builderVars

\* Every step keeps BuilderInv, whatever labels other commands have.
LEMMA BuilderNext ==
  ASSUME NEW Labels, pc \in [Procs -> Labels], BuilderInv, [Next]_vars
  PROVE  BuilderInv'
  <1>1. ASSUME NEW p \in Procs, StartBuild(p) \/ BuildStep(p) PROVE BuilderInv'
    BY <1>1, StartStep, RollingViewStep, StoreViewStep, SelectStep, CreateStep, InsertStep
       DEF BuildStep
  <1>2. CASE (\E p \in Procs : InitDb(p) \/ KillCommand(p)) \/ Reingest
    BY <1>2, OtherSteps
  <1> QED
    BY <1>1, <1>2, StutterStep DEF Next

\* A step of a build, init-db, a crash or an ingestion moves at most one process,
\* to a label of a build or of init-db, and leaves the others what they hold.
Moved(p) ==
    /\ \E l \in {"idle"} \cup SchemaNames \cup BuildLabels : pc' = [pc EXCEPT ![p] = l]
    /\ \A q \in Procs \ {p} : conn'[q] = conn[q] /\ ver'[q] = ver[q]

\* At most one process moves in a step.
LEMMA MoveStep ==
  ASSUME NEW Labels, pc \in [Procs -> Labels], BuilderInv, [Next]_vars
  PROVE  UNCHANGED <<pc, conn, ver>> \/ \E p \in Procs : Moved(p)
  <1> USE DEF Goto, End, Refused, RunScript, Start, Moved
  <1>0. conn \in [Procs -> Modes] /\ ver \in [Procs -> Nat]
    BY DEF BuilderInv, BuilderTypes
  <1>1. ASSUME NEW p \in Procs, StartBuild(p) \/ InitDb(p) \/ KillCommand(p) PROVE Moved(p)
    <2>1. ver' = ver
      BY <1>1 DEF StartBuild, InitDb, KillCommand, builderVars
    <2>2. /\ \E l \in {"idle"} \cup SchemaNames \cup BuildLabels : pc' = [pc EXCEPT ![p] = l]
          /\ \A q \in Procs \ {p} : conn'[q] = conn[q]
      BY <1>0, <1>1 DEF StartBuild, InitDb, ApplySchemaFile, KillCommand, Kill, BuildLabels,
                        SchemaNames, SchemaFiles
    <2> QED
      BY <2>1, <2>2
  <1>2. ASSUME NEW p \in Procs, CreateRollingView(p) \/ CreateStoreView(p) PROVE Moved(p)
    BY <1>0, <1>2 DEF CreateRollingView, ScriptFails, CreateStoreView, BuildLabels, localVars
  <1>3. ASSUME NEW p \in Procs, SelectVersion(p) PROVE Moved(p)
    BY <1>0, <1>3 DEF SelectVersion, OpenSection, BuildLabels
  <1>4. ASSUME NEW p \in Procs, CreateTable(p) \/ InsertManifest(p) PROVE Moved(p)
    BY <1>0, <1>4 DEF CreateTable, InsertManifest, BuildLabels, localVars
  <1>5. CASE Reingest \/ UNCHANGED vars
    BY <1>5 DEF Reingest, vars, workspaceVars, builderVars, localVars
  <1> QED
    BY <1>1, <1>2, <1>3, <1>4, <1>5 DEF Next, BuildStep

\* IInv is BuilderInv and the labels of a build.
LEMMA IInvSplit ==
  IInv => /\ BuilderInv
          /\ pc \in [Procs -> {"idle"} \cup SchemaNames \cup BuildLabels]
  BY DEF IInv, TypeOK, BuilderInv, BuilderTypes

\* Every step of a build, init-db, a crash and an ingestion keep the invariant.
LEMMA NextIInv == IInv /\ [Next]_vars => IInv'
  <1> SUFFICES ASSUME IInv, [Next]_vars PROVE IInv'
    OBVIOUS
  <1> DEFINE Labels == {"idle"} \cup SchemaNames \cup BuildLabels
  <1>1. pc \in [Procs -> Labels] /\ BuilderInv
    BY IInvSplit
  <1>2. BuilderInv'
    BY <1>1, BuilderNext
  <1>3. pc' \in [Procs -> Labels]
    BY <1>1, MoveStep DEF Moved
  <1> QED
    BY <1>2, <1>3 DEF IInv, TypeOK, BuilderInv, BuilderTypes

\* IInv holds in every reachable state.
THEOREM Inductive == Spec => []IInv
  BY InitIInv, NextIInv, PTL DEF Spec

--------------------------------------------------------------------------------
\* Every variable keeps its type: the versions, snapshots and manifest rows of
\* features/snapshots.py:102-139 are well formed in every reachable state.
THEOREM TypeCorrect == Spec => []TypeOK
  <1>1. IInv => TypeOK
    BY DEF IInv
  <1> QED
    BY <1>1, Inductive, PTL

\* Numbered snapshots have at most one orphan among them.
LEMMA NumberedMeansOneOrphan == Numbering => AtMostOneOrphan
  <1> SUFFICES ASSUME Numbering PROVE AtMostOneOrphan
    OBVIOUS
  <1>1. PICK n \in Nat : Numbered(n)
    BY DEF Numbering
  <1>2. Cardinality(DOMAIN manifest) = n
    BY <1>1, FS_Interval DEF Numbered
  <1> QED
    BY <1>1, <1>2 DEF Numbered, AtMostOneOrphan

\* However many builds interleave and however they crash, versions are issued
\* without a gap and at most one table, the next one, has no manifest row.
THEOREM AtMostOneOrphanThm == Spec => []AtMostOneOrphan
  <1>1. IInv => AtMostOneOrphan
    BY NumberedMeansOneOrphan DEF IInv
  <1> QED
    BY <1>1, Inductive, PTL

--------------------------------------------------------------------------------
(****************************************************************************)
(* What one step may do to the snapshots.                                   *)
(****************************************************************************)

\* A step leaves the snapshots alone, or creates the table of version n + 1, or
\* records the table of version n + 1 in the manifest.
StepOnSnapshots(n) ==
    \/ UNCHANGED snapshotVars
    \/ /\ DOMAIN tables = 1..n /\ DOMAIN tables' = 1..(n + 1)
       /\ \A v \in 1..n : tables'[v] = tables[v]
       /\ tables'[n + 1] \in Snapshots
       /\ manifest' = manifest
    \/ /\ DOMAIN manifest' = 1..(n + 1) /\ DOMAIN tables = 1..(n + 1)
       /\ \A v \in 1..n : manifest'[v] = manifest[v]
       /\ tables' = tables
       /\ \E p \in Procs : pc[p] = "insert_manifest"

\* In one step a table is added, a manifest row is added, or neither.
LEMMA SnapshotStep ==
  ASSUME NEW Labels, pc \in [Procs -> Labels], BuilderInv, [Next]_vars, NEW n \in Nat, Numbered(n)
  PROVE  StepOnSnapshots(n)
  <1> USE DEF StepOnSnapshots, snapshotVars
  <1>1. ASSUME NEW p \in Procs,
               StartBuild(p) \/ CreateRollingView(p) \/ CreateStoreView(p) \/ SelectVersion(p)
        PROVE  UNCHANGED snapshotVars
    BY <1>1 DEF StartBuild, CreateRollingView, CreateStoreView, SelectVersion
  <1>2. ASSUME NEW p \in Procs, CreateTable(p) PROVE StepOnSnapshots(n)
    <2>1. ver[p] = n + 1
      BY <1>2 DEF Numbered, CreateTable
    <2>2. CASE ~CanCreate(ver[p])
      BY <1>2, <2>2 DEF CreateTable
    <2>3. CASE CanCreate(ver[p])
      <3>1. DOMAIN tables = 1..n
        BY <2>1, <2>3 DEF Numbered, CanCreate
      <3>2. tables' = Put(tables, n + 1, [config |-> rollingView, data |-> base])
        BY <1>2, <2>1, <2>3 DEF CreateTable
      <3>3. [config |-> rollingView, data |-> base] \in Snapshots
        BY <1>2 DEF BuilderInv, BuilderTypes, BuildBound, BuildLabels, Snapshots, CreateTable
      <3>4. DOMAIN tables' = 1..(n + 1) /\ tables'[n + 1] \in Snapshots
        BY <3>1, <3>2, <3>3 DEF Put
      <3>5. \A v \in 1..n : tables'[v] = tables[v]
        BY <3>1, <3>2 DEF Put
      <3> QED
        BY <1>2, <3>1, <3>4, <3>5 DEF CreateTable
    <2> QED
      BY <2>2, <2>3
  <1>3. ASSUME NEW p \in Procs, InsertManifest(p) PROVE StepOnSnapshots(n)
    <2>1. ver[p] = n + 1 /\ DOMAIN tables = 1..(n + 1) /\ DOMAIN manifest = 1..n
      BY <1>3 DEF Numbered, InsertManifest
    <2>2. /\ DOMAIN manifest' = 1..(n + 1)
          /\ \A v \in 1..n : manifest'[v] = manifest[v]
      BY <1>3, <2>1 DEF InsertManifest, Put
    <2> QED
      BY <1>3, <2>1, <2>2 DEF InsertManifest
  <1>4. CASE UNCHANGED vars
    BY <1>4 DEF vars, builderVars
  <1> QED
    BY <1>1, <1>2, <1>3, <1>4, OtherSteps DEF Next, BuildStep

\* What a step may not do to the snapshots.
NothingReplaced ==
    /\ \A v \in DOMAIN tables : v \in DOMAIN tables' /\ tables'[v] = tables[v]
    /\ \A v \in DOMAIN manifest : v \in DOMAIN manifest' /\ manifest'[v] = manifest[v]

\* No step does.
LEMMA NothingReplacedStep ==
  ASSUME NEW Labels, pc \in [Procs -> Labels], BuilderInv, [Next]_vars
  PROVE  NothingReplaced
  <1>1. PICK n \in Nat : Numbered(n)
    BY DEF BuilderInv, Numbering
  <1>2. StepOnSnapshots(n)
    BY <1>1, SnapshotStep
  <1> QED
    BY <1>1, <1>2 DEF NothingReplaced, StepOnSnapshots, snapshotVars, Numbered

\* No build and no crash ever replaces a snapshot table or rewrites a manifest
\* row: what a model was trained on can be read again (docs/adr/011).
THEOREM SnapshotsImmutableThm == Spec => SnapshotsImmutable
  <1>1. IInv /\ [Next]_vars => NothingReplaced
    BY IInvSplit, NothingReplacedStep
  <1> QED
    BY <1>1, Inductive, PTL DEF Spec, SnapshotsImmutable, NothingReplaced

\* A step publishes the next version, or nothing a reader of the manifest sees changes.
LEMMA RegistryStep ==
  ASSUME NEW Labels, pc \in [Procs -> Labels], BuilderInv, [Next]_vars
  PROVE  [Registry!Publish]_([v \in DOMAIN manifest |-> tables[v]])
  <1> SUFFICES \/ Registry!Publish
               \/ [v \in DOMAIN manifest' |-> tables'[v]] = [v \in DOMAIN manifest |-> tables[v]]
    OBVIOUS
  <1>1. PICK n \in Nat : Numbered(n)
    BY DEF BuilderInv, Numbering
  <1>2. StepOnSnapshots(n)
    BY <1>1, SnapshotStep
  <1>3. CASE UNCHANGED snapshotVars
    BY <1>3 DEF snapshotVars
  <1>4. CASE manifest' = manifest /\ \A v \in 1..n : tables'[v] = tables[v]
    BY <1>1, <1>4 DEF Numbered
  <1>5. CASE /\ DOMAIN manifest' = 1..(n + 1) /\ DOMAIN tables = 1..(n + 1)
             /\ tables' = tables
    <2> DEFINE old == [v \in DOMAIN manifest |-> tables[v]]
               new == [v \in DOMAIN manifest' |-> tables'[v]]
    <2>1. DOMAIN old = 1..n /\ n \in (DOMAIN old) \cup {0}
      BY <1>1 DEF Numbered
    <2>2. tables[n + 1] \in Snapshots
      <3>1. n + 1 \in DOMAIN tables
        BY <1>5
      <3> QED
        BY <3>1 DEF BuilderInv, BuilderTypes
    <2>3. new = [v \in 1..(n + 1) |-> IF v = n + 1 THEN tables[n + 1] ELSE old[v]]
      BY <1>1, <1>5 DEF Numbered
    <2> QED
      BY <2>1, <2>2, <2>3 DEF Registry!Publish, Registry!Published
  <1> QED
    BY <1>2, <1>3, <1>4, <1>5 DEF StepOnSnapshots

\* The manifest implements the append-only registry of SnapshotRegistry: every
\* step of every build publishes the next version or changes nothing a reader
\* of the manifest sees.
THEOREM RefinesRegistryThm == Spec => RefinesRegistry
  <1>1. Init => Registry!RegistryInit
    BY DEF Init, BuilderInit, Registry!RegistryInit, Registry!Published
  <1>2. IInv /\ [Next]_vars =>
            [Registry!Publish]_([v \in DOMAIN manifest |-> tables[v]])
    BY IInvSplit, RegistryStep
  <1> QED
    BY <1>1, <1>2, Inductive, PTL DEF Spec, RefinesRegistry, Registry!RegistrySpec

\* No row is being recorded after the step, and no build has just succeeded.
NoSuccess ==
    /\ UNCHANGED snapshotVars
    /\ \A p \in Procs : pc'[p] # "insert_manifest"
    /\ \A p \in Procs : pc[p] \in BuildLabels /\ Idle(p)' => exit'[p] # "ok"

\* From a wedged state a step publishes nothing.
LEMMA WedgedStep ==
  ASSUME NEW Labels, pc \in [Procs -> Labels], BuilderInv, [Next]_vars, Wedged
  PROVE  Wedged' /\ NoSuccess
  <1>1. PICK n \in Nat : Numbered(n)
    BY DEF BuilderInv, Numbering
  <1>2. DOMAIN manifest = 1..n /\ n + 1 \in DOMAIN tables
    BY <1>1, NextAfterInterval DEF Numbered, Wedged
  <1>3. /\ \A p \in Procs : pc[p] # "insert_manifest"
        /\ pc \in [Procs -> Labels] /\ exit \in [Procs -> ExitCodes]
    BY DEF Wedged, BuilderInv, BuilderTypes
  <1>4. NoSuccess
    <2> USE DEF NoSuccess, Idle, End, Goto, snapshotVars
    <2>1. ASSUME NEW p \in Procs, StartBuild(p) PROVE NoSuccess
      BY <1>3, <2>1 DEF StartBuild, Start, BuildLabels
    <2>2. ASSUME NEW p \in Procs, CreateRollingView(p) \/ CreateStoreView(p) PROVE NoSuccess
      BY <1>3, <2>2 DEF CreateRollingView, CreateStoreView, ScriptFails, RunScript, Refused,
                        BuildLabels
    <2>3. ASSUME NEW p \in Procs, SelectVersion(p) PROVE NoSuccess
      BY <1>3, <2>3 DEF SelectVersion, OpenSection, Refused, BuildLabels
    <2>4. ASSUME NEW p \in Procs, CreateTable(p) PROVE NoSuccess
      <3>1. ~CanCreate(ver[p])
        BY <1>1, <1>2, <2>4 DEF Numbered, CreateTable, CanCreate
      <3> QED
        BY <1>3, <2>4, <3>1 DEF CreateTable, BuildLabels
    <2>5. ASSUME NEW p \in Procs, InsertManifest(p) PROVE FALSE
      BY <1>3, <2>5 DEF InsertManifest
    <2>6. ASSUME NEW p \in Procs, InitDb(p) \/ KillCommand(p) PROVE NoSuccess
      <3>1. UNCHANGED snapshotVars
        BY <2>6 DEF InitDb, KillCommand, builderVars
      <3>2. /\ \A q \in Procs : pc'[q] # "insert_manifest"
            /\ \A q \in Procs : pc[q] \in BuildLabels /\ pc'[q] = "idle" => exit'[q] # "ok"
        BY <1>3, <2>6 DEF InitDb, KillCommand, Kill, Start, ApplySchemaFile, RunScript, Refused,
                          SchemaFiles, BuildLabels
      <3> QED
        BY <3>1, <3>2
    <2>7. CASE Reingest \/ UNCHANGED vars
      BY <1>3, <2>7 DEF Reingest, vars, workspaceVars, builderVars, BuildLabels
    <2> QED
      BY <2>1, <2>2, <2>3, <2>4, <2>5, <2>6, <2>7 DEF Next, BuildStep
  <1> QED
    BY <1>4 DEF Wedged, NoSuccess, snapshotVars

\* Once a build has died between CREATE TABLE and INSERT, no build ever
\* publishes again and none that ends has succeeded, for any number of retries.
THEOREM WedgeIsPermanentThm == Spec => WedgeIsPermanent
  <1>1. ASSUME IInv, [Next]_vars, Wedged
        PROVE  /\ Wedged'
               /\ UNCHANGED snapshotVars
               /\ \A p \in Procs : pc[p] \in BuildLabels /\ Idle(p)' => exit'[p] # "ok"
    BY <1>1, IInvSplit, WedgedStep DEF NoSuccess
  <1> QED
    BY <1>1, Inductive, PTL DEF Spec, WedgeIsPermanent

--------------------------------------------------------------------------------
(****************************************************************************)
(* One command at a time: the lineage in the manifest is exact.             *)
(****************************************************************************)

\* A running build is alone, so the views are its own once it has made them.
AloneWithViews ==
    /\ \A p, q \in Procs : p # q => Idle(p) \/ Idle(q)
    /\ \A p \in Procs : pc[p] \in BuildLabels \ {"rolling_view"} => rollingView = cfg[p]
    /\ \A p \in Procs :
          pc[p] = "insert_manifest" => tables[ver[p]].config = cfg[p]
    /\ Lineage

\* One command at a time, no step of the builder's world takes that away, whatever
\* labels there are beside it.
LEMMA AloneStep ==
  ASSUME NEW Labels, pc \in [Procs -> Labels], BuilderInv, exclusive, AloneWithViews, [Next]_vars
  PROVE  AloneWithViews'
  <1> USE DEF AloneWithViews, Lineage, Idle, End, Goto
  <1>1. ASSUME NEW p \in Procs, StartBuild(p) PROVE AloneWithViews'
    BY <1>1 DEF StartBuild, Start, BuilderInv, BuilderTypes, viewVars, snapshotVars, BuildLabels
  <1>2. ASSUME NEW p \in Procs, CreateRollingView(p) PROVE AloneWithViews'
    BY <1>2 DEF CreateRollingView, RunScript, ScriptFails, Refused, BuilderInv, BuilderTypes,
                      localVars, snapshotVars, BuildLabels
  <1>3. ASSUME NEW p \in Procs, CreateStoreView(p) PROVE AloneWithViews'
    BY <1>3 DEF CreateStoreView, RunScript, ScriptFails, Refused, BuilderInv, BuilderTypes, localVars,
                      snapshotVars, BuildLabels
  <1>4. ASSUME NEW p \in Procs, SelectVersion(p) PROVE AloneWithViews'
    BY <1>4 DEF SelectVersion, OpenSection, Refused, BuilderInv, BuilderTypes, viewVars,
                      snapshotVars, BuildLabels
  <1>5. ASSUME NEW p \in Procs, CreateTable(p) PROVE AloneWithViews'
    <2>1. rollingView = cfg[p] /\ \A q \in Procs : q # p => pc[q] = "idle"
      BY <1>5 DEF CreateTable, BuildLabels
    <2>2. CASE ~CanCreate(ver[p])
      BY <1>5, <2>1, <2>2 DEF CreateTable, BuilderInv, BuilderTypes, viewVars, localVars, BuildLabels
    <2>3. CASE CanCreate(ver[p])
      <3>1. /\ ver[p] \notin DOMAIN tables
            /\ tables' = Put(tables, ver[p], [config |-> rollingView, data |-> base])
            /\ UNCHANGED <<manifest, cfg, ver, rollingView>>
        BY <1>5, <2>3 DEF CreateTable, CanCreate, localVars, viewVars
      <3>2. tables'[ver[p]].config = cfg[p]
        BY <2>1, <3>1 DEF Put
      <3>3. DOMAIN manifest \subseteq DOMAIN tables
        BY DEF BuilderInv, Numbering, Numbered
      <3>4. \A v \in DOMAIN manifest : manifest'[v] = tables'[v]
        BY <3>1, <3>3 DEF Put
      <3> QED
        BY <1>5, <2>1, <2>3, <3>1, <3>2, <3>4 DEF CreateTable, BuilderInv, BuilderTypes, BuildLabels
    <2> QED
      BY <2>2, <2>3
  <1>6. ASSUME NEW p \in Procs, InsertManifest(p) PROVE AloneWithViews'
    <2>1. \A q \in Procs : q # p => pc[q] = "idle"
      BY <1>6 DEF InsertManifest
    <2>2. /\ ver[p] \in DOMAIN tables /\ tables[ver[p]] \in Snapshots
          /\ tables[ver[p]].config = cfg[p]
      BY <1>6 DEF InsertManifest, BuilderInv, BuilderTypes, Numbering, Numbered
    <2>3. [config |-> cfg[p], data |-> tables[ver[p]].data] = tables[ver[p]]
      BY <2>2 DEF Snapshots
    <2>4. Lineage'
      BY <1>6, <2>3 DEF InsertManifest, Put
    <2> QED
      BY <1>6, <2>1, <2>4 DEF InsertManifest, BuilderInv, BuilderTypes, viewVars, localVars, BuildLabels
  <1>7. ASSUME NEW p \in Procs, InitDb(p) \/ KillCommand(p) PROVE AloneWithViews'
    <2>1. UNCHANGED <<cfg, ver, rollingView, tables, manifest>>
      BY <1>7 DEF InitDb, KillCommand, builderVars
    <2>2. /\ \A q \in Procs : q # p => pc'[q] = pc[q]
          /\ pc'[p] \notin BuildLabels
          /\ pc[p] = "idle" => \A q \in Procs : pc[q] = "idle"
      <3>1. CASE KillCommand(p)
        BY <3>1 DEF KillCommand, Kill, BuildLabels
      <3>2. CASE Start(p, "create_tables")
        BY <3>2 DEF Start, BuildLabels
      <3>3. CASE ApplySchemaFile(p)
        BY <3>3 DEF ApplySchemaFile, RunScript, Refused, SchemaFiles, BuildLabels
      <3> QED
        BY <1>7, <3>1, <3>2, <3>3 DEF InitDb
    <2> QED
      BY <2>1, <2>2 DEF BuildLabels
  <1>8. CASE Reingest \/ UNCHANGED vars
    BY <1>8 DEF Reingest, vars, workspaceVars, builderVars, localVars, viewVars,
                      snapshotVars
  <1> QED
    BY <1>1, <1>2, <1>3, <1>4, <1>5, <1>6, <1>7, <1>8 DEF Next, BuildStep

\* The discipline is kept for the whole behaviour.
LEMMA ExclusiveStays == ASSUME [Next]_vars PROVE exclusive' = exclusive
  <1>1. ASSUME NEW p \in Procs, StartBuild(p) \/ InitDb(p) \/ KillCommand(p)
        PROVE  exclusive' = exclusive
    BY <1>1 DEF StartBuild, InitDb, KillCommand, Kill, Start, ApplySchemaFile, RunScript,
                Refused, boundVars
  <1>2. ASSUME NEW p \in Procs, BuildStep(p) PROVE exclusive' = exclusive
    BY <1>2 DEF BuildStep, CreateRollingView, CreateStoreView, SelectVersion, CreateTable,
                InsertManifest, ScriptFails, RunScript, OpenSection, Refused, boundVars
  <1> QED
    BY <1>1, <1>2 DEF Next, Reingest, vars, workspaceVars

\* With one command at a time the config hash and the statistics of a manifest
\* row are those of the table it names, whatever crashed before.
THEOREM LineageExactThm == Spec => []LineageExact
  <1> DEFINE Inv == exclusive => AloneWithViews
  <1>1. Init => Inv
    BY DEF Init, WorkspaceInit, BuilderInit, AloneWithViews, Lineage, Idle, BuildLabels
  <1>2. IInv /\ Inv /\ [Next]_vars => Inv'
    BY IInvSplit, AloneStep, ExclusiveStays
  <1>3. Inv => LineageExact
    BY DEF AloneWithViews, LineageExact
  <1> HIDE DEF Inv
  <1> QED
    BY <1>1, <1>2, <1>3, Inductive, PTL DEF Spec
================================================================================
