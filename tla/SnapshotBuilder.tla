---------------------------- MODULE SnapshotBuilder ----------------------------
(****************************************************************************)
(* `build-features` (features/snapshots.py): several processes materialise  *)
(* versioned snapshots of the feature_store view into one DuckDB file.      *)
(*                                                                          *)
(* A build replaces the rolling_features view, then the feature_store view, *)
(* each on a connection of its own, and then opens one connection on which  *)
(* it selects the next version, creates the snapshot table and inserts the  *)
(* manifest row.  Other processes get in between the connections; inside    *)
(* the last one only a crash does, and each statement has committed.        *)
(*                                                                          *)
(* The base tables belong to Ingestion; here other processes replace their  *)
(* content (Reingest) whenever nobody holds a connection.                   *)
(****************************************************************************)
EXTENDS Workspace, FiniteSetsExt

CONSTANTS
    Configs,     \* contents of features.yaml
    ShapeOf,     \* ShapeOf[c]: the feature columns (names, types) c generates
    NoRolling,   \* those whose rolling_features does not bind: names sales lacks
    NoStore,     \* those over whose rolling_features feature_store does not bind:
                 \* a column it joins on or excludes is missing
    Datasets,    \* contents of the base tables
    None         \* no such view yet

\* Whether feature_store binds depends on the columns of rolling_features alone.
ASSUME ShapeAssumption ==
    /\ DOMAIN ShapeOf = Configs
    /\ NoRolling \subseteq Configs /\ NoStore \subseteq Configs
    /\ \A c \in NoStore : \A d \in Configs : ShapeOf[c] = ShapeOf[d] => d \in NoStore
ASSUME NoneAssumption == None \notin Configs /\ Datasets # {}

VARIABLES
    cfg,          \* cfg[p]: the features.yaml p loaded
    ver,          \* ver[p]: the version p selected
    rollingView,  \* the config behind the rolling_features view
    storeView,    \* the config behind rolling_features when feature_store was bound
    base,         \* the content of the base tables
    tables,       \* version -> what table feature_store_v<version> holds
    manifest      \* version -> what its row in feature_snapshots says

localVars == <<cfg, ver>>
viewVars == <<rollingView, storeView>>
snapshotVars == <<tables, manifest>>
builderVars == <<cfg, ver, rollingView, storeView, base, tables, manifest>>
vars == <<workspaceVars, builderVars>>

BuildLabels == {"rolling_view", "store_view", "select_version", "create_table",
                "insert_manifest"}

\* A table holds the rows of the base data with the features of a config; a
\* manifest row names the config (by its hash) and the data (by row count and
\* date range).
Snapshots == [config : Configs, data : Datasets]

Put(f, k, x) == [v \in DOMAIN f \cup {k} |-> IF v = k THEN x ELSE f[v]]

\* Mutation: numbering from 0.
NextVersionFromZero(versions) == IF versions = {} THEN 0 ELSE Max(versions) + 1
\* Mutation: NULL + 1, the COALESCE forgotten.
NextVersionNull(versions) == IF versions = {} THEN None ELSE Max(versions) + 1

\* COALESCE(MAX(version), 0) + 1
NextVersion(versions) == IF versions = {} THEN 1 ELSE Max(versions) + 1

--------------------------------------------------------------------------------
StartBuild(p) ==
    /\ Start(p, "rolling_view")
    /\ \E c \in Configs : cfg' = [cfg EXCEPT ![p] = c]
    /\ UNCHANGED <<ver, viewVars, base, snapshotVars>>

\* A statement fails on the open connection: execute_script turns the duckdb error
\* into a DatabaseError.
ScriptFails(p) ==
    /\ CanOpen(p, "rw")
    /\ End(p, "error")
    /\ dbFile' = TRUE
    /\ UNCHANGED <<schema, boundVars>>

\* CREATE OR REPLACE VIEW binds eagerly.  The columns of rolling_features are free
\* strings of features.yaml, looked up in sales.
RollingBinds(c) == "create_tables" \in schema /\ c \notin NoRolling

\* Mutation: CREATE VIEW IF NOT EXISTS.
CreateRollingViewOnce(p) ==
    /\ pc[p] = "rolling_view"
    /\ \/ /\ RollingBinds(cfg[p])
          /\ RunScript(p, "store_view")
          /\ rollingView' = IF rollingView = None THEN cfg[p] ELSE rollingView
          /\ UNCHANGED schema
       \/ /\ ~RollingBinds(cfg[p])
          /\ ScriptFails(p)
          /\ UNCHANGED rollingView
       \/ Refused(p, "rw") /\ UNCHANGED rollingView
    /\ UNCHANGED <<localVars, storeView, base, snapshotVars>>

CreateRollingView(p) ==
    /\ pc[p] = "rolling_view"
    /\ \/ /\ RollingBinds(cfg[p])
          /\ RunScript(p, "store_view")
          /\ rollingView' = cfg[p]
          /\ UNCHANGED schema
       \/ /\ ~RollingBinds(cfg[p])
          /\ ScriptFails(p)
          /\ UNCHANGED rollingView
       \/ Refused(p, "rw") /\ UNCHANGED rollingView
    /\ UNCHANGED <<localVars, storeView, base, snapshotVars>>

\* Mutation: CREATE VIEW IF NOT EXISTS.
CreateStoreViewOnce(p) ==
    /\ pc[p] = "store_view"
    /\ \/ /\ rollingView \notin NoStore
          /\ RunScript(p, "select_version")
          /\ storeView' = IF storeView = None THEN rollingView ELSE storeView
          /\ UNCHANGED schema
       \/ /\ rollingView \in NoStore
          /\ ScriptFails(p)
          /\ UNCHANGED storeView
       \/ Refused(p, "rw") /\ UNCHANGED storeView
    /\ UNCHANGED <<localVars, rollingView, base, snapshotVars>>

\* The join, the EXCLUDE list and the wildcard rf.* are resolved against
\* rolling_features as it is now, whoever made it.
CreateStoreView(p) ==
    /\ pc[p] = "store_view"
    /\ \/ /\ rollingView \notin NoStore
          /\ RunScript(p, "select_version")
          /\ storeView' = rollingView
          /\ UNCHANGED schema
       \/ /\ rollingView \in NoStore
          /\ ScriptFails(p)
          /\ UNCHANGED storeView
       \/ Refused(p, "rw") /\ UNCHANGED storeView
    /\ UNCHANGED <<localVars, rollingView, base, snapshotVars>>

\* Mutation: the next version taken from the tables instead of the manifest.
SelectVersionFromTables(p) ==
    /\ pc[p] = "select_version"
    /\ "feature_snapshots" \in schema
    /\ OpenSection(p, "rw", "create_table")
    /\ ver' = [ver EXCEPT ![p] = NextVersion(DOMAIN tables)]
    /\ UNCHANGED <<cfg, viewVars, base, snapshotVars, schema>>

\* Without feature_snapshots the SELECT raises a duckdb error nobody catches.
SelectVersion(p) ==
    /\ pc[p] = "select_version"
    /\ \/ /\ "feature_snapshots" \in schema
          /\ OpenSection(p, "rw", "create_table")
          /\ ver' = [ver EXCEPT ![p] = NextVersion(DOMAIN manifest)]
          /\ UNCHANGED schema
       \/ /\ "feature_snapshots" \notin schema
          /\ CanOpen(p, "rw")
          /\ End(p, "raw")
          /\ UNCHANGED <<ver, dbFile, schema, boundVars>>
       \/ Refused(p, "rw") /\ UNCHANGED ver
    /\ UNCHANGED <<cfg, viewVars, base, snapshotVars>>

\* Mutation: CREATE OR REPLACE TABLE.
CanReplace(v) == ShapeOf[storeView] = ShapeOf[rollingView]

\* Can CREATE TABLE feature_store_v<v> AS SELECT * FROM feature_store succeed?
\* The name must be free, and feature_store does not survive a change of the
\* columns it was bound to.
CanCreate(v) ==
    /\ v \notin DOMAIN tables
    /\ ShapeOf[storeView] = ShapeOf[rollingView]

CreateTable(p) ==
    /\ pc[p] = "create_table"
    /\ \/ /\ CanCreate(ver[p])
          /\ tables' = Put(tables, ver[p], [config |-> rollingView, data |-> base])
          /\ Goto(p, "insert_manifest")
          /\ UNCHANGED <<conn, exit>>
       \/ /\ ~CanCreate(ver[p])
          /\ End(p, "error")
          /\ UNCHANGED tables
    /\ UNCHANGED <<dbFile, schema, boundVars, localVars, viewVars, base, manifest>>

\* The statistics are read from the new table, the hash from the config in
\* memory.  version is the primary key: a second row for it would not commit.
InsertManifest(p) ==
    /\ pc[p] = "insert_manifest"
    /\ ver[p] \notin DOMAIN manifest
    /\ manifest' = Put(manifest, ver[p],
                       [config |-> cfg[p], data |-> tables[ver[p]].data])
    /\ End(p, "ok")
    /\ UNCHANGED <<dbFile, schema, boundVars, localVars, viewVars, base, tables>>

BuildStep(p) ==
    \/ CreateRollingView(p)
    \/ CreateStoreView(p)
    \/ SelectVersion(p)
    \/ CreateTable(p)
    \/ InsertManifest(p)

--------------------------------------------------------------------------------
InitDb(p) == (Start(p, "create_tables") \/ ApplySchemaFile(p)) /\ UNCHANGED builderVars

KillCommand(p) == Kill(p) /\ UNCHANGED builderVars

\* An ingestion by a process outside Procs, which needs the file for itself.
Reingest ==
    /\ \A p \in Procs : conn[p] = "none"
    /\ exclusive => \A p \in Procs : Idle(p)
    /\ "create_tables" \in schema
    /\ base' \in Datasets
    /\ UNCHANGED <<workspaceVars, localVars, viewVars, snapshotVars>>

BuilderInit ==
    /\ cfg = [p \in Procs |-> None]
    /\ ver = [p \in Procs |-> 0]
    /\ rollingView = None
    /\ storeView = None
    /\ base \in Datasets
    /\ tables = << >>
    /\ manifest = << >>

Init == WorkspaceInit /\ BuilderInit

Next ==
    \/ \E p \in Procs : StartBuild(p) \/ BuildStep(p) \/ InitDb(p) \/ KillCommand(p)
    \/ Reingest

Spec == Init /\ [][Next]_vars

\* The operating system runs every command that was started; nobody has to
\* start one, and kills are never owed.
Step(p) == BuildStep(p) \/ (ApplySchemaFile(p) /\ UNCHANGED builderVars)

FairSpec == Spec /\ \A p \in Procs : WF_vars(Step(p))

--------------------------------------------------------------------------------
(****************************************************************************)
(* Properties.                                                              *)
(****************************************************************************)

\* The types of the variables of a build and of the workspace it runs in.
TypeOK ==
    /\ pc \in [Procs -> {"idle"} \cup SchemaNames \cup BuildLabels]
    /\ conn \in [Procs -> Modes]
    /\ exit \in [Procs -> ExitCodes]
    /\ dbFile \in BOOLEAN
    /\ schema \subseteq SchemaNames
    /\ starts \in Nat /\ kills \in Nat /\ exclusive \in BOOLEAN
    /\ cfg \in [Procs -> Configs \cup {None}]
    /\ ver \in [Procs -> Nat]
    /\ rollingView \in Configs \cup {None}
    /\ storeView \in Configs \cup {None}
    /\ base \in Datasets
    /\ DOMAIN tables \subseteq Nat /\ \A v \in DOMAIN tables : tables[v] \in Snapshots
    /\ DOMAIN manifest \subseteq Nat /\ \A v \in DOMAIN manifest : manifest[v] \in Snapshots

\* However builds interleave and crash, the versions in the manifest are
\* 1, 2, ..., n without a gap, each has its table, and at most one table has
\* no manifest row: the one a build created and did not live to record, which
\* bears the very number the next build will select.
AtMostOneOrphan ==
    LET n == Cardinality(DOMAIN manifest)
    IN  /\ DOMAIN manifest = 1..n
        /\ DOMAIN tables \in {1..n, 1..(n + 1)}

\* A snapshot table is never replaced or dropped, a manifest row never
\* rewritten, whatever another build or a crash does (docs/DATA_VERSIONING.md).
SnapshotsImmutable ==
    [][/\ \A v \in DOMAIN tables : v \in DOMAIN tables' /\ tables'[v] = tables[v]
       /\ \A v \in DOMAIN manifest : v \in DOMAIN manifest' /\ manifest'[v] = manifest[v]
      ]_vars

\* The next version's table exists and no live build is about to record it.
Wedged ==
    /\ NextVersion(DOMAIN manifest) \in DOMAIN tables
    /\ \A p \in Procs : pc[p] # "insert_manifest"

\* A crash between CREATE TABLE and INSERT is never repaired: from then on no
\* command publishes a snapshot again, and every build ends in an error.
WedgeIsPermanent ==
    [][Wedged => /\ Wedged'
                 /\ UNCHANGED snapshotVars
                 /\ \A p \in Procs :
                        pc[p] \in BuildLabels /\ Idle(p)' => exit'[p] # "ok"]_vars

\* The manifest is an append-only registry of immutable snapshots: reading the
\* tables through the manifest refines SnapshotRegistry.
Registry == INSTANCE SnapshotRegistry
                WITH registry <- [v \in DOMAIN manifest |-> tables[v]]
RefinesRegistry == Registry!RegistrySpec

\* Under the documented single-writer discipline a manifest row names the very
\* config and data its table was built from: a build cannot snapshot a view
\* that another build, or a crashed one, left behind.  (Without the discipline
\* another build may replace the views between two connections of this one.)
Lineage == \A v \in DOMAIN manifest : manifest[v] = tables[v]
LineageExact == exclusive => Lineage

\* One command at a time, on an initialised database whose numbering is not
\* wedged, and whatever views earlier builds left, finished, failed or dead: a build
\* with a features.yaml whose names bind, if it is not killed, publishes its
\* snapshot and exits with code 0.
BuildPublishes ==
    \A p \in Procs :
        (/\ exclusive /\ pc[p] = "rolling_view" /\ schema = SchemaNames /\ ~Wedged
         /\ cfg[p] \notin NoRolling \cup NoStore)
            ~> \/ /\ exit[p] = "ok"
                  /\ ver[p] \in DOMAIN manifest
                  /\ manifest[ver[p]].config = cfg[p]
               \/ exit[p] = "killed"

\* Whenever no build is recording a table, the name the next build will choose
\* is free: a build can be repeated, as "every step ... is idempotent" has it
\* (docs/SYSTEM_FLOW.md:94-95).  A build that dies after its CREATE TABLE
\* leaves the name taken.
NextBuildCanCreate ==
    (\A p \in Procs : pc[p] # "insert_manifest")
        => NextVersion(DOMAIN manifest) \notin DOMAIN tables
================================================================================
