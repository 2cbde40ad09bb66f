------------------------------- MODULE Ingestion -------------------------------
(****************************************************************************)
(* `ingest-m5` and `validate` (data/m5.py, sql/ingest_m5.sql.j2,            *)
(* data/validation.py): a script of nineteen statements replaces the five   *)
(* base tables, a second connection reads and drops the statistics table,   *)
(* and a third, read-only, runs the thirteen integrity checks.              *)
(*                                                                          *)
(* The script runs on one connection but not in one transaction: every      *)
(* statement commits, so a crash or a failing statement leaves the tables   *)
(* as far as the script has come.  Rows are abstracted to the raw dataset   *)
(* they come from: rows[t] is the set of datasets table t holds rows of.    *)
(****************************************************************************)
EXTENDS Workspace

CONSTANTS
    Datasets,    \* the contents a raw directory may have
    KeysOf,      \* KeysOf[d]: the stores, items and days d is about
    Rejects,     \* Rejects[d]: the tables that cannot be loaded from d
                 \*   ("files": a raw file is missing)
    Flaws,       \* Flaws[d]: the tables whose own checks d's rows fail
    NoData       \* the raw directory of a command that has none

ASSUME DatasetsAssumption == NoData \notin Datasets
ASSUME PropertiesAssumption ==
    /\ DOMAIN KeysOf = Datasets /\ DOMAIN Rejects = Datasets /\ DOMAIN Flaws = Datasets
    /\ \A d \in Datasets : Flaws[d] \subseteq {"stores", "skus", "calendar", "prices", "sales"}

VARIABLES
    raw,         \* raw[p]: the raw directory p ingests
    at,          \* at[p]: the next statement of the script p executes
    rows         \* rows[t]: the datasets table t holds rows of

ingestVars == <<raw, at, rows>>
vars == <<workspaceVars, ingestVars>>

BaseTables == {"stores", "skus", "calendar", "prices", "sales"}
RawTables == {"stg_calendar", "stg_prices", "stg_sales_wide"}
Scratch == RawTables \cup {"stg_sales_long", "_ingest_stats"}
Tables == BaseTables \cup Scratch

IngestLabels == {"check_raw_files", "script", "read_summary", "validate"}

--------------------------------------------------------------------------------
(****************************************************************************)
(* The script.                                                              *)
(****************************************************************************)

Load(t, from) == [op |-> "load", table |-> t, from |-> from]     \* CREATE OR REPLACE
Delete(t)     == [op |-> "clear", table |-> t, from |-> {}]      \* DELETE, DROP
Insert(t, from) == [op |-> "insert", table |-> t, from |-> from] \* INSERT ... SELECT

Staging ==
    <<Load("stg_calendar", {}), Load("stg_prices", {}), Load("stg_sales_wide", {})>>
Reset ==
    <<Delete("sales"), Delete("prices"), Delete("calendar"), Delete("skus"), Delete("stores")>>
Dimensions ==
    <<Insert("stores", {"stg_sales_wide"}), Insert("skus", {"stg_sales_wide"}),
      Insert("calendar", {"stg_calendar"}), Insert("prices", {"stg_prices"})>>
Facts ==
    <<Load("stg_sales_long", {"stg_sales_wide"}),
      Insert("sales", {"stg_sales_long", "calendar", "prices"})>>
Finish ==
    <<Load("_ingest_stats", {"stg_sales_long"}), Delete("stg_sales_long"),
      Delete("stg_sales_wide"), Delete("stg_prices"), Delete("stg_calendar")>>

\* Mutations: the reset first; the facts before the dimensions' prices exist;
\* the sales rows left in place; the statistics never created.
ScriptResetFirst == Reset \o Staging \o Dimensions \o Facts \o Finish
ScriptSalesKept  == Staging \o Tail(Reset) \o Dimensions \o Facts \o Finish
ScriptFactsFirst == Staging \o Reset \o Facts \o Dimensions \o Finish
ScriptNoStats    == Staging \o Reset \o Dimensions \o Facts \o Tail(Finish)

Script == Staging \o Reset \o Dimensions \o Facts \o Finish

\* Tables whose primary key refuses rows that are there already.
Keyed == {"stores", "skus", "calendar"}

\* The rows a statement of p reads: those of its raw files, or the join of the
\* tables it selects from.
Selected(p, stmt) ==
    IF stmt.from = {} THEN {raw[p]}
                      ELSE {d \in Datasets : \A t \in stmt.from : d \in rows[t]}

\* A statement fails on a missing base table, on a raw file or a row it cannot
\* load, or on a primary key.
StatementFails(p, stmt) ==
    \/ stmt.table \in BaseTables /\ "create_tables" \notin schema
    \/ stmt.op # "clear" /\ stmt.table \in Rejects[raw[p]]
    \/ stmt.op = "insert" /\ stmt.table \in Keyed /\ rows[stmt.table] # {}

Outcome(p, stmt) ==
    CASE stmt.op = "clear"  -> {}
      [] stmt.op = "load"   -> Selected(p, stmt)
      [] stmt.op = "insert" -> rows[stmt.table] \cup Selected(p, stmt)

--------------------------------------------------------------------------------
(****************************************************************************)
(* ingest-m5.                                                               *)
(****************************************************************************)

StartIngest(p) ==
    /\ Start(p, "check_raw_files")
    /\ \E d \in Datasets : raw' = [raw EXCEPT ![p] = d]
    /\ UNCHANGED <<at, rows>>

\* A missing file is an IngestionError before the database is touched.
CheckRawFiles(p) ==
    /\ pc[p] = "check_raw_files"
    /\ \/ /\ "files" \in Rejects[raw[p]]
          /\ End(p, "error")
          /\ UNCHANGED <<dbFile, schema, boundVars, at>>
       \/ /\ "files" \notin Rejects[raw[p]]
          /\ OpenSection(p, "rw", "script")
          /\ at' = [at EXCEPT ![p] = 1]
          /\ UNCHANGED schema
       \/ /\ "files" \notin Rejects[raw[p]]
          /\ Refused(p, "rw")
          /\ UNCHANGED at
    /\ UNCHANGED <<raw, rows>>

\* Mutation: one statement too many.
AdvanceTooFar(p) ==
    /\ at[p] <= Len(Script)
    /\ at' = [at EXCEPT ![p] = @ + 1]
    /\ UNCHANGED <<pc, conn, exit>>

\* On to the next statement, or past the last one the connection is closed.
Advance(p) ==
    \/ /\ at[p] < Len(Script)
       /\ at' = [at EXCEPT ![p] = @ + 1]
       /\ UNCHANGED <<pc, conn, exit>>
    \/ /\ at[p] = Len(Script)
       /\ Goto(p, "read_summary")
       /\ conn' = [conn EXCEPT ![p] = "none"]
       /\ UNCHANGED <<at, exit>>

\* One statement of the script, committed on its own.
ExecuteStatement(p) ==
    /\ pc[p] = "script"
    /\ LET stmt == Script[at[p]]
       IN  \/ /\ ~StatementFails(p, stmt)
              /\ rows' = [rows EXCEPT ![stmt.table] = Outcome(p, stmt)]
              /\ Advance(p)
           \/ /\ StatementFails(p, stmt)
              /\ End(p, "error")
              /\ UNCHANGED <<rows, at>>
    /\ UNCHANGED <<dbFile, schema, boundVars, raw>>

\* Mutation: the statistics table is read but not dropped.
ReadSummaryKeepsStats(p) ==
    /\ pc[p] = "read_summary"
    /\ RunScript(p, "validate")
    /\ UNCHANGED <<schema, raw, at, rows>>

\* A second connection, which another process may have preceded: the counts
\* are selected and the statistics dropped, or the SELECT raises a duckdb error
\* that nobody catches because the statistics are gone.
ReadSummary(p) ==
    /\ pc[p] = "read_summary"
    /\ \/ /\ rows["_ingest_stats"] # {}
          /\ RunScript(p, "validate")
          /\ rows' = [rows EXCEPT !["_ingest_stats"] = {}]
          /\ UNCHANGED schema
       \/ /\ rows["_ingest_stats"] = {}
          /\ CanOpen(p, "rw")
          /\ End(p, "raw")
          /\ UNCHANGED <<rows, dbFile, schema, boundVars>>
       \/ Refused(p, "rw") /\ UNCHANGED rows
    /\ UNCHANGED <<raw, at>>

--------------------------------------------------------------------------------
(****************************************************************************)
(* The validation suite.                                                    *)
(****************************************************************************)

NonEmpty == \A t \in BaseTables : rows[t] # {}

\* sales_key_unique and prices_key_unique across datasets; the rows of one
\* dataset are judged by its Flaws, which stand for the uniqueness,
\* no_negative_units, positive_prices and calendar_contiguous checks.
KeysUnique(t) == \A d, e \in rows[t] : d # e => KeysOf[d] # KeysOf[e]
RowsSound(t) == \A d \in rows[t] : t \notin Flaws[d]

\* sales_stores_exist, sales_skus_exist, sales_dates_in_calendar: rows of
\* another dataset about the same stores, items and days satisfy them too.
References(t) == \A d \in rows["sales"] : \E e \in rows[t] : KeysOf[e] = KeysOf[d]

ChecksPass ==
    /\ NonEmpty
    /\ \A t \in {"sales", "prices"} : KeysUnique(t)
    /\ \A t \in BaseTables : RowsSound(t)
    /\ \A t \in Keyed : References(t)

StartValidate(p) ==
    /\ Start(p, "validate")
    /\ raw' = [raw EXCEPT ![p] = NoData]
    /\ UNCHANGED <<at, rows>>

\* Without the base tables a check cannot run, a DatabaseError; a failing check
\* is a DataValidationError: exit code 1 either way.
Validate(p) ==
    /\ pc[p] = "validate"
    /\ \/ /\ CanOpen(p, "ro")
          /\ End(p, IF "create_tables" \in schema /\ ChecksPass THEN "ok" ELSE "error")
          /\ UNCHANGED <<dbFile, schema, boundVars>>
       \/ Refused(p, "ro")
    /\ UNCHANGED ingestVars

IngestStep(p) ==
    \/ CheckRawFiles(p)
    \/ ExecuteStatement(p)
    \/ ReadSummary(p)
    \/ Validate(p)

InitDb(p) == (Start(p, "create_tables") \/ ApplySchemaFile(p)) /\ UNCHANGED ingestVars

KillCommand(p) == Kill(p) /\ UNCHANGED ingestVars

IngestInit ==
    /\ raw = [p \in Procs |-> NoData]
    /\ at = [p \in Procs |-> 1]
    /\ rows = [t \in Tables |-> {}]

Init == WorkspaceInit /\ IngestInit

Next ==
    \E p \in Procs :
        StartIngest(p) \/ StartValidate(p) \/ IngestStep(p) \/ InitDb(p) \/ KillCommand(p)

Spec == Init /\ [][Next]_vars

Step(p) == IngestStep(p) \/ (ApplySchemaFile(p) /\ UNCHANGED ingestVars)

\* Commands that were started run on; starts and kills are never owed.
FairSpec == Spec /\ \A p \in Procs : WF_vars(Step(p))

--------------------------------------------------------------------------------
(****************************************************************************)
(* Properties.                                                              *)
(****************************************************************************)

TypeOK ==
    /\ pc \in [Procs -> {"idle"} \cup SchemaNames \cup IngestLabels]
    /\ conn \in [Procs -> Modes]
    /\ exit \in [Procs -> ExitCodes]
    /\ dbFile \in BOOLEAN /\ schema \subseteq SchemaNames
    /\ raw \in [Procs -> Datasets \cup {NoData}]
    /\ at \in [Procs -> 1..Len(Script)]
    /\ rows \in [Tables -> SUBSET Datasets]

\* All five base tables hold one dataset, and one without flaws.
Complete(d) ==
    d \in Datasets /\ Flaws[d] = {} /\ \A t \in BaseTables : rows[t] = {d}

\* After every statement of every script, base tables that pass the checks are
\* the five tables of one flawless dataset: no crash, failing statement or
\* aborted re-run leaves a mixture of old and new rows that validates, even
\* when the two datasets are about the same stores, items and days.
ValidatedMeansComplete == ChecksPass => \E d \in Datasets : Complete(d)

\* No base row is touched before all raw files of the run have been read: a
\* missing or malformed file keeps the previous data (sql/ingest_m5.sql.j2:6-21).
RawFilesReadFirst ==
    [][(\E t \in BaseTables : rows'[t] # rows[t])
         => \E p \in Procs : /\ conn[p] = "rw"
                             /\ \A t \in RawTables : rows[t] = {raw[p]}]_vars

\* One command at a time: an ingestion that exits with code 0 leaves exactly
\* its own dataset, complete, and no scratch table.
OkMeansOwnData ==
    [][\A p \in Procs :
          (exclusive /\ pc[p] = "validate" /\ raw[p] # NoData /\ exit'[p] = "ok")
              => Complete(raw[p]) /\ \A t \in Scratch : rows[t] = {}]_vars

\* One command at a time: every failure of ingest-m5 is one of its documented
\* exceptions (IngestionError, DatabaseError, DataValidationError), never a raw
\* duckdb error.
FailuresClassified == exclusive => \A p \in Procs : exit[p] # "raw"

\* One command at a time, and whatever an earlier one left behind: running the
\* ingestion of a sound dataset to its end puts that dataset in place
\* ("Re-running replaces previously ingested data", m5.py:59).
RerunRecovers ==
    \A p \in Procs :
        (/\ exclusive /\ pc[p] = "check_raw_files" /\ "create_tables" \in schema
         /\ Rejects[raw[p]] = {} /\ Flaws[raw[p]] = {})
            ~> \/ exit[p] = "ok" /\ Complete(raw[p])
               \/ exit[p] = "killed"
================================================================================
