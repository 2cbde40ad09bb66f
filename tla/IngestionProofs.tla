----------------------------- MODULE IngestionProofs -----------------------------
(****************************************************************************)
(* Proofs about Ingestion, for every set of processes, every family of      *)
(* datasets, and any number of commands and crashes.                        *)
(****************************************************************************)
EXTENDS Ingestion, TLAPS

--------------------------------------------------------------------------------
(****************************************************************************)
(* The script: each table is filled once and cleared once.                  *)
(****************************************************************************)

\* The statement that fills a table.
FilledBy ==
    [t \in Tables |->
        CASE t = "stg_calendar"   -> 1
          [] t = "stg_prices"     -> 2
          [] t = "stg_sales_wide" -> 3
          [] t = "stores"         -> 9
          [] t = "skus"           -> 10
          [] t = "calendar"       -> 11
          [] t = "prices"         -> 12
          [] t = "stg_sales_long" -> 13
          [] t = "sales"          -> 14
          [] t = "_ingest_stats"  -> 15]

\* The statement that empties it; the statistics are dropped after the script.
ClearedBy ==
    [t \in Tables |->
        CASE t = "sales"          -> 4
          [] t = "prices"         -> 5
          [] t = "calendar"       -> 6
          [] t = "skus"           -> 7
          [] t = "stores"         -> 8
          [] t = "stg_sales_long" -> 16
          [] t = "stg_sales_wide" -> 17
          [] t = "stg_prices"     -> 18
          [] t = "stg_calendar"   -> 19
          [] t = "_ingest_stats"  -> 20]

\* The nineteen statements.
LEMMA ScriptIs ==
    /\ Len(Script) = 19
    /\ Script[1] = Load("stg_calendar", {})
    /\ Script[2] = Load("stg_prices", {})
    /\ Script[3] = Load("stg_sales_wide", {})
    /\ Script[4] = Delete("sales")
    /\ Script[5] = Delete("prices")
    /\ Script[6] = Delete("calendar")
    /\ Script[7] = Delete("skus")
    /\ Script[8] = Delete("stores")
    /\ Script[9] = Insert("stores", {"stg_sales_wide"})
    /\ Script[10] = Insert("skus", {"stg_sales_wide"})
    /\ Script[11] = Insert("calendar", {"stg_calendar"})
    /\ Script[12] = Insert("prices", {"stg_prices"})
    /\ Script[13] = Load("stg_sales_long", {"stg_sales_wide"})
    /\ Script[14] = Insert("sales", {"stg_sales_long", "calendar", "prices"})
    /\ Script[15] = Load("_ingest_stats", {"stg_sales_long"})
    /\ Script[16] = Delete("stg_sales_long")
    /\ Script[17] = Delete("stg_sales_wide")
    /\ Script[18] = Delete("stg_prices")
    /\ Script[19] = Delete("stg_calendar")
<1> USE DEF Script, Staging, Reset, Dimensions, Facts, Finish
<1>1. Len(Script) = 19
  OBVIOUS
<1>2. /\ Script[1] = Load("stg_calendar", {})
      /\ Script[2] = Load("stg_prices", {})
      /\ Script[3] = Load("stg_sales_wide", {})
  OBVIOUS
<1>3. /\ Script[4] = Delete("sales")
      /\ Script[5] = Delete("prices")
      /\ Script[6] = Delete("calendar")
      /\ Script[7] = Delete("skus")
      /\ Script[8] = Delete("stores")
  OBVIOUS
<1>4. /\ Script[9] = Insert("stores", {"stg_sales_wide"})
      /\ Script[10] = Insert("skus", {"stg_sales_wide"})
      /\ Script[11] = Insert("calendar", {"stg_calendar"})
      /\ Script[12] = Insert("prices", {"stg_prices"})
  OBVIOUS
<1>5. /\ Script[13] = Load("stg_sales_long", {"stg_sales_wide"})
      /\ Script[14] = Insert("sales", {"stg_sales_long", "calendar", "prices"})
  OBVIOUS
<1>6. /\ Script[15] = Load("_ingest_stats", {"stg_sales_long"})
      /\ Script[16] = Delete("stg_sales_long")
      /\ Script[17] = Delete("stg_sales_wide")
      /\ Script[18] = Delete("stg_prices")
      /\ Script[19] = Delete("stg_calendar")
  OBVIOUS
<1> HIDE DEF Script, Staging, Reset, Dimensions, Facts, Finish
<1> QED
  BY <1>1, <1>2, <1>3, <1>4, <1>5, <1>6

\* Each statement fills or empties one table, after the statements that fill what
\* it reads and before those that empty it; each base table is emptied and then
\* filled, each scratch table filled and then emptied.
LEMMA ScriptOrder ==
    /\ \A i \in 1..19 :
          /\ Script[i].table \in Tables /\ Script[i].from \subseteq Tables
          /\ Script[i].op \in {"load", "clear", "insert"}
          /\ Script[i].op = "clear" => i = ClearedBy[Script[i].table]
          /\ Script[i].op # "clear" => i = FilledBy[Script[i].table]
          /\ Script[i].op = "insert" => Script[i].table \in BaseTables
          /\ Script[i].op = "load" => Script[i].table \in Scratch
          /\ \A t \in Script[i].from :
                FilledBy[t] < i /\ (t \in Scratch => i < ClearedBy[t])
          /\ Script[i].op = "insert" => Script[i].from # {}
    /\ \A t \in Tables :
          /\ FilledBy[t] \in 1..19 /\ Script[FilledBy[t]].table = t
          /\ ClearedBy[t] \in 1..20
          /\ ClearedBy[t] # 20 => Script[ClearedBy[t]].table = t
    /\ \A t \in BaseTables : 3 < ClearedBy[t] /\ ClearedBy[t] < FilledBy[t] /\ FilledBy[t] < 15
    /\ \A t \in Scratch : FilledBy[t] < ClearedBy[t]
    /\ \A t \in RawTables : FilledBy[t] < 4 /\ 16 < ClearedBy[t]
<1> USE DEF Load, Delete, Insert
<1> DEFINE Ordered(i) ==
             /\ Script[i].table \in Tables /\ Script[i].from \subseteq Tables
             /\ Script[i].op \in {"load", "clear", "insert"}
             /\ Script[i].op = "clear" => i = ClearedBy[Script[i].table]
             /\ Script[i].op # "clear" => i = FilledBy[Script[i].table]
             /\ Script[i].op = "insert" => Script[i].table \in BaseTables
             /\ Script[i].op = "load" => Script[i].table \in Scratch
             /\ \A t \in Script[i].from :
                   FilledBy[t] < i /\ (t \in Scratch => i < ClearedBy[t])
             /\ Script[i].op = "insert" => Script[i].from # {}
<1>1. Ordered(1) /\ Ordered(2) /\ Ordered(3)
  BY ScriptIs DEF ClearedBy, FilledBy, Tables, BaseTables, Scratch, RawTables
<1>2. Ordered(4) /\ Ordered(5) /\ Ordered(6) /\ Ordered(7) /\ Ordered(8)
  BY ScriptIs DEF ClearedBy, FilledBy, Tables, BaseTables, Scratch, RawTables
<1>3. Ordered(9) /\ Ordered(10) /\ Ordered(11) /\ Ordered(12) /\ Ordered(13) /\ Ordered(14)
  BY ScriptIs DEF ClearedBy, FilledBy, Tables, BaseTables, Scratch, RawTables
<1>4. Ordered(15) /\ Ordered(16) /\ Ordered(17) /\ Ordered(18) /\ Ordered(19)
  BY ScriptIs DEF ClearedBy, FilledBy, Tables, BaseTables, Scratch, RawTables
<1>5. \A t \in Tables :
          /\ FilledBy[t] \in 1..19 /\ Script[FilledBy[t]].table = t
          /\ ClearedBy[t] \in 1..20
          /\ ClearedBy[t] # 20 => Script[ClearedBy[t]].table = t
  <2> DEFINE Placed(t) ==
               /\ FilledBy[t] \in 1..19 /\ Script[FilledBy[t]].table = t
               /\ ClearedBy[t] \in 1..20
               /\ ClearedBy[t] # 20 => Script[ClearedBy[t]].table = t
  <2> USE DEF ClearedBy, FilledBy, Tables, BaseTables, Scratch, RawTables
  <2>1. Placed("stores") /\ Placed("skus") /\ Placed("calendar")
    BY ScriptIs
  <2>2. Placed("prices") /\ Placed("sales")
    BY ScriptIs
  <2>3. Placed("stg_calendar") /\ Placed("stg_prices") /\ Placed("stg_sales_wide")
    BY ScriptIs
  <2>4. Placed("stg_sales_long") /\ Placed("_ingest_stats")
    BY ScriptIs
  <2> HIDE DEF Placed, ClearedBy, FilledBy
  <2>5. \A t \in Tables : Placed(t)
    BY <2>1, <2>2, <2>3, <2>4
  <2> QED
    BY <2>5 DEF Placed
<1>6. /\ \A t \in BaseTables : 3 < ClearedBy[t] /\ ClearedBy[t] < FilledBy[t] /\ FilledBy[t] < 15
      /\ \A t \in Scratch : FilledBy[t] < ClearedBy[t]
      /\ \A t \in RawTables : FilledBy[t] < 4 /\ 16 < ClearedBy[t]
  BY DEF ClearedBy, FilledBy, Tables, BaseTables, Scratch, RawTables
<1>7. \A i \in 1..19 : Ordered(i)
  <2> HIDE DEF Ordered
  <2>1. \A i \in 1..19 : i \in {1, 2, 3, 4, 5, 6, 7, 8, 9, 10, 11, 12, 13, 14, 15, 16, 17, 18, 19}
    OBVIOUS
  <2> QED
    BY <1>1, <1>2, <1>3, <1>4, <2>1
<1> QED
  BY <1>5, <1>6, <1>7

--------------------------------------------------------------------------------
(****************************************************************************)
(* The inductive invariant.                                                 *)
(****************************************************************************)

\* What is in table t when the script for dataset d is about to execute its k-th
\* statement: nothing of what was there before, once the statement that empties or
\* replaces it is done.
AsFar(t, k, d) ==
    /\ t \in BaseTables => /\ ClearedBy[t] < k /\ k <= FilledBy[t] => rows[t] = {}
                           /\ FilledBy[t] < k => rows[t] = {d}
    /\ t \in Scratch => /\ FilledBy[t] < k /\ k <= ClearedBy[t] => rows[t] = {d}
                        /\ ClearedBy[t] < k => rows[t] = {}

\* Whoever holds the file read-write holds it alone.
WriterAlone == \A p, q \in Procs : p # q /\ conn[p] = "rw" => conn[q] = "none"

\* The script runs with the file held read-write, on the data of its own command.
ScriptRuns ==
    \A p \in Procs :
        /\ pc[p] \in {"check_raw_files", "script", "read_summary"} => raw[p] \in Datasets
        /\ pc[p] = "script" =>
              conn[p] = "rw" /\ \A t \in Tables : AsFar(t, at[p], raw[p])

\* Sales are there only if all five tables are, and all of one dataset.
Settled ==
    rows["sales"] # {} => \E d \in Datasets : \A t \in BaseTables : rows[t] = {d}

\* Under the discipline no two commands run, and past its script an ingestion
\* finds what the script has left.
Disciplined ==
    exclusive =>
        /\ \A p, q \in Procs : p # q /\ ~Idle(p) => Idle(q)
        /\ \A p \in Procs :
              /\ exit[p] # "raw"
              /\ pc[p] = "read_summary" => \A t \in Tables : AsFar(t, 20, raw[p])
              /\ pc[p] = "validate" /\ raw[p] # NoData =>
                    /\ raw[p] \in Datasets
                    /\ \A t \in BaseTables : rows[t] = {raw[p]}
                    /\ \A t \in Scratch : rows[t] = {}

IngestInv == TypeOK /\ WriterAlone /\ ScriptRuns /\ Settled /\ Disciplined

\* The schema files, in the order they are applied.
LEMMA SchemaNamesAre ==
    /\ SchemaFiles[1] = "create_tables" /\ SchemaFiles[2] = "feature_snapshots"
    /\ SchemaFiles[3] = "views"
    /\ SchemaNames = {"create_tables", "feature_snapshots", "views"}
<1>1. /\ SchemaFiles[1] = "create_tables" /\ SchemaFiles[2] = "feature_snapshots"
      /\ SchemaFiles[3] = "views"
  BY DEF SchemaFiles
<1>2. 1..3 = {1, 2, 3}
  OBVIOUS
<1> QED
  BY <1>1, <1>2 DEF SchemaNames

\* At first nothing runs and every table is empty.
LEMMA IngestInitial == Init => IngestInv
<1> SUFFICES ASSUME Init PROVE IngestInv
  OBVIOUS
<1> USE DEF Init, WorkspaceInit, IngestInit
<1>0. Len(Script) = 19
  BY ScriptIs
<1>1. TypeOK
  <2>1. 1 \in 1..Len(Script)
    BY <1>0
  <2>2. at \in [Procs -> 1..Len(Script)] /\ rows \in [Tables -> SUBSET Datasets]
    BY <2>1
  <2> QED
    BY <2>2 DEF TypeOK, Modes, ExitCodes
<1>2. WriterAlone /\ ScriptRuns
  BY DEF WriterAlone, ScriptRuns
<1>3. Settled /\ Disciplined
  BY DEF Settled, Disciplined, Idle, Tables, BaseTables
<1> QED
  BY <1>1, <1>2, <1>3 DEF IngestInv

\* A new command has done nothing yet.
LEMMA StartKeeps ==
    ASSUME IngestInv, NEW p \in Procs,
           \/ StartIngest(p) \/ StartValidate(p)
           \/ Start(p, "create_tables") /\ UNCHANGED ingestVars
    PROVE  IngestInv'
<1> USE DEF StartIngest, StartValidate, Start, Goto, Idle, ingestVars
<1>0. /\ pc[p] = "idle" /\ pc'[p] \in {"check_raw_files", "validate", "create_tables"}
      /\ pc' = [pc EXCEPT ![p] = pc'[p]] /\ exit' = [exit EXCEPT ![p] = "none"]
      /\ exclusive => \A q \in Procs : pc[q] = "idle"
      /\ raw' = [raw EXCEPT ![p] = raw'[p]] /\ raw'[p] \in Datasets \cup {NoData}
      /\ pc'[p] = "check_raw_files" => raw'[p] \in Datasets
      /\ pc'[p] = "validate" => raw'[p] = NoData
      /\ UNCHANGED <<conn, dbFile, schema, exclusive, at, rows>>
  BY DEF IngestInv, TypeOK
<1> HIDE DEF StartIngest, StartValidate, Start, Goto, ingestVars
<1>1. TypeOK'
  <2>1. pc'[p] \in {"idle"} \cup SchemaNames \cup IngestLabels
    BY <1>0, SchemaNamesAre DEF IngestLabels
  <2>2. pc' \in [Procs -> {"idle"} \cup SchemaNames \cup IngestLabels]
    BY <1>0, <2>1 DEF IngestInv, TypeOK
  <2>3. exit' \in [Procs -> ExitCodes]
    BY <1>0 DEF IngestInv, TypeOK, ExitCodes
  <2>4. raw' \in [Procs -> Datasets \cup {NoData}]
    BY <1>0 DEF IngestInv, TypeOK
  <2> QED
    BY <1>0, <2>2, <2>3, <2>4 DEF IngestInv, TypeOK
<1>2. WriterAlone'
  BY <1>0 DEF IngestInv, WriterAlone
<1>3. ScriptRuns'
  BY <1>0 DEF IngestInv, TypeOK, ScriptRuns, AsFar
<1>4. Settled'
  BY <1>0 DEF IngestInv, Settled
<1>5. Disciplined'
  BY <1>0 DEF IngestInv, TypeOK, Disciplined
<1> QED
  BY <1>1, <1>2, <1>3, <1>4, <1>5 DEF IngestInv

\* A command that ends, by itself or killed, without touching a table.
LEMMA EndKeeps ==
    ASSUME IngestInv, NEW p \in Procs, NEW code \in ExitCodes, End(p, code),
           pc[p] # "idle", exclusive => code # "raw",
           dbFile' \in BOOLEAN, schema' \subseteq SchemaNames,
           UNCHANGED <<exclusive, raw, at, rows>>
    PROVE  IngestInv'
<1> USE DEF End, Idle
<1>1. TypeOK'
  BY DEF IngestInv, TypeOK, Modes
<1>2. WriterAlone'
  BY DEF IngestInv, TypeOK, WriterAlone
<1>3. ScriptRuns'
  BY DEF IngestInv, TypeOK, ScriptRuns, AsFar
<1>4. Settled'
  BY DEF IngestInv, Settled
<1>5. Disciplined'
  BY DEF IngestInv, TypeOK, Disciplined, AsFar
<1> QED
  BY <1>1, <1>2, <1>3, <1>4, <1>5 DEF IngestInv

\* A refused connection, a kill.
LEMMA RefusedKeeps ==
    ASSUME IngestInv, NEW p \in Procs, NEW mode \in {"ro", "rw"},
           pc[p] # "idle", Refused(p, mode), UNCHANGED <<raw, at, rows>>
    PROVE  IngestInv'
<1>1. End(p, "error") /\ UNCHANGED <<dbFile, schema, exclusive>>
  BY DEF Refused, boundVars
<1>2. dbFile' \in BOOLEAN /\ schema' \subseteq SchemaNames
  BY <1>1 DEF IngestInv, TypeOK
<1> QED
  BY <1>1, <1>2, EndKeeps DEF ExitCodes

\* A crash keeps the invariant: the statements done so far have committed.
LEMMA KillKeeps ==
    ASSUME IngestInv, NEW p \in Procs, KillCommand(p)
    PROVE  IngestInv'
<1>1. /\ pc[p] # "idle" /\ End(p, "killed")
      /\ UNCHANGED <<dbFile, schema, exclusive, raw, at, rows>>
  BY DEF KillCommand, Kill, Idle, ingestVars
<1>2. dbFile' \in BOOLEAN /\ schema' \subseteq SchemaNames
  BY <1>1 DEF IngestInv, TypeOK
<1> QED
  BY <1>1, <1>2, EndKeeps DEF ExitCodes

\* A step to the next connection-free statement of p that touches no table.
LEMMA MoveKeeps ==
    ASSUME IngestInv, NEW p \in Procs, pc[p] \in SchemaNames, NEW label \in SchemaNames,
           Goto(p, label), dbFile' \in BOOLEAN, schema' \subseteq SchemaNames,
           UNCHANGED <<conn, exit, exclusive, raw, at, rows>>
    PROVE  IngestInv'
<1> USE SchemaNamesAre DEF Goto, Idle
<1>1. TypeOK'
  BY DEF IngestInv, TypeOK
<1>2. WriterAlone'
  BY DEF IngestInv, WriterAlone
<1>3. ScriptRuns'
  BY DEF IngestInv, TypeOK, ScriptRuns, AsFar
<1>4. Settled'
  BY DEF IngestInv, Settled
<1>5. Disciplined'
  BY DEF IngestInv, TypeOK, Disciplined, AsFar
<1> QED
  BY <1>1, <1>2, <1>3, <1>4, <1>5 DEF IngestInv

\* init-db applies the schema files; their statements leave every row in place.
LEMMA SchemaKeeps ==
    ASSUME IngestInv, NEW p \in Procs, ApplySchemaFile(p), UNCHANGED ingestVars
    PROVE  IngestInv'
<1>0. UNCHANGED <<raw, at, rows>>
  BY DEF ingestVars
<1>1. PICK i \in 1..3 :
        /\ pc[p] = SchemaFiles[i]
        /\ \/ /\ i < 3
              /\ RunScript(p, SchemaFiles[i + 1])
              /\ schema' = schema \cup {SchemaFiles[i]}
           \/ /\ i = 3
              /\ CanOpen(p, "rw")
              /\ End(p, "ok")
              /\ dbFile' = TRUE
              /\ schema' = schema \cup {SchemaFiles[i]}
              /\ UNCHANGED boundVars
           \/ Refused(p, "rw")
  BY DEF ApplySchemaFile
<1>2. /\ SchemaFiles[i] \in SchemaNames
      /\ i < 3 => SchemaFiles[i + 1] \in SchemaNames
      /\ pc[p] # "idle" /\ schema \subseteq SchemaNames
  BY <1>1, SchemaNamesAre DEF IngestInv, TypeOK, SchemaNames
<1>3. CASE RunScript(p, SchemaFiles[i + 1]) /\ i < 3 /\ schema' = schema \cup {SchemaFiles[i]}
  BY <1>0, <1>1, <1>2, <1>3, MoveKeeps DEF RunScript, boundVars
<1>4. CASE /\ End(p, "ok") /\ dbFile' = TRUE /\ schema' = schema \cup {SchemaFiles[i]}
           /\ UNCHANGED boundVars
  BY <1>0, <1>2, <1>4, EndKeeps DEF boundVars, ExitCodes
<1>5. CASE Refused(p, "rw")
  BY <1>0, <1>2, <1>5, RefusedKeeps
<1> QED
  BY <1>1, <1>3, <1>4, <1>5

\* The raw files are checked and the script opened.
LEMMA CheckKeeps ==
    ASSUME IngestInv, NEW p \in Procs, CheckRawFiles(p)
    PROVE  IngestInv'
<1>0. pc[p] = "check_raw_files" /\ UNCHANGED <<raw, rows>>
  BY DEF CheckRawFiles
<1>1. CASE End(p, "error") /\ UNCHANGED <<dbFile, schema, boundVars, at>>
  <2>1. dbFile' \in BOOLEAN /\ schema' \subseteq SchemaNames
    BY <1>1 DEF IngestInv, TypeOK
  <2> QED
    BY <1>0, <1>1, <2>1, EndKeeps DEF boundVars, ExitCodes
<1>2. CASE Refused(p, "rw") /\ UNCHANGED at
  BY <1>0, <1>2, RefusedKeeps
<1>3. CASE /\ OpenSection(p, "rw", "script")
           /\ at' = [at EXCEPT ![p] = 1]
           /\ UNCHANGED schema
  <2>0. /\ pc' = [pc EXCEPT ![p] = "script"] /\ conn' = [conn EXCEPT ![p] = "rw"]
        /\ at' = [at EXCEPT ![p] = 1] /\ dbFile' = TRUE
        /\ \A q \in Procs \ {p} : conn[q] = "none"
        /\ UNCHANGED <<exit, schema, exclusive, raw, rows>>
    BY <1>0, <1>3 DEF OpenSection, CanOpen, Goto, boundVars
  <2>1. TypeOK'
    BY <2>0, ScriptIs DEF IngestInv, TypeOK, IngestLabels, Modes
  <2>2. WriterAlone'
    BY <2>0 DEF IngestInv, TypeOK, WriterAlone
  <2>3. ScriptRuns'
    <3>1. \A t \in Tables : AsFar(t, 1, raw[p])'
      BY ScriptOrder DEF AsFar
    <3>2. \A q \in Procs : q # p => pc[q] # "script"
      BY <2>0 DEF IngestInv, TypeOK, ScriptRuns
    <3> QED
      BY <1>0, <2>0, <3>1, <3>2 DEF IngestInv, TypeOK, ScriptRuns
  <2>4. Settled'
    BY <2>0 DEF IngestInv, Settled
  <2>5. Disciplined'
    BY <1>0, <2>0 DEF IngestInv, TypeOK, Disciplined, AsFar, Idle
  <2> QED
    BY <2>1, <2>2, <2>3, <2>4, <2>5 DEF IngestInv
<1> QED
  BY <1>1, <1>2, <1>3 DEF CheckRawFiles

\* Validation changes nothing.
LEMMA ValidateKeeps ==
    ASSUME IngestInv, NEW p \in Procs, Validate(p)
    PROVE  IngestInv'
<1>0. pc[p] = "validate" /\ UNCHANGED <<raw, at, rows>>
  BY DEF Validate, ingestVars
<1>1. CASE Refused(p, "ro")
  BY <1>0, <1>1, RefusedKeeps
<1>2. CASE /\ \E code \in {"ok", "error"} : End(p, code)
           /\ UNCHANGED <<dbFile, schema, boundVars>>
  <2>1. dbFile' \in BOOLEAN /\ schema' \subseteq SchemaNames
    BY <1>2 DEF IngestInv, TypeOK
  <2> QED
    BY <1>0, <1>2, <2>1, EndKeeps DEF boundVars, ExitCodes
<1> QED
  BY <1>1, <1>2 DEF Validate

--------------------------------------------------------------------------------
(****************************************************************************)
(* The statements of the script.                                            *)
(****************************************************************************)

\* A statement leaves its table empty, or with the rows of its own dataset alone:
\* what it selects from has been filled and what it inserts into emptied.
LEMMA StatementOutcome ==
    ASSUME IngestInv, NEW p \in Procs, pc[p] = "script"
    PROVE  Outcome(p, Script[at[p]]) = IF Script[at[p]].op = "clear" THEN {} ELSE {raw[p]}
<1> DEFINE k == at[p]
           stmt == Script[k]
           d == raw[p]
<1>1. k \in 1..19 /\ d \in Datasets
  BY ScriptIs DEF IngestInv, TypeOK, ScriptRuns
<1>2. \A t \in Tables : AsFar(t, k, d)
  BY DEF IngestInv, ScriptRuns
<1>3. /\ stmt.table \in Tables /\ stmt.from \subseteq Tables
      /\ stmt.op \in {"load", "clear", "insert"}
      /\ \A t \in stmt.from : FilledBy[t] < k /\ (t \in Scratch => k < ClearedBy[t])
      /\ stmt.op = "insert" => k = FilledBy[stmt.table] /\ stmt.table \in BaseTables
  BY <1>1, ScriptOrder
<1>4. /\ \A t \in Tables : FilledBy[t] \in Nat /\ ClearedBy[t] \in Nat
      /\ \A t \in BaseTables : ClearedBy[t] < FilledBy[t]
      /\ Tables = BaseTables \cup Scratch
  <2>1. \A t \in Tables : FilledBy[t] \in 1..19 /\ ClearedBy[t] \in 1..20
    BY ScriptOrder
  <2>2. \A t \in Tables : FilledBy[t] \in Nat /\ ClearedBy[t] \in Nat
    BY <2>1
  <2> QED
    BY <2>2, ScriptOrder DEF Tables
<1> HIDE DEF k, stmt, d
<1>5. \A t \in stmt.from : rows[t] = {d}
  BY <1>1, <1>2, <1>3, <1>4 DEF AsFar
<1>6. Selected(p, stmt) = {d}
  BY <1>1, <1>5 DEF Selected, d
<1>7. stmt.op = "insert" => rows[stmt.table] = {}
  BY <1>1, <1>2, <1>3, <1>4 DEF AsFar
<1>8. Outcome(p, stmt) = IF stmt.op = "clear" THEN {} ELSE {d}
  BY <1>3, <1>6, <1>7 DEF Outcome
<1> QED
  BY <1>8 DEF k, stmt, d

\* So after it the tables are as far as the next statement expects them.
LEMMA StatementAdvances ==
    ASSUME IngestInv, NEW p \in Procs, pc[p] = "script",
           rows' = [rows EXCEPT ![Script[at[p]].table] = Outcome(p, Script[at[p]])],
           NEW k, k = at[p], NEW d, d = raw[p], NEW t \in Tables
    PROVE  AsFar(t, k + 1, d)'
<1> DEFINE stmt == Script[k]
<1>1. k \in 1..19 /\ AsFar(t, k, d)
  BY ScriptIs DEF IngestInv, TypeOK, ScriptRuns
<1>2. rows' = [rows EXCEPT ![stmt.table] = IF stmt.op = "clear" THEN {} ELSE {d}]
  BY StatementOutcome
<1>3. rows'[t] = IF t # stmt.table THEN rows[t]
                 ELSE IF stmt.op = "clear" THEN {} ELSE {d}
  BY <1>2 DEF IngestInv, TypeOK
<1>4. /\ stmt.op = "clear" => k = ClearedBy[stmt.table]
      /\ stmt.op # "clear" => k = FilledBy[stmt.table]
  BY <1>1, ScriptOrder
<1>5. /\ FilledBy[t] \in Nat /\ ClearedBy[t] \in Nat
      /\ Script[FilledBy[t]].table = t
      /\ ClearedBy[t] # 20 => Script[ClearedBy[t]].table = t
      /\ t \in BaseTables => ClearedBy[t] < FilledBy[t]
      /\ t \in Scratch => FilledBy[t] < ClearedBy[t]
  BY ScriptOrder
<1>6. CASE t # stmt.table
  <2>1. k # FilledBy[t] /\ k # ClearedBy[t]
    BY <1>1, <1>5, <1>6
  <2> QED
    BY <1>1, <1>3, <1>5, <1>6, <2>1 DEF AsFar
<1>7. CASE t = stmt.table /\ stmt.op = "clear"
  BY <1>1, <1>3, <1>4, <1>5, <1>7 DEF AsFar
<1>8. CASE t = stmt.table /\ stmt.op # "clear"
  BY <1>1, <1>3, <1>4, <1>5, <1>8 DEF AsFar
<1> QED
  BY <1>6, <1>7, <1>8

\* A base table is touched by the fourth to the fourteenth statement only.
LEMMA BaseStatements ==
    /\ ClearedBy["sales"] = 4 /\ FilledBy["sales"] = 14 /\ "sales" \in BaseTables
    /\ \A t \in BaseTables : ClearedBy[t] \in 4..8 /\ FilledBy[t] \in 9..14
    /\ \A t \in BaseTables : t \in Tables /\ t \notin Scratch
BY DEF ClearedBy, FilledBy, Tables, BaseTables, Scratch, RawTables

\* Sales come last: once they are there all five tables are.
LEMMA StatementSettles ==
    ASSUME IngestInv, NEW p \in Procs, pc[p] = "script",
           rows' = [rows EXCEPT ![Script[at[p]].table] = Outcome(p, Script[at[p]])]
    PROVE  Settled'
<1>1. PICK k \in 1..19 : k = at[p]
  BY ScriptIs DEF IngestInv, TypeOK
<1>2. PICK d \in Datasets : d = raw[p]
  BY DEF IngestInv, ScriptRuns
<1>3. CASE Script[k].table \in BaseTables
  <2>1. k \in 4..14
    <3>1. k = ClearedBy[Script[k].table] \/ k = FilledBy[Script[k].table]
      BY ScriptOrder
    <3>2. ClearedBy[Script[k].table] \in 4..8 /\ FilledBy[Script[k].table] \in 9..14
      BY <1>3, BaseStatements
    <3> QED
      BY <3>1, <3>2
  <2>2. \A t \in BaseTables : AsFar(t, k + 1, d)'
    BY <1>1, <1>2, StatementAdvances, BaseStatements
  <2>3. CASE k < 14
    <3>1. rows'["sales"] = {}
      BY <2>1, <2>2, <2>3, BaseStatements DEF AsFar
    <3> QED
      BY <3>1 DEF Settled
  <2>4. CASE k = 14
    <3>1. \A t \in BaseTables : FilledBy[t] < k + 1
      BY <2>4, BaseStatements
    <3>2. \A t \in BaseTables : rows'[t] = {d}
      BY <2>2, <3>1 DEF AsFar
    <3> QED
      BY <3>2 DEF Settled
  <2> QED
    BY <2>1, <2>3, <2>4
<1>4. CASE Script[k].table \notin BaseTables
  <2>1. \A t \in BaseTables : rows'[t] = rows[t]
    BY <1>1, <1>4, BaseStatements DEF IngestInv, TypeOK
  <2> QED
    BY <2>1, BaseStatements DEF IngestInv, Settled
<1> QED
  BY <1>3, <1>4

\* One statement of the script.
LEMMA ExecuteKeeps ==
    ASSUME IngestInv, NEW p \in Procs, ExecuteStatement(p)
    PROVE  IngestInv'
<1> DEFINE stmt == Script[at[p]]
<1>0. /\ pc[p] = "script" /\ conn[p] = "rw" /\ raw[p] \in Datasets
      /\ UNCHANGED <<dbFile, schema, exclusive, raw>>
      /\ \A q \in Procs : q # p => pc[q] # "script"
  BY DEF ExecuteStatement, IngestInv, ScriptRuns, WriterAlone, boundVars
<1>1. CASE End(p, "error") /\ UNCHANGED <<rows, at>>
  <2>1. dbFile' \in BOOLEAN /\ schema' \subseteq SchemaNames
    BY <1>0 DEF IngestInv, TypeOK
  <2> QED
    BY <1>0, <1>1, <2>1, EndKeeps DEF ExitCodes
<1>2. CASE rows' = [rows EXCEPT ![stmt.table] = Outcome(p, stmt)] /\ Advance(p)
  <2>1. PICK k \in 1..19 : k = at[p]
    BY ScriptIs DEF IngestInv, TypeOK
  <2>2. PICK d \in Datasets : d = raw[p]
    BY <1>0
  <2>3. \A t \in Tables : AsFar(t, k + 1, d)'
    BY <1>0, <1>2, <2>1, <2>2, StatementAdvances
  <2>4. Settled'
    BY <1>0, <1>2, StatementSettles
  <2>5. rows' \in [Tables -> SUBSET Datasets]
    <3>1. Outcome(p, stmt) \in SUBSET Datasets
      BY <1>0, StatementOutcome
    <3> QED
      BY <1>2, <3>1 DEF IngestInv, TypeOK
  <2>6. CASE k < 19 /\ at' = [at EXCEPT ![p] = k + 1] /\ UNCHANGED <<pc, conn, exit>>
    <3>1. TypeOK'
      <4>1. k + 1 \in 1..Len(Script)
        BY <2>6, ScriptIs
      <4> QED
        BY <1>0, <2>5, <2>6, <4>1 DEF IngestInv, TypeOK
    <3>2. ScriptRuns'
      <4>1. at'[p] = k + 1 /\ raw'[p] = d
        BY <1>0, <2>2, <2>6 DEF IngestInv, TypeOK
      <4>2. \A t \in Tables : AsFar(t, at[p], raw[p])'
        BY <2>3, <4>1 DEF AsFar
      <4> QED
        BY <1>0, <2>6, <4>2 DEF IngestInv, ScriptRuns
    <3>3. WriterAlone'
      BY <2>6 DEF IngestInv, WriterAlone
    <3>4. Disciplined'
      BY <1>0, <2>6 DEF IngestInv, Disciplined, Idle
    <3> QED
      BY <2>4, <3>1, <3>2, <3>3, <3>4 DEF IngestInv
  <2>7. CASE /\ k = 19 /\ pc' = [pc EXCEPT ![p] = "read_summary"]
             /\ conn' = [conn EXCEPT ![p] = "none"] /\ UNCHANGED <<at, exit>>
    <3>1. TypeOK'
      BY <1>0, <2>5, <2>7 DEF IngestInv, TypeOK, IngestLabels, Modes
    <3>2. ScriptRuns'
      BY <1>0, <2>7 DEF IngestInv, TypeOK, ScriptRuns
    <3>3. WriterAlone'
      BY <2>7 DEF IngestInv, TypeOK, WriterAlone
    <3>4. Disciplined'
      <4>1. \A t \in Tables : AsFar(t, 20, raw[p])'
        BY <1>0, <2>2, <2>3, <2>7 DEF AsFar
      <4>2. exclusive => \A q \in Procs : q # p => pc[q] = "idle"
        BY <1>0 DEF IngestInv, Disciplined, Idle
      <4> QED
        BY <1>0, <2>7, <4>1, <4>2 DEF IngestInv, TypeOK, Disciplined, Idle
    <3> QED
      BY <2>4, <3>1, <3>2, <3>3, <3>4 DEF IngestInv
  <2> QED
    BY <1>2, <2>1, <2>6, <2>7, ScriptIs DEF Advance, Goto
<1> QED
  BY <1>1, <1>2 DEF ExecuteStatement

\* The summary is read and the statistics dropped, while no script runs.
LEMMA SummaryKeeps ==
    ASSUME IngestInv, NEW p \in Procs, ReadSummary(p)
    PROVE  IngestInv'
<1>0. pc[p] = "read_summary" /\ raw[p] \in Datasets /\ UNCHANGED <<raw, at>>
  BY DEF ReadSummary, IngestInv, ScriptRuns
<1>1. CASE Refused(p, "rw") /\ UNCHANGED rows
  BY <1>0, <1>1, RefusedKeeps
<1>2. CASE /\ rows["_ingest_stats"] = {}
           /\ End(p, "raw")
           /\ UNCHANGED <<rows, dbFile, schema, boundVars>>
  <2>1. exclusive => FALSE
    <3>1. SUFFICES ASSUME exclusive PROVE FALSE
      OBVIOUS
    <3>2. AsFar("_ingest_stats", 20, raw[p])
      BY <1>0, <3>1 DEF IngestInv, Disciplined, Tables, Scratch
    <3>3. FilledBy["_ingest_stats"] = 15 /\ ClearedBy["_ingest_stats"] = 20
      BY DEF FilledBy, ClearedBy, Tables, Scratch
    <3> QED
      BY <1>2, <3>2, <3>3 DEF AsFar, Scratch
  <2>2. dbFile' \in BOOLEAN /\ schema' \subseteq SchemaNames
    BY <1>2 DEF IngestInv, TypeOK
  <2> QED
    BY <1>0, <1>2, <2>1, <2>2, EndKeeps DEF boundVars, ExitCodes
<1>3. CASE /\ RunScript(p, "validate")
           /\ rows' = [rows EXCEPT !["_ingest_stats"] = {}]
           /\ UNCHANGED schema
  <2>0. /\ pc' = [pc EXCEPT ![p] = "validate"] /\ dbFile' = TRUE
        /\ \A q \in Procs \ {p} : conn[q] = "none"
        /\ UNCHANGED <<conn, exit, schema, exclusive, raw, at>>
    BY <1>0, <1>3 DEF RunScript, CanOpen, Goto, boundVars
  <2>1. /\ \A t \in BaseTables : rows'[t] = rows[t]
        /\ \A t \in Tables : rows'[t] = IF t = "_ingest_stats" THEN {} ELSE rows[t]
        /\ rows' \in [Tables -> SUBSET Datasets]
    BY <1>3 DEF IngestInv, TypeOK, Tables, BaseTables, Scratch, RawTables
  <2>2. TypeOK'
    BY <2>0, <2>1 DEF IngestInv, TypeOK, IngestLabels
  <2>3. WriterAlone'
    BY <2>0 DEF IngestInv, WriterAlone
  <2>4. ScriptRuns'
    <3>1. \A q \in Procs : pc'[q] # "script"
      BY <1>0, <2>0 DEF IngestInv, TypeOK, ScriptRuns
    <3> QED
      BY <2>0, <3>1 DEF IngestInv, TypeOK, ScriptRuns
  <2>5. Settled'
    BY <2>1, BaseStatements DEF IngestInv, Settled
  <2>6. Disciplined'
    <3>1. ASSUME exclusive
          PROVE  /\ \A q \in Procs : q # p => pc[q] = "idle"
                 /\ \A t \in BaseTables : rows'[t] = {raw[p]}
                 /\ \A t \in Scratch : rows'[t] = {}
      <4>1. \A t \in Tables : AsFar(t, 20, raw[p])
        BY <1>0, <3>1 DEF IngestInv, Disciplined
      <4>2. \A q \in Procs : q # p => pc[q] = "idle"
        BY <1>0, <3>1 DEF IngestInv, Disciplined, Idle
      <4>3. \A t \in BaseTables : t \in Tables /\ FilledBy[t] < 20
        BY BaseStatements
      <4>4. \A t \in Scratch : t \in Tables /\ (t # "_ingest_stats" => ClearedBy[t] < 20)
        BY DEF ClearedBy, Tables, Scratch, RawTables
      <4> QED
        BY <2>1, <4>1, <4>2, <4>3, <4>4 DEF AsFar
    <3> QED
      BY <1>0, <2>0, <3>1 DEF IngestInv, TypeOK, Disciplined, Idle
  <2> QED
    BY <2>2, <2>3, <2>4, <2>5, <2>6 DEF IngestInv
<1> QED
  BY <1>1, <1>2, <1>3 DEF ReadSummary

\* Every step keeps the invariant.
LEMMA IngestStepKeeps == IngestInv /\ [Next]_vars => IngestInv'
<1> SUFFICES ASSUME IngestInv, [Next]_vars PROVE IngestInv'
  OBVIOUS
<1>1. ASSUME NEW p \in Procs, StartIngest(p) PROVE IngestInv'
  BY <1>1, StartKeeps
<1>2. ASSUME NEW p \in Procs, StartValidate(p) PROVE IngestInv'
  BY <1>2, StartKeeps
<1>3. ASSUME NEW p \in Procs, InitDb(p) PROVE IngestInv'
  BY <1>3, StartKeeps, SchemaKeeps DEF InitDb
<1>4. ASSUME NEW p \in Procs, IngestStep(p) PROVE IngestInv'
  BY <1>4, CheckKeeps, ExecuteKeeps, SummaryKeeps, ValidateKeeps DEF IngestStep
<1>5. ASSUME NEW p \in Procs, KillCommand(p) PROVE IngestInv'
  BY <1>5, KillKeeps
<1>6. CASE UNCHANGED vars
  <2> USE DEF vars, workspaceVars, ingestVars
  <2>1. TypeOK' /\ WriterAlone'
    BY <1>6 DEF IngestInv, TypeOK, WriterAlone
  <2>2. ScriptRuns' /\ Settled'
    BY <1>6 DEF IngestInv, ScriptRuns, AsFar, Settled
  <2>3. Disciplined'
    BY <1>6 DEF IngestInv, Disciplined, AsFar, Idle
  <2> QED
    BY <2>1, <2>2, <2>3 DEF IngestInv
<1> QED
  BY <1>1, <1>2, <1>3, <1>4, <1>5, <1>6 DEF Next

\* The invariant holds throughout.
LEMMA IngestCorrect == Spec => []IngestInv
BY IngestInitial, IngestStepKeeps, PTL DEF Spec

--------------------------------------------------------------------------------
(****************************************************************************)
(* The properties.                                                          *)
(****************************************************************************)

\* The variables of an ingestion keep their types.
THEOREM TypeCorrect == Spec => []TypeOK
<1>1. IngestInv => TypeOK
  BY DEF IngestInv
<1> QED
  BY <1>1, IngestCorrect, PTL

\* Base tables that pass the thirteen checks hold one flawless dataset, complete,
\* whatever crashed, failed or was run in between, after every statement.
THEOREM ValidatedMeansCompleteThm == Spec => []ValidatedMeansComplete
<1>1. ASSUME IngestInv, ChecksPass PROVE \E d \in Datasets : Complete(d)
  <2>1. rows["sales"] # {}
    BY <1>1 DEF ChecksPass, NonEmpty, BaseTables
  <2>2. PICK d \in Datasets : \A t \in BaseTables : rows[t] = {d}
    BY <1>1, <2>1 DEF IngestInv, Settled
  <2>3. \A t \in BaseTables : t \notin Flaws[d]
    BY <1>1, <2>2 DEF ChecksPass, RowsSound
  <2>4. Flaws[d] = {}
    BY <2>3, PropertiesAssumption DEF BaseTables
  <2> QED
    BY <2>2, <2>4 DEF Complete
<1>2. IngestInv => ValidatedMeansComplete
  BY <1>1 DEF ValidatedMeansComplete
<1> QED
  BY <1>2, IngestCorrect, PTL

\* No base row changes before all raw files of the run have been read.
THEOREM RawFilesReadFirstThm == Spec => RawFilesReadFirst
<1> DEFINE Touched == (\E t \in BaseTables : rows'[t] # rows[t])
                        => \E p \in Procs : /\ conn[p] = "rw"
                                            /\ \A t \in RawTables : rows[t] = {raw[p]}
<1>1. ASSUME IngestInv, [Next]_vars PROVE [Touched]_vars
  <2>1. CASE UNCHANGED rows
    BY <2>1
  <2>2. ASSUME NEW p \in Procs, ExecuteStatement(p), ~UNCHANGED rows PROVE Touched
    <3> DEFINE k == at[p]
    <3>1. k \in 1..19 /\ conn[p] = "rw" /\ \A t \in Tables : AsFar(t, k, raw[p])
      BY <1>1, <2>2, ScriptIs DEF ExecuteStatement, IngestInv, TypeOK, ScriptRuns
    <3>2. rows' = [rows EXCEPT ![Script[k].table] = Outcome(p, Script[k])]
      BY <2>2 DEF ExecuteStatement
    <3>3. ASSUME NEW t \in BaseTables, rows'[t] # rows[t] PROVE k \in 4..14
      <4>1. Script[k].table \in BaseTables
        BY <1>1, <3>2, <3>3, BaseStatements DEF IngestInv, TypeOK
      <4>2. k = ClearedBy[Script[k].table] \/ k = FilledBy[Script[k].table]
        BY <3>1, ScriptOrder
      <4>3. ClearedBy[Script[k].table] \in 4..8 /\ FilledBy[Script[k].table] \in 9..14
        BY <4>1, BaseStatements
      <4> QED
        BY <4>2, <4>3
    <3>4. ASSUME k \in 4..14, NEW t \in RawTables PROVE rows[t] = {raw[p]}
      <4>1. t \in Scratch /\ t \in Tables
        BY DEF Scratch, Tables
      <4>2. FilledBy[t] \in 1..19 /\ ClearedBy[t] \in 1..20 /\ FilledBy[t] < 4 /\ 16 < ClearedBy[t]
        BY <4>1, ScriptOrder
      <4>3. FilledBy[t] < k /\ k <= ClearedBy[t]
        BY <3>4, <4>2
      <4> QED
        BY <3>1, <4>1, <4>3 DEF AsFar
    <3> QED
      BY <3>1, <3>3, <3>4
  <2>3. ASSUME NEW p \in Procs, ReadSummary(p) PROVE Touched
    <3>1. \A t \in BaseTables : rows'[t] = rows[t]
      BY <1>1, <2>3 DEF ReadSummary, Refused, IngestInv, TypeOK, Tables, BaseTables, Scratch, RawTables
    <3> QED
      BY <3>1
  <2>4. ASSUME NEW p \in Procs,
               \/ StartIngest(p) \/ StartValidate(p) \/ InitDb(p) \/ KillCommand(p)
               \/ CheckRawFiles(p) \/ Validate(p)
        PROVE  UNCHANGED rows
    BY <2>4 DEF StartIngest, StartValidate, InitDb, KillCommand, CheckRawFiles, Validate, ingestVars
  <2>5. CASE UNCHANGED vars
    BY <2>5 DEF vars, ingestVars
  <2> HIDE DEF Touched
  <2> QED
    BY <1>1, <2>1, <2>2, <2>3, <2>4, <2>5 DEF Next, IngestStep
<1>2. Spec => [][Touched]_vars
  <2> HIDE DEF Touched
  <2> QED
    BY <1>1, IngestCorrect, PTL DEF Spec
<1> QED
  BY <1>2 DEF RawFilesReadFirst

\* One command at a time, every failure of ingest-m5 is a documented exception.
THEOREM FailuresClassifiedThm == Spec => []FailuresClassified
<1>1. IngestInv => FailuresClassified
  BY DEF IngestInv, Disciplined, FailuresClassified
<1> QED
  BY <1>1, IngestCorrect, PTL

\* One command at a time, an ingestion that exits with code 0 leaves its own
\* dataset, complete, and no scratch table.
THEOREM OkMeansOwnDataThm == Spec => OkMeansOwnData
<1> DEFINE Own == \A p \in Procs :
                     (exclusive /\ pc[p] = "validate" /\ raw[p] # NoData /\ exit'[p] = "ok")
                        => Complete(raw[p]) /\ \A t \in Scratch : rows[t] = {}
<1>1. ASSUME IngestInv, [Next]_vars PROVE [Own]_vars
  <2> SUFFICES ASSUME ~UNCHANGED vars, NEW p \in Procs,
                      exclusive, pc[p] = "validate", raw[p] # NoData, exit'[p] = "ok"
               PROVE  Complete(raw[p]) /\ \A t \in Scratch : rows[t] = {}
    OBVIOUS
  <2>1. /\ raw[p] \in Datasets
        /\ \A t \in BaseTables : rows[t] = {raw[p]}
        /\ \A t \in Scratch : rows[t] = {}
        /\ \A q \in Procs : q # p => pc[q] = "idle"
    BY <1>1 DEF IngestInv, Disciplined, Idle
  <2>2. PICK q \in Procs :
          StartIngest(q) \/ StartValidate(q) \/ IngestStep(q) \/ InitDb(q) \/ KillCommand(q)
    BY <1>1 DEF Next
  <2>3. \A n \in Procs, label \in {"check_raw_files", "validate", "create_tables"} :
          ~Start(n, label)
    BY DEF Start, Idle
  <2>4. q = p
    <3>1. SUFFICES ASSUME pc[q] = "idle" PROVE FALSE
      BY <2>1
    <3>2. ~IngestStep(q)
      BY <3>1 DEF IngestStep, CheckRawFiles, ExecuteStatement, ReadSummary, Validate
    <3>3. ~ApplySchemaFile(q)
      <4>1. \A i \in 1..3 : SchemaFiles[i] # "idle"
        BY SchemaNamesAre DEF SchemaNames
      <4> QED
        BY <3>1, <4>1 DEF ApplySchemaFile
    <3> QED
      BY <2>2, <2>3, <3>1, <3>2, <3>3
      DEF StartIngest, StartValidate, InitDb, KillCommand, Kill, Idle
  <2>5. ~ApplySchemaFile(p)
    <3>1. \A i \in 1..3 : SchemaFiles[i] # "validate"
      BY SchemaNamesAre DEF SchemaNames
    <3> QED
      BY <3>1 DEF ApplySchemaFile
  <2>6. ~KillCommand(p)
    BY <1>1 DEF KillCommand, Kill, End, IngestInv, TypeOK
  <2>7. Validate(p)
    BY <2>2, <2>3, <2>4, <2>5, <2>6
    DEF StartIngest, StartValidate, InitDb, IngestStep, CheckRawFiles, ExecuteStatement, ReadSummary
  <2>8. ChecksPass
    BY <1>1, <2>7 DEF Validate, Refused, End, IngestInv, TypeOK
  <2>9. \A t \in BaseTables : t \notin Flaws[raw[p]]
    BY <2>1, <2>8 DEF ChecksPass, RowsSound
  <2>10. Flaws[raw[p]] = {}
    BY <2>1, <2>9, PropertiesAssumption DEF BaseTables
  <2> QED
    BY <2>1, <2>10 DEF Complete
<1>2. Spec => [][Own]_vars
  <2> HIDE DEF Own
  <2> QED
    BY <1>1, IngestCorrect, PTL DEF Spec
<1> QED
  BY <1>2 DEF OkMeansOwnData

================================================================================
