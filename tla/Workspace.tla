------------------------------- MODULE Workspace -------------------------------
(****************************************************************************)
(* What every `demandpilot` command shares: the life of a command process   *)
(* (cli.main), its connection to the one DuckDB file (data/db.py) and the   *)
(* schema that init-db applies (data/schema.py).                            *)
(*                                                                          *)
(* A process runs one command at a time.  pc[p] names the statement it      *)
(* executes next ("idle" between commands) and exit[p] how its last command *)
(* ended: "ok" and "error" are main's exit codes 0 and 1, "raw" is an       *)
(* exception that is not a DemandPilotError and escapes main as a           *)
(* traceback, "killed" is a process that died (its connection dies too).    *)
(*                                                                          *)
(* DuckDB is external: the file admits one read-write process or any        *)
(* number of read-only ones, a refused open fails at once, and each         *)
(* statement of a script commits on its own.                                *)
(****************************************************************************)
EXTENDS Naturals, FiniteSets, Sequences

CONSTANTS
    Procs,       \* the processes a user may run commands in
    MaxStarts,   \* bound: how many commands are started in all
    MaxKills     \* bound: how many of them are killed

ASSUME ProcsAssumption == Procs # {} /\ IsFiniteSet(Procs)
ASSUME BoundsAssumption == MaxStarts \in Nat /\ MaxKills \in Nat

VARIABLES
    pc,          \* pc[p]: the next statement of process p
    conn,        \* conn[p]: the connection p holds
    exit,        \* exit[p]: how p's last command ended
    dbFile,      \* whether the database file exists
    schema,      \* the schema files applied so far
    starts,      \* commands started (bounded by MaxStarts)
    kills,       \* commands killed (bounded by MaxKills)
    exclusive    \* whether the users keep to the documented discipline of one
                 \* command at a time; never changes

workspaceVars == <<pc, conn, exit, dbFile, schema, starts, kills, exclusive>>
boundVars == <<starts, kills, exclusive>>

\* Applied in this order, one connection each.  Their statements are all
\* IF NOT EXISTS / OR REPLACE, so a file is one step: a file cut short is a
\* file not yet applied.
SchemaFiles == <<"create_tables", "feature_snapshots", "views">>
SchemaNames == {SchemaFiles[i] : i \in 1..3}

Modes == {"none", "ro", "rw"}
ExitCodes == {"none", "ok", "error", "raw", "killed"}

Idle(p) == pc[p] = "idle"

--------------------------------------------------------------------------------
(****************************************************************************)
(* Connections.                                                             *)
(****************************************************************************)

\* May p open the file in this mode now?
CanOpen(p, mode) ==
    IF mode = "rw" THEN \A q \in Procs \ {p} : conn[q] = "none"
                   ELSE /\ dbFile
                        /\ \A q \in Procs \ {p} : conn[q] # "rw"

Goto(p, label) == pc' = [pc EXCEPT ![p] = label]

\* The command of p ends: the `with` blocks close its connection on the way.
End(p, code) ==
    /\ pc' = [pc EXCEPT ![p] = "idle"]
    /\ exit' = [exit EXCEPT ![p] = code]
    /\ conn' = [conn EXCEPT ![p] = "none"]

\* A script on a connection of its own (Database.execute_script): opened,
\* executed and closed before the next statement of p.
RunScript(p, next) ==
    /\ CanOpen(p, "rw")
    /\ Goto(p, next)
    /\ dbFile' = TRUE
    /\ UNCHANGED <<conn, exit, boundVars>>

\* Database.connect as the first statement of a section that keeps it open.
OpenSection(p, mode, next) ==
    /\ CanOpen(p, mode)
    /\ conn' = [conn EXCEPT ![p] = mode]
    /\ Goto(p, next)
    /\ dbFile' = TRUE
    /\ UNCHANGED <<exit, boundVars>>

--------------------------------------------------------------------------------
(****************************************************************************)
(* The life of a command, and init-db.                                      *)
(****************************************************************************)

Start(p, label) ==
    /\ Idle(p)
    /\ starts < MaxStarts
    /\ exclusive => \A q \in Procs : Idle(q)
    /\ Goto(p, label)
    /\ exit' = [exit EXCEPT ![p] = "none"]
    /\ starts' = starts + 1
    /\ UNCHANGED <<conn, dbFile, schema, kills, exclusive>>

Kill(p) ==
    /\ ~Idle(p)
    /\ kills < MaxKills
    /\ End(p, "killed")
    /\ kills' = kills + 1
    /\ UNCHANGED <<dbFile, schema, starts, exclusive>>

\* A refused connection is a DatabaseError, which main turns into exit code 1.
\* DuckDB creates the file only when it opens it.
Refused(p, mode) ==
    /\ ~CanOpen(p, mode)
    /\ End(p, "error")
    /\ UNCHANGED <<dbFile, schema, boundVars>>

ApplySchemaFile(p) ==
    \E i \in 1..3 :
        /\ pc[p] = SchemaFiles[i]
        /\ \/ /\ i < 3
              /\ RunScript(p, SchemaFiles[i + 1])
              /\ schema' = schema \cup {SchemaFiles[i]}
           \/ /\ i = 3
              /\ CanOpen(p, "rw")
              /\ End(p, "ok")
              /\ dbFile' = TRUE
              /\ schema' = schema \cup {SchemaFiles[i]}
              /\ UNCHANGED boundVars
           \/ Refused(p, "rw")

WorkspaceInit ==
    /\ pc = [p \in Procs |-> "idle"]
    /\ conn = [p \in Procs |-> "none"]
    /\ exit = [p \in Procs |-> "none"]
    /\ dbFile = FALSE
    /\ schema = {}
    /\ starts = 0
    /\ kills = 0
    /\ exclusive \in BOOLEAN
================================================================================
