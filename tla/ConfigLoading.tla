----------------------------- MODULE ConfigLoading -----------------------------
(****************************************************************************)
(* What a command does before its work begins: it finds the project root,   *)
(* reads and validates the five configuration files one after the other     *)
(* (config/loader.py, config/models.py), sets up logging                    *)
(* (logging_setup.py), and resolves every path and the MLflow tracking URI  *)
(* (mlflow_utils.py).  Users edit the files at any moment, also between two *)
(* reads of one command, and start commands in any directory.               *)
(*                                                                          *)
(* A path is [absolute, parts]; resolved it is its parts alone, a sequence  *)
(* of names from the file system's top.  The content of a file is a record: *)
(* its "kind" says why it cannot be read as a mapping of the known keys, or *)
(* is "mapping", and then "value" holds the settings that matter.  The work *)
(* itself belongs to the other modules: here it is one step, kept in "used".*)
(****************************************************************************)
EXTENDS Newsvendor, Sequences

CONSTANTS
    Contents,       \* Contents[f]: what users may put into file f
    InitialFiles,   \* InitialFiles[dir][f]: the files a behaviour starts from
    Cwds,           \* the directories commands are started in
    Roots,          \* what --root and DEMANDPILOT_ROOT may be
    Unwritable,     \* the directories that cannot be created
    Leads,          \* what --lead-time-days may be
    Parts,          \* the grid of quantiles: p stands for p / Parts
    Infinite, NaN,  \* the floats .inf and .nan
    None, Empty,    \* an option not given; an empty environment variable
    MaxStarts,      \* bound: the commands started
    MaxEdits        \* bound: the edits of files

ConfigFiles == <<"app", "costs", "features", "forecast", "simulation">>
ConfigNames == {ConfigFiles[i] : i \in 1..5}
FileNames == ConfigNames \cup {"logging"}

Schemes == {"sqlite", "file", "remote", "bare"}

\* What pydantic has made of a file's values when the validators see them; a value
\* it cannot make so is one of the kinds that are rejected.
Coerced(f, c) ==
    /\ f = "app" => c.uri.scheme \in Schemes
    /\ f = "costs" => c \in [{"unitCost", "salvage", "holding", "penalty"} ->
                               Int \cup {Infinite, NaN}]
    /\ f = "forecast" => c.quantiles \in Seq(Int)

\* Every directory holds, for every file, something users may put there.
Holds(dirs) ==
    /\ dirs \in [DOMAIN InitialFiles -> [FileNames -> UNION {Contents[f] : f \in FileNames}]]
    /\ \A d \in DOMAIN dirs : \A f \in FileNames : dirs[d][f] \in Contents[f]

ASSUME ConfigAssumption ==
    /\ DOMAIN Contents = FileNames /\ Holds(InitialFiles)
    /\ \A f \in FileNames : \A content \in Contents[f] :
          content.kind = "mapping" => Coerced(f, content.value)
    /\ Infinite \notin Int /\ NaN \notin Int /\ None \notin Int /\ NaN # Infinite
    /\ Parts \in Nat \ {0} /\ Parts % 2 = 0
    /\ MaxStarts \in Nat /\ MaxEdits \in Nat

VARIABLES
    files,     \* files[dir][f]: the content of file f in directory dir
    pc,        \* what the command does next: a file it reads, or "idle"
    cwd,       \* the directory the command was started in
    root,      \* the project root it resolved
    lead,      \* its --lead-time-days, or None
    loaded,    \* loaded[f]: the settings it has read and validated
    exit,      \* how the last command ended
    used,      \* what each command that reached its work worked with, in order
    logDirs,   \* the directories created for log files
    starts,
    edits

commandVars == <<pc, cwd, root, lead, loaded, exit, used, logDirs>>
vars == <<files, commandVars, starts, edits>>

--------------------------------------------------------------------------------
(****************************************************************************)
(* Paths.                                                                   *)
(****************************************************************************)

Resolve(path, base) == IF path.absolute THEN path.parts ELSE base \o path.parts

\* --root, else a DEMANDPILOT_ROOT that is not empty, else the directory.
ResolveRoot(option, env, here) ==
    CASE option # None                         -> Resolve(option, here)
      [] option = None /\ env \notin {None, Empty} -> Resolve(env, here)
      [] OTHER                                 -> here

\* Mutation: every relative path taken from where the command was started.
ResolveTrackingUriHere(uri, at, here) ==
    [scheme |-> uri.scheme,
     store |-> IF uri.scheme = "remote" THEN uri.path.parts ELSE Resolve(uri.path, here)]

\* The tracking store behind mlflow.tracking_uri.  sqlite:/// and file: paths
\* are resolved against the root and other schemes name a server, but a path
\* without a scheme is left for MLflow to take from the directory it runs in.
ResolveTrackingUri(uri, at, here) ==
    [scheme |-> uri.scheme,
     store |-> CASE uri.scheme \in {"sqlite", "file"} -> Resolve(uri.path, at)
                 [] uri.scheme = "remote"            -> uri.path.parts
                 [] uri.scheme = "bare"              -> Resolve(uri.path, here)]

Parent(path) == SubSeq(path, 1, Len(path) - 1)

--------------------------------------------------------------------------------
(****************************************************************************)
(* The validators of config/models.py.                                      *)
(****************************************************************************)

\* The bounds of a Field reject what compares outside them, and NaN compares false
\* with everything: it passes each of them, and the comparison of two ratios too.
Fraction(x) == x = NaN \/ x \in 1..(Scale - 1)
Share(x) == x = NaN \/ x \in 0..(Scale - 1)
Penalty(x) == x \in {NaN, Infinite} \/ x \in Nat

\* Mutation: salvage > cost rejected, salvage = cost let through.
ValidCostsLoose(c) ==
    /\ Fraction(c.unitCost) /\ Share(c.salvage) /\ Share(c.holding) /\ Penalty(c.penalty)
    /\ NaN \notin {c.salvage, c.unitCost} => c.salvage <= c.unitCost

ValidCosts(c) ==
    /\ Fraction(c.unitCost) /\ Share(c.salvage) /\ Share(c.holding) /\ Penalty(c.penalty)
    /\ NaN \notin {c.salvage, c.unitCost} => c.salvage < c.unitCost

ValidFeatures(c) ==
    /\ c.lags # {} /\ \A n \in c.lags : n >= 1
    /\ c.windows # {} /\ \A n \in c.windows : n >= 1

ValidForecast(c) ==
    /\ \A n \in {c.horizon, c.stride, c.testSize, c.validationSize} : n >= 1
    /\ c.quantiles # << >>
    /\ \A i \in DOMAIN c.quantiles : c.quantiles[i] > 0 /\ c.quantiles[i] < Parts
    /\ \A i, j \in DOMAIN c.quantiles : i < j => c.quantiles[i] < c.quantiles[j]
    /\ \E i \in DOMAIN c.quantiles : 2 * c.quantiles[i] = Parts

ValidSimulation(c) ==
    /\ c.lead >= 1 /\ c.review >= 1
    /\ c.service = NaN \/ c.service \in 1..(Parts - 1)

ValidApp(c) == c.port \in 1..65535

Valid(f, c) ==
    CASE f = "app"        -> ValidApp(c)
      [] f = "costs"      -> ValidCosts(c)
      [] f = "features"   -> ValidFeatures(c)
      [] f = "forecast"   -> ValidForecast(c)
      [] f = "simulation" -> ValidSimulation(c)

--------------------------------------------------------------------------------
(****************************************************************************)
(* The settings a command works with.                                       *)
(****************************************************************************)

Finite(c) == {c.unitCost, c.salvage, c.holding, c.penalty} \subseteq Int

\* CostsConfig.critical_fractile: its guards reject a cost that is <= 0, which NaN
\* is not, and infinity over infinity is NaN.
Fractile(c) == IF Finite(c) THEN CriticalFractile(c) ELSE NaN

--------------------------------------------------------------------------------
(****************************************************************************)
(* One command.                                                             *)
(****************************************************************************)

OnDisk(dir, f) == IF dir \in DOMAIN files THEN files[dir][f] ELSE [kind |-> "missing"]

ConfigsDir == root \o <<"configs">>

Start ==
    /\ pc = "idle" /\ starts < MaxStarts
    /\ starts' = starts + 1
    /\ \E here \in Cwds, option \in Roots \cup {None}, env \in Roots \cup {None, Empty} :
          cwd' = here /\ root' = ResolveRoot(option, env, here)
    /\ lead' \in Leads \cup {None}
    /\ pc' = ConfigFiles[1] /\ loaded' = << >> /\ exit' = "none"
    /\ UNCHANGED <<files, used, logDirs, edits>>

Having(f, value) ==
    [g \in DOMAIN loaded \cup {f} |-> IF g = f THEN value ELSE loaded[g]]

EndWith(code) == pc' = "idle" /\ exit' = code

\* A file that cannot be opened (for another reason than being missing) or
\* decoded, and keys that are not strings, raise what nobody wraps.
LeaksRaw(content) == content.kind \in {"unreadable", "odd_keys"}

\* ConfigError: _read_yaml's own, or pydantic's rejection wrapped.
Rejected(f, content) ==
    \/ content.kind \in {"missing", "garbage", "not_mapping", "unknown_keys"}
    \/ content.kind = "mapping" /\ ~Valid(f, content.value)

\* Mutation: simulation.yaml left to be read when it is needed.
ReadConfigButLast ==
    /\ \E i \in 1..4 :
          /\ pc = ConfigFiles[i]
          /\ LET content == OnDisk(ConfigsDir, pc)
             IN  \/ LeaksRaw(content) /\ EndWith("raw") /\ UNCHANGED loaded
                 \/ Rejected(pc, content) /\ EndWith("error") /\ UNCHANGED loaded
                 \/ /\ content.kind = "mapping" /\ Valid(pc, content.value)
                    /\ loaded' = Having(pc, content.value)
                    /\ pc' = IF i < 4 THEN ConfigFiles[i + 1] ELSE "logging"
                    /\ UNCHANGED exit
    /\ UNCHANGED <<files, cwd, root, lead, used, logDirs, starts, edits>>

\* One file is read and validated as it is now; app.yaml comes first and
\* nothing after a file that is refused is read.
ReadConfig ==
    /\ \E i \in 1..5 :
          /\ pc = ConfigFiles[i]
          /\ LET content == OnDisk(ConfigsDir, pc)
             IN  \/ LeaksRaw(content) /\ EndWith("raw") /\ UNCHANGED loaded
                 \/ Rejected(pc, content) /\ EndWith("error") /\ UNCHANGED loaded
                 \/ /\ content.kind = "mapping" /\ Valid(pc, content.value)
                    /\ loaded' = Having(pc, content.value)
                    /\ pc' = IF i < 5 THEN ConfigFiles[i + 1] ELSE "logging"
                    /\ UNCHANGED exit
    /\ UNCHANGED <<files, cwd, root, lead, used, logDirs, starts, edits>>

\* logging.yaml is looked up where app.yaml says, not where app.yaml was found.
\* The directory of the log file is created before dictConfig judges the rest.
SetupLogging ==
    /\ pc = "logging"
    /\ LET content == OnDisk(Resolve(loaded["app"].configsDir, root), "logging")
           mapping == content.kind = "mapping"
           filename == content.value.filename
           logDir == Parent(Resolve(filename, root))
       IN  \/ /\ content.kind \in {"missing", "garbage", "not_mapping"}
              /\ EndWith("error") /\ UNCHANGED <<loaded, logDirs>>
           \/ /\ \/ content.kind = "unreadable"
                 \/ mapping /\ content.value.nullHandlers
                 \/ mapping /\ ~content.value.nullHandlers
                       /\ filename # None /\ logDir \in Unwritable
              /\ EndWith("raw") /\ UNCHANGED <<loaded, logDirs>>
           \/ /\ mapping /\ ~content.value.nullHandlers
              /\ filename # None => logDir \notin Unwritable
              /\ logDirs' = IF filename = None THEN logDirs ELSE logDirs \cup {logDir}
              /\ \/ ~content.value.accepted /\ EndWith("error") /\ UNCHANGED loaded
                 \/ /\ content.value.accepted
                    /\ loaded' = Having("logging", content.value)
                    /\ pc' = "work" /\ UNCHANGED exit
    /\ UNCHANGED <<files, cwd, root, lead, used, starts, edits>>

\* Where the command keeps its state.
Stores ==
    LET app == loaded["app"]  filename == loaded["logging"].filename
    IN  [database |-> Resolve(app.duckdbPath, root),
         tracking |-> ResolveTrackingUri(app.uri, root, cwd),
         log |-> IF filename = None THEN None ELSE Resolve(filename, root)]

\* The work of the command, on what it has loaded; --lead-time-days overrides
\* the configured lead time unseen by any validator.
Work ==
    /\ pc = "work"
    /\ used' = Append(used,
          [root |-> root, settings |-> loaded, stores |-> Stores,
           lead |-> IF lead # None THEN lead ELSE loaded["simulation"].lead,
           overridden |-> lead # None])
    /\ EndWith("ok")
    /\ UNCHANGED <<files, cwd, root, lead, loaded, logDirs, starts, edits>>

\* A user saves a file, whatever runs at the time.
Edit ==
    /\ edits < MaxEdits
    /\ edits' = edits + 1
    /\ \E d \in DOMAIN files, f \in FileNames : \E content \in Contents[f] :
          files' = [files EXCEPT ![d][f] = content]
    /\ UNCHANGED <<commandVars, starts>>

Init ==
    /\ files = InitialFiles
    /\ pc = "idle" /\ exit = "none" /\ lead = None
    /\ cwd = << >> /\ root = << >> /\ loaded = << >>
    /\ used = << >> /\ logDirs = {}
    /\ starts = 0 /\ edits = 0

Next == Start \/ ReadConfig \/ SetupLogging \/ Work \/ Edit

Spec == Init /\ [][Next]_vars

--------------------------------------------------------------------------------
(****************************************************************************)
(* Properties.                                                              *)
(****************************************************************************)

\* What a command has read is what it should have read by then: the files before
\* the one it reads next, each with settings that passed their validator.
TypeOK ==
    /\ Holds(files)
    /\ pc \in FileNames \cup {"idle", "work"}
    /\ exit \in {"none", "ok", "error", "raw"}
    /\ lead \in Leads \cup {None}
    /\ \A i \in 1..5 : pc = ConfigFiles[i] => DOMAIN loaded = {ConfigFiles[j] : j \in 1..(i - 1)}
    /\ pc = "logging" => DOMAIN loaded = ConfigNames
    /\ pc = "work" => DOMAIN loaded = FileNames
    /\ \A f \in DOMAIN loaded \ {"logging"} : Valid(f, loaded[f])
    /\ starts \in 0..MaxStarts /\ edits \in 0..MaxEdits
    /\ Len(used) <= starts

\* "Validation failures raise ConfigError before any pipeline work starts"
\* (docs/adr/009-pydantic-config.md:22-23): whatever was on disk and whoever
\* edited it meanwhile, no command works with a fractile outside (0, 1), a
\* forecast without its median, a feature that reads its own day, a split that
\* counts back zero days or a horizon of zero days.  Three ways around it are in the
\* code: a cost ratio of .nan, a penalty of .inf, both of which make the fractile
\* NaN, and --lead-time-days.
SoundBeforeWork ==
    \A i \in DOMAIN used :
        LET s == used[i].settings  fractile == Fractile(s["costs"])
            quantiles == {s["forecast"].quantiles[k] : k \in DOMAIN s["forecast"].quantiles}
        IN  /\ Finite(s["costs"]) => 0 < fractile[1] /\ fractile[1] < fractile[2]
            /\ quantiles \subseteq 1..(Parts - 1) /\ Parts \div 2 \in quantiles
            /\ \A days \in s["features"].lags \cup s["features"].windows : days >= 1
            /\ s["forecast"].testSize >= 1 /\ s["forecast"].validationSize >= 1
            /\ s["forecast"].horizon >= 1
            /\ ~used[i].overridden => used[i].lead >= 1

\* "Relative paths resolve against the project root" (configs/app.yaml:3-4,
\* mlflow_utils.py:19-26): two commands under one root and one app.yaml and
\* logging.yaml meet in the same database, MLflow store and log, in whatever
\* directory and with whatever DEMANDPILOT_ROOT each was started.  A tracking URI
\* without a scheme is the exception.
SameRootSameStores ==
    \A i, j \in DOMAIN used :
        (/\ used[i].root = used[j].root
         /\ \A f \in {"app", "logging"} : used[i].settings[f] = used[j].settings[f]
         /\ used[i].settings["app"].uri.scheme # "bare")
        => used[i].stores = used[j].stores
================================================================================
