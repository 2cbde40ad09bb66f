-------------------------- MODULE ConfigLoadingProofs --------------------------
(****************************************************************************)
(* That no command works with settings that do not make sense, and that     *)
(* commands under one root share their stores, for any project tree, any    *)
(* contents of its files, and any number of commands and of edits.          *)
(****************************************************************************)
EXTENDS ConfigLoading, TLAPS

\* The stores of a command under root `at`, without the directory it runs in.
StoresOf(at, settings) ==
    LET app == settings["app"]  filename == settings["logging"].filename
    IN  [database |-> Resolve(app.duckdbPath, at),
         tracking |-> ResolveTrackingUri(app.uri, at, at),
         log |-> IF filename = None THEN None ELSE Resolve(filename, at)]

Checked(f, c) == Coerced(f, c) /\ Valid(f, c)

\* What is known of each command that reached its work.
WorkedWell(u) ==
    /\ \A f \in ConfigNames : Checked(f, u.settings[f])
    /\ ~u.overridden => u.lead = u.settings["simulation"].lead
    /\ u.settings["app"].uri.scheme # "bare" => u.stores = StoresOf(u.root, u.settings)

\* The files a command has read by the time it reads the next one.
ReadInOrder ==
    /\ pc \in FileNames \cup {"idle", "work"}
    /\ pc \notin {"idle", "app"} => "app" \in DOMAIN loaded
    /\ pc \notin {"idle", "app", "costs"} => "costs" \in DOMAIN loaded
    /\ pc \notin {"idle", "app", "costs", "features"} => "features" \in DOMAIN loaded
    /\ pc \in {"simulation", "logging", "work"} => "forecast" \in DOMAIN loaded
    /\ pc \in {"logging", "work"} => "simulation" \in DOMAIN loaded

LoadedChecked == \A f \in ConfigNames \cap DOMAIN loaded : Checked(f, loaded[f])

UsesChecked ==
    /\ \E S : used \in Seq(S)
    /\ \A i \in 1..Len(used) : WorkedWell(used[i])

\* The inductive invariant: an edit can change a file a command has read, but not
\* what the command has loaded, and what is loaded has passed its validator.
ConfigInv == Holds(files) /\ ReadInOrder /\ LoadedChecked /\ UsesChecked

\* The files in the order load_config names them (loader.py:75-79).
LEMMA FilesInOrder ==
    /\ ConfigFiles[1] = "app" /\ ConfigFiles[2] = "costs" /\ ConfigFiles[3] = "features"
    /\ ConfigFiles[4] = "forecast" /\ ConfigFiles[5] = "simulation"
    /\ ConfigNames = {"app", "costs", "features", "forecast", "simulation"}
    /\ FileNames = {"app", "costs", "features", "forecast", "simulation", "logging"}
<1>1. /\ ConfigFiles[1] = "app" /\ ConfigFiles[2] = "costs" /\ ConfigFiles[3] = "features"
      /\ ConfigFiles[4] = "forecast" /\ ConfigFiles[5] = "simulation"
  BY DEF ConfigFiles
<1>2. 1..5 = {1, 2, 3, 4, 5}
  OBVIOUS
<1>3. ConfigNames = {"app", "costs", "features", "forecast", "simulation"}
  BY <1>1, <1>2 DEF ConfigNames
<1> QED
  BY <1>1, <1>3 DEF FileNames

\* What is read as a mapping of known keys has been coerced to its types.
LEMMA OnDiskCoerced ==
    ASSUME Holds(files), NEW dir, NEW f \in FileNames, OnDisk(dir, f).kind = "mapping"
    PROVE  Coerced(f, OnDisk(dir, f).value)
<1>1. DOMAIN files = DOMAIN InitialFiles
  BY DEF Holds
<1>2. dir \in DOMAIN files
  BY DEF OnDisk
<1>3. OnDisk(dir, f) \in Contents[f]
  BY <1>2 DEF OnDisk, Holds
<1> QED
  BY <1>3, ConfigAssumption

\* Before the first command nothing is loaded and nothing used.
LEMMA ConfigInit == Init => ConfigInv
<1> SUFFICES ASSUME Init PROVE ConfigInv
  OBVIOUS
<1>1. Holds(files)
  BY ConfigAssumption DEF Init
<1>2. DOMAIN loaded = {} /\ ReadInOrder
  BY DEF Init, ReadInOrder
<1>3. used \in Seq({}) /\ Len(used) = 0
  BY DEF Init
<1> QED
  BY <1>1, <1>2, <1>3 DEF ConfigInv, LoadedChecked, UsesChecked

\* Reading a file checks it and disturbs nothing read before.
LEMMA ReadConfigStep ==
    ASSUME ConfigInv, ReadConfig
    PROVE  ConfigInv'
<1>1. UNCHANGED <<files, used>>
  BY DEF ReadConfig
<1>2. PICK i \in 1..5 :
        /\ pc = ConfigFiles[i]
        /\ LET content == OnDisk(ConfigsDir, pc)
           IN  \/ LeaksRaw(content) /\ EndWith("raw") /\ UNCHANGED loaded
               \/ Rejected(pc, content) /\ EndWith("error") /\ UNCHANGED loaded
               \/ /\ content.kind = "mapping" /\ Valid(pc, content.value)
                  /\ loaded' = Having(pc, content.value)
                  /\ pc' = IF i < 5 THEN ConfigFiles[i + 1] ELSE "logging"
                  /\ UNCHANGED exit
  BY DEF ReadConfig
<1> DEFINE content == OnDisk(ConfigsDir, pc)
<1>3. CASE pc' = "idle" /\ UNCHANGED loaded
  <2>1. ReadInOrder' /\ LoadedChecked'
    BY <1>3 DEF ConfigInv, ReadInOrder, LoadedChecked
  <2> QED
    BY <1>1, <2>1 DEF ConfigInv, Holds, UsesChecked
<1>4. CASE /\ content.kind = "mapping" /\ Valid(pc, content.value)
           /\ loaded' = Having(pc, content.value)
           /\ pc' = IF i < 5 THEN ConfigFiles[i + 1] ELSE "logging"
  <2>1. pc \in ConfigNames /\ pc \in FileNames
    BY <1>2 DEF ConfigNames, FileNames
  <2>2. Checked(pc, content.value)
    BY <1>4, <2>1, OnDiskCoerced DEF ConfigInv, Checked
  <2> HIDE DEF content
  <2>3. /\ DOMAIN loaded' = DOMAIN loaded \cup {pc} /\ loaded'[pc] = content.value
        /\ \A f \in DOMAIN loaded : f # pc => loaded'[f] = loaded[f]
    BY <1>4 DEF Having
  <2>4. LoadedChecked'
    BY <2>2, <2>3 DEF ConfigInv, LoadedChecked
  <2>5. <<pc, pc'>> \in {<<"app", "costs">>, <<"costs", "features">>,
                         <<"features", "forecast">>, <<"forecast", "simulation">>,
                         <<"simulation", "logging">>}
    BY <1>2, <1>4, FilesInOrder
  <2>6. ReadInOrder'
    BY <2>3, <2>5, FilesInOrder DEF ConfigInv, ReadInOrder
  <2> QED
    BY <1>1, <2>4, <2>6 DEF ConfigInv, Holds, UsesChecked
<1> QED
  BY <1>2, <1>3, <1>4 DEF EndWith

\* logging.yaml joins what is loaded, checked by nobody.
LEMMA SetupLoggingStep ==
    ASSUME ConfigInv, SetupLogging
    PROVE  ConfigInv'
<1>1. UNCHANGED <<files, used>> /\ pc = "logging"
  BY DEF SetupLogging
<1>2. CASE pc' = "idle" /\ UNCHANGED loaded
  <2>1. ReadInOrder' /\ LoadedChecked'
    BY <1>2 DEF ConfigInv, ReadInOrder, LoadedChecked
  <2> QED
    BY <1>1, <2>1 DEF ConfigInv, Holds, UsesChecked
<1>3. ASSUME NEW value, loaded' = Having("logging", value), pc' = "work"
      PROVE  ConfigInv'
  <2>1. /\ DOMAIN loaded' = DOMAIN loaded \cup {"logging"}
        /\ \A f \in DOMAIN loaded : f # "logging" => loaded'[f] = loaded[f]
    BY <1>3 DEF Having
  <2>2. LoadedChecked'
    BY <2>1, FilesInOrder DEF ConfigInv, LoadedChecked
  <2>3. ReadInOrder'
    BY <1>1, <1>3, <2>1 DEF ConfigInv, ReadInOrder
  <2> QED
    BY <1>1, <2>2, <2>3 DEF ConfigInv, Holds, UsesChecked
<1> QED
  BY <1>2, <1>3 DEF SetupLogging, EndWith

\* The stores do not depend on the directory unless the URI has no scheme.
LEMMA StoresHere ==
    ASSUME loaded["app"].uri.scheme \in Schemes \ {"bare"}
    PROVE  Stores = StoresOf(root, loaded)
  BY DEF Stores, StoresOf, ResolveTrackingUri, Schemes

\* A command that reaches its work has all five files checked.
LEMMA WorkStep ==
    ASSUME ConfigInv, Work
    PROVE  ConfigInv'
<1> DEFINE u == [root |-> root, settings |-> loaded, stores |-> Stores,
                 lead |-> IF lead # None THEN lead ELSE loaded["simulation"].lead,
                 overridden |-> lead # None]
<1>1. /\ used' = Append(used, u) /\ pc = "work" /\ pc' = "idle"
      /\ UNCHANGED <<files, loaded>>
  BY DEF Work, EndWith
<1>2. \A f \in ConfigNames : Checked(f, loaded[f])
  BY <1>1, FilesInOrder DEF ConfigInv, ReadInOrder, LoadedChecked
<1>3. loaded["app"].uri.scheme \in Schemes
  BY <1>2, FilesInOrder DEF Checked, Coerced
<1>4. WorkedWell(u)
  BY <1>2, <1>3, StoresHere DEF WorkedWell
<1> HIDE DEF u
<1>5. UsesChecked'
  <2>1. PICK S : used \in Seq(S)
    BY DEF ConfigInv, UsesChecked
  <2>2. used \in Seq(S \cup {u})
    BY <2>1
  <2>3. used' \in Seq(S \cup {u})
    BY <1>1, <2>2
  <2>4. /\ Len(used') = Len(used) + 1 /\ Len(used) \in Nat /\ used'[Len(used) + 1] = u
        /\ \A i \in 1..Len(used) : used'[i] = used[i]
    BY <1>1, <2>2
  <2>5. ASSUME NEW i \in 1..Len(used') PROVE WorkedWell(used'[i])
    <3>1. CASE i = Len(used) + 1
      BY <1>4, <2>4, <3>1
    <3>2. CASE i \in 1..Len(used)
      BY <2>4, <3>2 DEF ConfigInv, UsesChecked
    <3> QED
      BY <2>4, <3>1, <3>2
  <2>6. \A i \in 1..Len(used') : WorkedWell(used'[i])
    BY <2>5
  <2> QED
    BY <2>3, <2>6 DEF UsesChecked
<1>6. ReadInOrder' /\ LoadedChecked' /\ Holds(files')
  BY <1>1 DEF ConfigInv, ReadInOrder, LoadedChecked
<1> QED
  BY <1>5, <1>6 DEF ConfigInv

\* Every step keeps what is loaded and used checked.
LEMMA ConfigNext == ConfigInv /\ [Next]_vars => ConfigInv'
<1> SUFFICES ASSUME ConfigInv, [Next]_vars PROVE ConfigInv'
  OBVIOUS
<1>1. CASE Start
  <2>1. /\ UNCHANGED <<files, used>> /\ pc' = "app" /\ DOMAIN loaded' = {}
    BY <1>1, FilesInOrder DEF Start
  <2>2. ReadInOrder' /\ LoadedChecked'
    BY <2>1, FilesInOrder DEF ReadInOrder, LoadedChecked
  <2> QED
    BY <2>1, <2>2 DEF ConfigInv, Holds, UsesChecked
<1>2. CASE Edit
  <2>1. UNCHANGED <<pc, loaded, used>>
    BY <1>2 DEF Edit, commandVars
  <2>2. PICK d \in DOMAIN files, f \in FileNames : \E content \in Contents[f] :
          files' = [files EXCEPT ![d][f] = content]
    BY <1>2 DEF Edit
  <2>3. PICK content \in Contents[f] : files' = [files EXCEPT ![d][f] = content]
    BY <2>2
  <2>4. content \in UNION {Contents[g] : g \in FileNames}
    OBVIOUS
  <2>5. Holds(files')
    BY <2>3, <2>4 DEF ConfigInv, Holds
  <2> QED
    BY <2>1, <2>5 DEF ConfigInv, ReadInOrder, LoadedChecked, UsesChecked
<1>3. CASE UNCHANGED vars
  BY <1>3 DEF vars, commandVars, ConfigInv, Holds, ReadInOrder, LoadedChecked, UsesChecked
<1> QED
  BY <1>1, <1>2, <1>3, ReadConfigStep, SetupLoggingStep, WorkStep DEF Next

\* A costs.yaml that loads with finite ratios has a fractile strictly between 0 and 1
\* (config/models.py:86-114).
LEMMA CostsFractile ==
    ASSUME NEW c, Checked("costs", c), Finite(c)
    PROVE  0 < Fractile(c)[1] /\ Fractile(c)[1] < Fractile(c)[2]
<1>1. c.unitCost \in Int /\ c.salvage \in Int /\ c.holding \in Int /\ c.penalty \in Int
  BY DEF Finite
<1>2. /\ Fraction(c.unitCost) /\ Share(c.holding) /\ Penalty(c.penalty)
      /\ NaN \notin {c.salvage, c.unitCost} => c.salvage < c.unitCost
  BY DEF Checked, Valid, ValidCosts
<1>3. NaN \notin Int /\ Infinite \notin Int
  BY ConfigAssumption
<1>4. NaN \notin {c.unitCost, c.salvage, c.holding, c.penalty} /\ c.penalty # Infinite
  BY <1>1, <1>3
<1>5. /\ c.unitCost \in 1..(Scale - 1) /\ c.holding \in 0..(Scale - 1) /\ c.penalty \in Nat
      /\ c.salvage < c.unitCost
  BY <1>2, <1>4 DEF Fraction, Share, Penalty
<1>6. Fractile(c) = CriticalFractile(c)
  BY DEF Fractile
<1> QED
  BY <1>1, <1>5, <1>6, ScaleAssumption DEF CriticalFractile, Understock, Overstock

\* A forecast.yaml that loads trains the median, and only proper quantiles
\* (config/models.py:203-213).
LEMMA ForecastQuantiles ==
    ASSUME NEW c, Checked("forecast", c)
    PROVE  LET quantiles == {c.quantiles[k] : k \in DOMAIN c.quantiles}
           IN  quantiles \subseteq 1..(Parts - 1) /\ Parts \div 2 \in quantiles
<1>1. /\ c.quantiles \in Seq(Int)
      /\ \A k \in DOMAIN c.quantiles : c.quantiles[k] > 0 /\ c.quantiles[k] < Parts
      /\ \E k \in DOMAIN c.quantiles : 2 * c.quantiles[k] = Parts
  BY DEF Checked, Coerced, Valid, ValidForecast
<1>2. \A k \in DOMAIN c.quantiles : c.quantiles[k] \in Int
  BY <1>1
<1>3. \A k \in DOMAIN c.quantiles : c.quantiles[k] \in 1..(Parts - 1)
  BY <1>1, <1>2, ConfigAssumption
<1>4. PICK k \in DOMAIN c.quantiles : 2 * c.quantiles[k] = Parts
  BY <1>1
<1>5. c.quantiles[k] = Parts \div 2
  BY <1>2, <1>4
<1> QED
  BY <1>3, <1>5

\* "Validation failures raise ConfigError before any pipeline work starts"
\* (docs/adr/009-pydantic-config.md:22-23), in every project, whatever users write
\* into the five files and whenever they do it, as far as SoundBeforeWork goes: the
\* fractile is sound unless costs.yaml holds .nan or .inf, and the lead time unless
\* --lead-time-days overrides it.
THEOREM SoundBeforeWorkThm == Spec => []SoundBeforeWork
<1>1. ConfigInv => SoundBeforeWork
  <2> SUFFICES ASSUME ConfigInv, NEW i \in DOMAIN used
               PROVE  LET s == used[i].settings  fractile == Fractile(s["costs"])
                          quantiles == {s["forecast"].quantiles[k] :
                                           k \in DOMAIN s["forecast"].quantiles}
                      IN  /\ Finite(s["costs"])
                                => 0 < fractile[1] /\ fractile[1] < fractile[2]
                          /\ quantiles \subseteq 1..(Parts - 1) /\ Parts \div 2 \in quantiles
                          /\ \A days \in s["features"].lags \cup s["features"].windows :
                                days >= 1
                          /\ s["forecast"].testSize >= 1 /\ s["forecast"].validationSize >= 1
                          /\ s["forecast"].horizon >= 1
                          /\ ~used[i].overridden => used[i].lead >= 1
    BY DEF SoundBeforeWork
  <2> DEFINE s == used[i].settings
  <2>1. WorkedWell(used[i])
    <3>1. PICK S : used \in Seq(S)
      BY DEF ConfigInv, UsesChecked
    <3> QED
      BY <3>1 DEF ConfigInv, UsesChecked
  <2>2. /\ Checked("costs", s["costs"]) /\ Checked("features", s["features"])
        /\ Checked("forecast", s["forecast"]) /\ Checked("simulation", s["simulation"])
    BY <2>1, FilesInOrder DEF WorkedWell
  <2>3. ~used[i].overridden => used[i].lead = s["simulation"].lead
    BY <2>1 DEF WorkedWell
  <2> HIDE DEF s
  <2>4. \A days \in s["features"].lags \cup s["features"].windows : days >= 1
    BY <2>2 DEF Checked, Valid, ValidFeatures
  <2>5. /\ s["forecast"].testSize >= 1 /\ s["forecast"].validationSize >= 1
        /\ s["forecast"].horizon >= 1
    BY <2>2 DEF Checked, Valid, ValidForecast
  <2>6. s["simulation"].lead >= 1
    BY <2>2 DEF Checked, Valid, ValidSimulation
  <2> QED
    BY <2>2, <2>3, <2>4, <2>5, <2>6, CostsFractile, ForecastQuantiles DEF s
<1> QED
  BY <1>1, ConfigInit, ConfigNext, PTL DEF Spec

\* "Relative paths resolve against the project root" (configs/app.yaml:3-4,
\* mlflow_utils.py:19-26), from every directory and for every pair of commands:
\* under one root, app.yaml and logging.yaml they meet in the same stores.
THEOREM SameRootSameStoresThm == Spec => []SameRootSameStores
<1>1. ConfigInv => SameRootSameStores
  <2> SUFFICES ASSUME ConfigInv, NEW i \in DOMAIN used, NEW j \in DOMAIN used,
                      used[i].root = used[j].root,
                      \A f \in {"app", "logging"} : used[i].settings[f] = used[j].settings[f],
                      used[i].settings["app"].uri.scheme # "bare"
               PROVE  used[i].stores = used[j].stores
    BY DEF SameRootSameStores
  <2>1. WorkedWell(used[i]) /\ WorkedWell(used[j])
    <3>1. PICK S : used \in Seq(S)
      BY DEF ConfigInv, UsesChecked
    <3> QED
      BY <3>1 DEF ConfigInv, UsesChecked
  <2>2. /\ used[i].stores = StoresOf(used[i].root, used[i].settings)
        /\ used[j].stores = StoresOf(used[j].root, used[j].settings)
    BY <2>1 DEF WorkedWell
  <2> QED
    BY <2>2 DEF StoresOf
<1> QED
  BY <1>1, ConfigInit, ConfigNext, PTL DEF Spec

--------------------------------------------------------------------------------
(****************************************************************************)
(* What has been read, exactly, and what the counters bound.                *)
(****************************************************************************)

\* The files a command has read by the time it reads the next one, and no other.
ReadSoFar ==
    /\ pc = "app" => DOMAIN loaded = {}
    /\ pc = "costs" => DOMAIN loaded = {"app"}
    /\ pc = "features" => DOMAIN loaded = {"app", "costs"}
    /\ pc = "forecast" => DOMAIN loaded = {"app", "costs", "features"}
    /\ pc = "simulation" => DOMAIN loaded = {"app", "costs", "features", "forecast"}
    /\ pc = "logging" => DOMAIN loaded = ConfigNames
    /\ pc = "work" => DOMAIN loaded = FileNames
    /\ DOMAIN loaded \subseteq FileNames

\* A command that has not ended will use its settings once more.
Counted ==
    /\ exit \in {"none", "ok", "error", "raw"} /\ lead \in Leads \cup {None}
    /\ starts \in 0..MaxStarts /\ edits \in 0..MaxEdits
    /\ Len(used) <= starts /\ (pc # "idle" => Len(used) < starts)

ConfigTypeInv == ConfigInv /\ ReadSoFar /\ Counted

\* The next file is one more.
LEMMA ReadConfigReads ==
    ASSUME ConfigTypeInv, ReadConfig
    PROVE  ReadSoFar' /\ Counted'
<1>1. /\ pc # "idle" /\ UNCHANGED <<used, lead, starts, edits>>
      /\ \/ UNCHANGED loaded /\ pc' = "idle" /\ exit' \in {"raw", "error"}
         \/ /\ \E value : loaded' = Having(pc, value)
            /\ UNCHANGED exit
            /\ <<pc, pc'>> \in {<<"app", "costs">>, <<"costs", "features">>,
                                <<"features", "forecast">>, <<"forecast", "simulation">>,
                                <<"simulation", "logging">>}
  <2>1. PICK i \in 1..5 :
          /\ pc = ConfigFiles[i]
          /\ LET content == OnDisk(ConfigsDir, pc)
             IN  \/ LeaksRaw(content) /\ EndWith("raw") /\ UNCHANGED loaded
                 \/ Rejected(pc, content) /\ EndWith("error") /\ UNCHANGED loaded
                 \/ /\ content.kind = "mapping" /\ Valid(pc, content.value)
                    /\ loaded' = Having(pc, content.value)
                    /\ pc' = IF i < 5 THEN ConfigFiles[i + 1] ELSE "logging"
                    /\ UNCHANGED exit
    BY DEF ReadConfig
  <2>2. pc \in {"app", "costs", "features", "forecast", "simulation"}
    BY <2>1, FilesInOrder
  <2>3. (pc' = IF i < 5 THEN ConfigFiles[i + 1] ELSE "logging")
          => <<pc, pc'>> \in {<<"app", "costs">>, <<"costs", "features">>,
                              <<"features", "forecast">>, <<"forecast", "simulation">>,
                              <<"simulation", "logging">>}
    BY <2>1, FilesInOrder
  <2>4. UNCHANGED <<used, lead, starts, edits>>
    BY DEF ReadConfig
  <2> QED
    BY <2>1, <2>2, <2>3, <2>4 DEF EndWith
<1>2. CASE UNCHANGED loaded /\ pc' = "idle" /\ exit' \in {"raw", "error"}
  BY <1>1, <1>2 DEF ConfigTypeInv, ReadSoFar, Counted
<1>3. ASSUME NEW value, loaded' = Having(pc, value), UNCHANGED exit,
             <<pc, pc'>> \in {<<"app", "costs">>, <<"costs", "features">>,
                              <<"features", "forecast">>, <<"forecast", "simulation">>,
                              <<"simulation", "logging">>}
      PROVE  ReadSoFar' /\ Counted'
  <2>1. DOMAIN loaded' = DOMAIN loaded \cup {pc}
    BY <1>3 DEF Having
  <2>2. ReadSoFar'
    BY <1>3, <2>1, FilesInOrder DEF ConfigTypeInv, ReadSoFar
  <2>3. Counted'
    BY <1>1, <1>3 DEF ConfigTypeInv, Counted
  <2> QED
    BY <2>2, <2>3
<1> QED
  BY <1>1, <1>2, <1>3

\* logging.yaml is the last.
LEMMA SetupLoggingReads ==
    ASSUME ConfigTypeInv, SetupLogging
    PROVE  ReadSoFar' /\ Counted'
<1>1. /\ pc = "logging" /\ UNCHANGED <<used, lead, starts, edits>>
      /\ \/ UNCHANGED loaded /\ pc' = "idle" /\ exit' \in {"raw", "error"}
         \/ (\E value : loaded' = Having("logging", value)) /\ UNCHANGED exit /\ pc' = "work"
  BY DEF SetupLogging, EndWith
<1>2. CASE UNCHANGED loaded /\ pc' = "idle" /\ exit' \in {"raw", "error"}
  BY <1>1, <1>2 DEF ConfigTypeInv, ReadSoFar, Counted
<1>3. ASSUME NEW value, loaded' = Having("logging", value), UNCHANGED exit, pc' = "work"
      PROVE  ReadSoFar' /\ Counted'
  <2>1. DOMAIN loaded' = DOMAIN loaded \cup {"logging"}
    BY <1>3 DEF Having
  <2>2. ReadSoFar'
    BY <1>1, <1>3, <2>1, FilesInOrder DEF ConfigTypeInv, ReadSoFar
  <2>3. Counted'
    BY <1>1, <1>3 DEF ConfigTypeInv, Counted
  <2> QED
    BY <2>2, <2>3
<1> QED
  BY <1>1, <1>2, <1>3

\* Every step keeps it so.
LEMMA ConfigTypeNext == ConfigTypeInv /\ [Next]_vars => ConfigTypeInv'
<1> SUFFICES ASSUME ConfigTypeInv, [Next]_vars PROVE ReadSoFar' /\ Counted'
  BY ConfigNext DEF ConfigTypeInv
<1>1. Len(used) \in Nat /\ starts \in Nat /\ MaxStarts \in Nat /\ MaxEdits \in Nat
  <2>1. PICK S : used \in Seq(S)
    BY DEF ConfigTypeInv, ConfigInv, UsesChecked
  <2> QED
    BY <2>1, ConfigAssumption DEF ConfigTypeInv, Counted
<1>2. CASE Start
  <2>1. /\ UNCHANGED <<used, edits>> /\ pc' = "app" /\ DOMAIN loaded' = {} /\ exit' = "none"
        /\ starts < MaxStarts /\ starts' = starts + 1 /\ lead' \in Leads \cup {None}
    BY <1>2, FilesInOrder DEF Start
  <2>2. ReadSoFar'
    BY <2>1 DEF ReadSoFar
  <2>3. starts' \in 0..MaxStarts /\ Len(used) < starts' /\ Len(used) <= starts'
    BY <1>1, <2>1 DEF ConfigTypeInv, Counted
  <2> QED
    BY <2>1, <2>2, <2>3 DEF ConfigTypeInv, Counted
<1>3. CASE Work
  <2>1. /\ pc # "idle" /\ pc' = "idle" /\ exit' = "ok" /\ \E u : used' = Append(used, u)
        /\ UNCHANGED <<lead, loaded, starts, edits>>
    BY <1>3 DEF Work, EndWith
  <2>2. Len(used') <= starts
    <3>1. PICK S : used \in Seq(S)
      BY DEF ConfigTypeInv, ConfigInv, UsesChecked
    <3>2. PICK u : used' = Append(used, u)
      BY <2>1
    <3>3. used \in Seq(S \cup {u})
      BY <3>1
    <3>4. Len(used') = Len(used) + 1
      BY <3>2, <3>3
    <3> QED
      BY <1>1, <2>1, <3>4 DEF ConfigTypeInv, Counted
  <2> QED
    BY <2>1, <2>2 DEF ConfigTypeInv, ReadSoFar, Counted
<1>4. CASE Edit
  <2>1. UNCHANGED <<pc, loaded, used, exit, lead, starts>> /\ edits < MaxEdits /\ edits' = edits + 1
    BY <1>4 DEF Edit, commandVars
  <2>2. edits' \in 0..MaxEdits
    BY <1>1, <2>1 DEF ConfigTypeInv, Counted
  <2> QED
    BY <2>1, <2>2 DEF ConfigTypeInv, ReadSoFar, Counted
<1>5. CASE UNCHANGED vars
  BY <1>5 DEF vars, commandVars, ConfigTypeInv, ReadSoFar, Counted
<1> QED
  BY <1>2, <1>3, <1>4, <1>5, ReadConfigReads, SetupLoggingReads DEF Next

\* Whatever is edited between two reads (loader.py:75-79), a command has read exactly
\* the files before its next one, and what it has read has passed its validator.
THEOREM ConfigTypeCorrect == Spec => []TypeOK
<1>1. Init => ConfigTypeInv
  <2> SUFFICES ASSUME Init PROVE ReadSoFar /\ Counted
    BY ConfigInit DEF ConfigTypeInv
  <2>1. /\ pc = "idle" /\ DOMAIN loaded = {} /\ Len(used) = 0 /\ starts = 0 /\ edits = 0
        /\ exit = "none" /\ lead = None
    BY DEF Init
  <2> QED
    BY <2>1, ConfigAssumption DEF ReadSoFar, Counted
<1>2. ConfigTypeInv => TypeOK
  <2> SUFFICES ASSUME ConfigTypeInv PROVE TypeOK
    OBVIOUS
  <2>1. /\ Holds(files) /\ pc \in FileNames \cup {"idle", "work"}
    BY DEF ConfigTypeInv, ConfigInv, ReadInOrder
  <2>2. ASSUME NEW i \in 1..5, pc = ConfigFiles[i]
        PROVE  DOMAIN loaded = {ConfigFiles[j] : j \in 1..(i - 1)}
    <3>1. /\ 1..(1 - 1) = {} /\ 1..(2 - 1) = {1} /\ 1..(3 - 1) = {1, 2}
          /\ 1..(4 - 1) = {1, 2, 3} /\ 1..(5 - 1) = {1, 2, 3, 4}
      OBVIOUS
    <3>2. i \in {1, 2, 3, 4, 5}
      OBVIOUS
    <3>3. {ConfigFiles[j] : j \in 1..(i - 1)} =
            CASE i = 1 -> {}
              [] i = 2 -> {"app"}
              [] i = 3 -> {"app", "costs"}
              [] i = 4 -> {"app", "costs", "features"}
              [] i = 5 -> {"app", "costs", "features", "forecast"}
      BY <3>1, <3>2, FilesInOrder
    <3> QED
      BY <2>2, <3>2, <3>3, FilesInOrder DEF ConfigTypeInv, ReadSoFar
  <2>3. \A f \in DOMAIN loaded \ {"logging"} : Valid(f, loaded[f])
    <3>1. DOMAIN loaded \ {"logging"} \subseteq ConfigNames
      BY FilesInOrder DEF ConfigTypeInv, ReadSoFar
    <3> QED
      BY <3>1 DEF ConfigTypeInv, ConfigInv, LoadedChecked, Checked
  <2> QED
    BY <2>1, <2>2, <2>3 DEF ConfigTypeInv, ReadSoFar, Counted, TypeOK
<1> QED
  BY <1>1, <1>2, ConfigTypeNext, PTL DEF Spec
================================================================================
