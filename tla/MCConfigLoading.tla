----------------------------- MODULE MCConfigLoading -----------------------------
(****************************************************************************)
(* A small instance of ConfigLoading: one project below the file system's   *)
(* top, entered from inside and from outside, and for each file the content *)
(* of the repository, others that load, and some that must not.             *)
(****************************************************************************)
EXTENDS ConfigLoading, TLC

Rel(parts) == [absolute |-> FALSE, parts |-> parts]
Abs(parts) == [absolute |-> TRUE, parts |-> parts]
Yaml(value) == [kind |-> "mapping", value |-> value]

App(scheme, path, configs) ==
    Yaml([port |-> 8501, duckdbPath |-> Rel(<<"data", "db">>), configsDir |-> configs,
          uri |-> [scheme |-> scheme, path |-> path]])

Mlruns == Rel(<<"mlruns">>)
Configs == Rel(<<"configs">>)

Costs(unitCost, salvage, holding, penalty) ==
    Yaml([unitCost |-> unitCost, salvage |-> salvage, holding |-> holding,
          penalty |-> penalty])

Features(lags) == Yaml([lags |-> lags, windows |-> {2}])

Forecast(quantiles, validationSize) ==
    Yaml([horizon |-> 2, stride |-> 1, testSize |-> 1, validationSize |-> validationSize,
          quantiles |-> quantiles])

Simulation(days) == Yaml([lead |-> days, review |-> 1, service |-> 9])

Logging(filename, nullHandlers, accepted) ==
    Yaml([filename |-> filename, nullHandlers |-> nullHandlers, accepted |-> accepted])

Shipped ==
    [app |-> App("sqlite", Mlruns, Configs),
     costs |-> Costs(65, 35, 2, 10),
     features |-> Features({1, 7}),
     forecast |-> Forecast(<<1, 5, 9>>, 1),
     simulation |-> Simulation(7),
     logging |-> Logging(Rel(<<"logs", "log">>), FALSE, TRUE)]

\* A second directory holds a logging.yaml for whoever points configs_dir there.
MCInitialFiles == (<<"p1", "configs">> :> Shipped) @@ (<<"etc">> :> Shipped)

MCContents ==
    [app |-> {Shipped.app, App("file", Mlruns, Configs), App("bare", Mlruns, Configs),
              App("remote", Abs(<<"server">>), Abs(<<"etc">>)),
              App("sqlite", Abs(<<"shared">>), Rel(<<"etc">>)), [kind |-> "missing"]},
     costs |-> {Shipped.costs, Costs(50, 50, 0, 10), Costs(50, 0, 0, Infinite),
                Costs(NaN, 35, 2, 10)},
     features |-> {Shipped.features, Features({0, 7}), [kind |-> "unreadable"]},
     forecast |-> {Shipped.forecast, Forecast(<<5, 5, 9>>, 1), Forecast(<<1, 9>>, 1),
                   Forecast(<<5, 10>>, 1), Forecast(<<5>>, 0), [kind |-> "unknown_keys"]},
     simulation |-> {Shipped.simulation, Simulation(0), [kind |-> "odd_keys"]},
     logging |-> {Shipped.logging, Logging(Abs(<<"var", "log">>), FALSE, TRUE),
                  Logging(None, FALSE, FALSE), Logging(None, TRUE, TRUE),
                  Logging(Rel(<<"tmp", "log">>), FALSE, TRUE), [kind |-> "garbage"]}]

MCCwds == {<<"p1">>, << >>}
MCRoots == {Rel(<<"p1">>), Abs(<<"p1">>)}
MCUnwritable == {<<"p1", "tmp">>}
MCLeads == {0}
================================================================================
