-------------------------------- MODULE Backtest --------------------------------
(****************************************************************************)
(* `train` up to its MLflow run (forecasting/pipeline.py): the datasets of  *)
(* horizons 1..horizon_days are stacked, split chronologically by origin,   *)
(* the models fitted on train and validation and scored on test.            *)
(****************************************************************************)
EXTENDS DatasetRun

CONSTANTS HorizonDays, Strides    \* forecast.horizon_days, origin_stride_days

ASSUME BacktestAssumption == HorizonDays \cup Strides \subseteq Nat \ {0}

VARIABLES
    horizon,   \* the last horizon stacked
    scored     \* the rows the metrics are computed from

backtestVars == <<horizon, scored>>

BacktestConfigs == [days : HorizonDays, stride : Strides, test : TestSizes,
                    validation : ValidationSizes]

BacktestInit == horizon = 0 /\ scored = {}

\* One frame per horizon, concatenated; empty frames are no error by themselves.
Stack ==
    /\ command = "train"
    /\ stage = "assemble"
    /\ horizon' = horizon + 1
    /\ rows' = rows \cup Assembled(priced, horizon + 1, config.stride)
    /\ stage' = IF horizon + 1 = config.days THEN "split" ELSE "assemble"
    /\ UNCHANGED <<inputVars, split, scored>>

\* Mutation: scored on what stopped the fitting.
ScoreValidation ==
    /\ command = "train"
    /\ stage = "evaluate"
    /\ scored' = split.test \cup split.validation
    /\ stage' = "done"
    /\ UNCHANGED <<inputVars, rows, split, horizon>>

\* One model per quantile is fitted, every test row predicted and scored.
Score ==
    /\ command = "train"
    /\ stage = "evaluate"
    /\ scored' = split.test
    /\ stage' = "done"
    /\ UNCHANGED <<inputVars, rows, split, horizon>>

--------------------------------------------------------------------------------
(****************************************************************************)
(* Properties.                                                              *)
(****************************************************************************)

\* "No future origin date can leak into an earlier partition" (split.py:3-6), at
\* any stride and with any number of horizons stacked: what is scored is later
\* than what was fitted on, and of the whole dataset the one or the other.  What
\* is free of look-ahead in it: at the longest horizon no scored outcome, on any
\* day of any series, was a training target or entered a training feature.  (At
\* shorter horizons it may be: earlier origins reach the same target days.)
FullHorizonHeldOut ==
    /\ \A r \in Fitted, q \in scored : r.origin < q.origin
    /\ command = "train" /\ stage = "done" => Fitted \cup scored = rows
    /\ \A r \in scored : r.target - r.origin = config.days =>
          \A cell \in FittedOn(priced, Fitted) : cell[2] < r.target
================================================================================
