------------------------------- MODULE DatasetRun -------------------------------
(****************************************************************************)
(* What one run of train, recommend or simulate shares with the others: it  *)
(* works on one snapshot under one configuration, both fixed at the start,  *)
(* assembles its horizon dataset and splits it, and ends with its output    *)
(* persisted ("done") or with an error ("failed").                          *)
(****************************************************************************)
EXTENDS HorizonDataset

CONSTANTS TestSizes, ValidationSizes    \* train.test_size_days, validation_size_days

ASSUME SplitAssumption == TestSizes \cup ValidationSizes \subseteq Nat \ {0}

VARIABLES
    command,   \* "train", "recommend" or "simulate"
    priced,    \* the snapshot: the weeks each series has rows for
    config,    \* the settings of the command
    stage,     \* the next step of the run
    rows,      \* the horizon dataset
    split      \* its train, validation and test rows

runVars == <<command, priced, config, stage, rows, split>>
inputVars == <<command, priced, config>>

NoSplit == [train |-> {}, validation |-> {}, test |-> {}]

RunInit(name, configs) ==
    /\ command = name
    /\ priced \in Pricings
    /\ config \in configs
    /\ stage = "assemble"
    /\ rows = {} /\ split = NoSplit

\* An OptimizationError, SimulationError or ForecastError ends the run.
Fail == stage' = "failed"

\* recommend and simulate assemble one horizon, at every origin.
Assemble ==
    /\ command \in {"recommend", "simulate"}
    /\ stage = "assemble"
    /\ rows' = Assembled(priced, config.lead, 1)
    /\ IF rows' = {} THEN Fail ELSE stage' = "split"
    /\ UNCHANGED <<inputVars, split>>

\* train and simulate split chronologically by origin.
SplitRows ==
    /\ command \in {"train", "simulate"}
    /\ stage = "split"
    /\ IF CanSplit(rows, config.test, config.validation)
         THEN /\ split' = Split(rows, config.test, config.validation)
              /\ stage' = "evaluate"
         ELSE Fail /\ UNCHANGED split
    /\ UNCHANGED <<inputVars, rows>>

--------------------------------------------------------------------------------
(****************************************************************************)
(* Properties.                                                              *)
(****************************************************************************)

\* What the models were fitted and stopped on.
Fitted == split.train \cup split.validation

\* "The most recent test_size_days distinct origin dates become the test set,
\* the validation_size_days before that become validation, and every earlier
\* origin date becomes training" (split.py:28-30), whatever the strides and
\* horizons stacked, and recommend does by hand what split.py does for the other
\* two: an ordered partition that loses no row, with the configured numbers of
\* origin dates, something to train on and something to judge by.
SplitChronological ==
    split # NoSplit =>
        /\ Fitted \cup split.test = rows
        /\ split.train # {} /\ split.test # {}
        /\ Cardinality(Origins(split.validation)) = config.validation
        /\ command # "recommend" => Cardinality(Origins(split.test)) = config.test
        /\ \A r \in split.train, q \in split.validation : r.origin < q.origin
        /\ \A r \in split.validation, q \in split.test : r.origin < q.origin

\* ADR-008's leakage rule: the features of a row use nothing of its origin day
\* or later, whatever the lags, windows and gaps in the series.
FeaturesPrecedeOrigin ==
    \A r \in rows : \A cell \in FeatureCells(priced, r) : cell[2] < r.origin

\* "lag_1 at date d must equal units_sold at d-1" (tests/integration/
\* test_features.py:89): a lag feature looks back that many days.
LagsAreDays ==
    \A r \in rows : \A k \in Lags :
        LagDays(SalesDays(priced, r.series), r.origin, k) \subseteq {r.origin - k}
================================================================================
