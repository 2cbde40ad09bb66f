----------------------------- MODULE HorizonDataset -----------------------------
(****************************************************************************)
(* The datasets that train, recommend and simulate cut out of a feature     *)
(* snapshot: lag and window features (features/generator.py), the horizon   *)
(* self-join (forecasting/dataset.py) and the chronological splits          *)
(* (forecasting/split.py, optimization/recommender.py).                     *)
(*                                                                          *)
(* A sales row is a cell <<series, day>>; what its units, prices or         *)
(* calendar columns are makes no difference here.  A feature is the set of  *)
(* days it was computed from, so "leakage" is a set inclusion.  Days count  *)
(* from the epoch.                                                          *)
(****************************************************************************)
EXTENDS Integers, FiniteSets, FiniteSetsExt

CONSTANTS
    Series,      \* the (store, item) pairs
    NumWeeks,    \* the span of the data
    WeekDays,    \* days per price week (7 in M5)
    Lags,        \* lag_features.lags
    Windows      \* rolling_features.windows

ASSUME DatasetAssumption ==
    /\ NumWeeks \in Nat \ {0} /\ WeekDays \in Nat \ {0}
    /\ Lags \subseteq Nat \ {0} /\ Windows \subseteq Nat \ {0}

Weeks == 0..(NumWeeks - 1)
Days == 0..(NumWeeks * WeekDays - 1)

\* Which weeks each series has a price for: all that ingestion lets vary.
Pricings == [Series -> SUBSET Weeks]

\* The days a series has sales rows for: those of its priced weeks.
SalesDays(priced, s) == {d \in Days : d \div WeekDays \in priced[s]}

--------------------------------------------------------------------------------
(****************************************************************************)
(* Features of a row on day d of a series with rows on the days S.          *)
(****************************************************************************)

\* How many rows back from d is the row on day e?
RowsBack(S, e, d) == Cardinality({f \in S : e <= f /\ f < d})

\* LAG(units_sold, k) OVER (ORDER BY date)
LagDays(S, d, k) == {e \in S : e < d /\ RowsBack(S, e, d) = k}

\* Mutation: ROWS BETWEEN w PRECEDING AND CURRENT ROW.
WindowDaysToCurrent(S, d, w) == {e \in S : e <= d /\ RowsBack(S, e, d) <= w}

\* ROWS BETWEEN w PRECEDING AND 1 PRECEDING
WindowDays(S, d, w) == {e \in S : e < d /\ RowsBack(S, e, d) <= w}

FeatureDays(S, d) ==
    (UNION {LagDays(S, d, k) : k \in Lags}) \cup (UNION {WindowDays(S, d, w) : w \in Windows})

--------------------------------------------------------------------------------
(****************************************************************************)
(* The horizon dataset: origin row joined with the row `horizon` days later *)
(* of the same series, origins on a 1-in-stride cadence.                    *)
(****************************************************************************)

\* Mutation: LEFT JOIN.
AssembledLeft(priced, horizon, stride) ==
    UNION {{[series |-> s, origin |-> d, target |-> d + horizon] :
                d \in {o \in SalesDays(priced, s) : o % stride = 0}} : s \in Series}

Assembled(priced, horizon, stride) ==
    UNION {{[series |-> s, origin |-> d, target |-> d + horizon] :
                d \in {o \in SalesDays(priced, s) :
                          /\ o + horizon \in SalesDays(priced, s)
                          /\ o % stride = 0}} : s \in Series}

Origins(rows) == {r.origin : r \in rows}

OnOrAfter(rows, d) == {r \in rows : r.origin >= d}
Before(rows, d) == {r \in rows : r.origin < d}

--------------------------------------------------------------------------------
(****************************************************************************)
(* Splits.                                                                  *)
(****************************************************************************)

\* sorted(dates)[-n]: the day on or after which n of them fall.
NthLatest(S, n) == CHOOSE d \in S : Cardinality({e \in S : e >= d}) = n

\* chronological_split needs at least one origin left over for training.
CanSplit(rows, testSize, validationSize) ==
    Cardinality(Origins(rows)) > testSize + validationSize

\* Mutation: the validation partition not bounded by the test start.
SplitOverlapping(rows, testSize, validationSize) ==
    LET testStart == NthLatest(Origins(rows), testSize)
        validationStart == NthLatest(Origins(rows), testSize + validationSize)
    IN  [train      |-> Before(rows, validationStart),
         validation |-> OnOrAfter(rows, validationStart),
         test       |-> OnOrAfter(rows, testStart)]

Split(rows, testSize, validationSize) ==
    LET testStart == NthLatest(Origins(rows), testSize)
        validationStart == NthLatest(Origins(rows), testSize + validationSize)
    IN  [train      |-> Before(rows, validationStart),
         validation |-> OnOrAfter(rows, validationStart) \cap Before(rows, testStart),
         test       |-> OnOrAfter(rows, testStart)]

--------------------------------------------------------------------------------
(****************************************************************************)
(* What has been seen.                                                      *)
(****************************************************************************)

\* The cells whose units a row's features were computed from.
FeatureCells(priced, r) ==
    {<<r.series, e>> : e \in FeatureDays(SalesDays(priced, r.series), r.origin)}

TargetCells(rows) == {<<r.series, r.target>> : r \in rows}

\* All a model fitted on these rows has learnt from.
FittedOn(priced, rows) ==
    TargetCells(rows) \cup UNION {FeatureCells(priced, r) : r \in rows}
================================================================================
