----------------------------- MODULE QuantileForecast -----------------------------
(****************************************************************************)
(* How a forecast becomes an order: one model per quantile is fitted        *)
(* independently (forecasting/model.py), the predictions of a row are       *)
(* rearranged (core/metrics.py), and recommend takes the order quantity and *)
(* the safety stock from them (optimization/recommender.py).  Rows do not   *)
(* interact, so one row of train or recommend stands for all; what a fitted *)
(* LightGBM model predicts for it is any number.                            *)
(****************************************************************************)
EXTENDS Newsvendor, FiniteSets, FiniteSetsExt

CONSTANTS
    CostConfigs,    \* the costs.yaml to try
    Parts,          \* the grid of forecast.quantiles: p stands for p / Parts
    Configured,     \* forecast.quantiles
    Predictions     \* what a model may predict

ASSUME ForecastAssumption ==
    /\ CostConfigs \subseteq Economies
    /\ Parts \in Nat \ {0} /\ Configured \subseteq 1..(Parts - 1)
    /\ \E p \in Configured : 2 * p = Parts
    /\ IsFiniteSet(Configured)
    /\ Predictions \subseteq Int

VARIABLES
    economics,      \* the cost configuration
    command,        \* which command forecasts
    raw,            \* raw[q]: what the model fitted for quantile q predicts
    predictions,    \* the rearranged predictions
    decision        \* order quantity, median and safety stock of the row, or {}

forecastVars == <<economics, command, raw, predictions, decision>>

\* All quantiles over one denominator, Parts * (Cu + Co).
Whole == CriticalFractile(economics)[2]
Fractile == Parts * CriticalFractile(economics)[1]
Level(p) == p * Whole
Median == Level(Parts \div 2)

\* The quantiles each command fits; equal ones are fitted once.
Quantiles ==
    CASE command = "train"     -> {Level(p) : p \in Configured} \cup {Fractile}
      [] command = "recommend" -> {Median, Fractile}
      [] command = "simulate"  -> {Fractile}

ForecastInit ==
    /\ economics \in CostConfigs
    /\ command \in {"train", "recommend", "simulate"}
    /\ raw = << >> /\ predictions = << >>
    /\ decision = {}

\* One model per quantile, in ascending order; none knows of the others.
PredictQuantile ==
    /\ Quantiles \ DOMAIN raw # {}
    /\ LET q == Min(Quantiles \ DOMAIN raw)
       IN  \E prediction \in Predictions :
              raw' = [p \in DOMAIN raw \cup {q} |-> IF p = q THEN prediction ELSE raw[p]]
    /\ UNCHANGED <<economics, command, predictions, decision>>

AtMost(f, v) == Cardinality({p \in DOMAIN f : f[p] <= v})
Rank(f, q) == Cardinality({p \in DOMAIN f : p <= q})

\* Mutation: a crossed prediction raised to the largest of the lower quantiles.
RearrangedUpwards(f) == [q \in DOMAIN f |-> Max({f[p] : p \in {r \in DOMAIN f : r <= q}})]

\* Mutation: crossed predictions averaged instead of exchanged.
RearrangedAveraged(f) ==
    [q \in DOMAIN f |-> (Max({f[p] : p \in {r \in DOMAIN f : r <= q}})
                          + Min({f[p] : p \in {r \in DOMAIN f : r >= q}})) \div 2]

\* Mutation: sorted the wrong way round.
RearrangedDescending(f) ==
    [q \in DOMAIN f |->
        Max({v \in {f[p] : p \in DOMAIN f} :
                Cardinality({p \in DOMAIN f : f[p] >= v}) >= Rank(f, q)})]

\* enforce_monotonic_quantiles: the k-th smallest value to the k-th quantile.
Rearranged(f) ==
    [q \in DOMAIN f |-> Min({v \in {f[p] : p \in DOMAIN f} : AtMost(f, v) >= Rank(f, q)})]

Predict ==
    /\ Quantiles = DOMAIN raw
    /\ predictions = << >>
    /\ predictions' = Rearranged(raw)
    /\ UNCHANGED <<economics, command, raw, decision>>

\* Mutation: the raw predictions used, as fitted.
DecideRaw ==
    /\ command = "recommend"
    /\ predictions # << >> /\ decision = {}
    /\ decision' = {[order |-> raw[Fractile], median |-> raw[Median],
                     safety |-> raw[Fractile] - raw[Median]]}
    /\ UNCHANGED <<economics, command, raw, predictions>>

\* recommend orders the critical-fractile forecast.
Decide ==
    /\ command = "recommend"
    /\ predictions # << >> /\ decision = {}
    /\ decision' = {[order |-> predictions[Fractile], median |-> predictions[Median],
                     safety |-> predictions[Fractile] - predictions[Median]]}
    /\ UNCHANGED <<economics, command, raw, predictions>>

--------------------------------------------------------------------------------
(****************************************************************************)
(* Properties.                                                              *)
(****************************************************************************)

ForecastTypeOK ==
    /\ economics \in CostConfigs
    /\ command \in {"train", "recommend", "simulate"}
    /\ DOMAIN raw \subseteq Quantiles /\ DOMAIN predictions \in {{}, Quantiles}
    /\ \A f \in {raw, predictions} : \A q \in DOMAIN f : f[q] \in Predictions
    /\ \A d \in decision : {d.order, d.median} \subseteq Predictions /\ d.safety \in Int

\* enforce_monotonic_quantiles undoes every crossing and only by handing the
\* same predictions to other quantiles (metrics.py:54-62).
NoCrossing ==
    predictions # << >> =>
        /\ \A p, q \in DOMAIN predictions : p <= q => predictions[p] <= predictions[q]
        /\ \A v \in Predictions : Cardinality({q \in DOMAIN raw : raw[q] = v})
                                    = Cardinality({q \in DOMAIN raw : predictions[q] = v})

TotalLoss(f, d) == SumFunction([q \in DOMAIN f |-> Pinball(<<q, Parts * Whole>>, d, f[q])])

\* Rearranging never makes a forecast worse, whatever is then sold: the pinball
\* losses of the row's quantiles add up to no more than before.
RearrangementNeverHurts ==
    predictions # << >> =>
        \A d \in Predictions : TotalLoss(predictions, d) <= TotalLoss(raw, d)

\* The cost of ordering q every time when each demand of the sample came once.
TotalCost(sample, q) ==
    SumFunction([i \in DOMAIN sample |-> RealizedCost(economics, q, sample[i], 1)])

\* Is q a quantile of the sample at the level <<n, m>>?
IsQuantile(sample, q, level) ==
    LET size == Cardinality(DOMAIN sample)
    IN  /\ Cardinality({i \in DOMAIN sample : sample[i] < q}) * level[2] <= level[1] * size
        /\ level[1] * size <= AtMost(sample, q) * level[2]

Samples == [1..3 -> {p \in Predictions : p >= 0}]

\* "The optimal order quantity under asymmetric over/understock costs is the
\* demand quantile at the critical fractile" (newsvendor.py:3-6): whenever the
\* quantity recommended is such a quantile of the demands seen, no other order
\* would have cost less over them.
OptimalAtFractile ==
    \A d \in decision : \A sample \in Samples :
        IsQuantile(sample, d.order, CriticalFractile(economics))
            => \A other \in Predictions :
                    TotalCost(sample, d.order) <= TotalCost(sample, other)
================================================================================
