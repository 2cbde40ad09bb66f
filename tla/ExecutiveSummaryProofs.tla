------------------------- MODULE ExecutiveSummaryProofs -------------------------
(****************************************************************************)
(* From the fitted quantiles to the figures of the report, for every list   *)
(* of quantiles, every prediction and any number of rows: rearranging sorts *)
(* and never hurts, an order at the critical fractile of the demands is     *)
(* optimal, and what the report says of a table or a run is so.             *)
(****************************************************************************)
EXTENDS ExecutiveSummary, PolicyGradingProofs

--------------------------------------------------------------------------------
(****************************************************************************)
(* The inductive invariant.                                                 *)
(****************************************************************************)

\* The settings of the loop of simulate.
SettingsInv ==
    /\ lead \in LeadTimes \cup {0}
    /\ distribution \in Distributions \cup {"none"}
    /\ history \in SUBSET Demands

\* The forecast of a row: predictions of the models so far, once they are all there,
\* the same rearranged, and the decision taken from these.
ForecastInv ==
    /\ command \in {"train", "recommend", "simulate"}
    /\ DOMAIN raw \subseteq Quantiles
    /\ \A q \in DOMAIN raw : raw[q] \in Predictions
    /\ predictions # << >> => DOMAIN raw = Quantiles /\ predictions = Rearranged(raw)
    /\ decision # {} => command = "recommend" /\ predictions # << >>
    /\ \A d \in decision :
          d = [order |-> predictions[Fractile], median |-> predictions[Median],
               safety |-> predictions[Fractile] - predictions[Median]]

\* Once the two policies are compared nothing is forecast or graded any more.
LoopInv ==
    /\ graded # << >> => command = "simulate"
    /\ metrics # {} => /\ graded # << >> /\ raw = << >> /\ predictions = << >>
                       /\ metrics = {[ml |-> Metrics("ml"), baseline |-> Metrics("baseline")]}

GradingPart == GradingInv /\ SettingsInv /\ ForecastInv /\ LoopInv

\* The rows recommend decides in this run: one fractile, and the safety stock has its
\* sign, because the predictions do not cross.
RowsOfThisRun ==
    {r \in Recommended : /\ r.of = ThisRun /\ r.fractile = CriticalFractile(economics)
                         /\ r.demand \in Demands /\ SafetySign(r)}

\* The rows train scores: a sorted forecast each.
ScoredRows ==
    {r \in [demand : Demands, predicted : [Quantiles -> Int]] :
        \A p, q \in Quantiles : p <= q => r.predicted[p] <= r.predicted[q]}

RowsInv ==
    /\ command = "train" => rows \in Seq(ScoredRows)
    /\ command = "recommend" => rows \in Seq(RowsOfThisRun)
    /\ command = "simulate" => rows = << >>
    /\ Len(rows) <= MaxRows /\ (predictions # << >> => Len(rows) < MaxRows)

\* Of the two tables there is at most one each, the one an earlier run left or the one
\* of this run.
TablesInv ==
    /\ \A table \in recommendations :
          table = OldRows \/ (table \in Seq(RowsOfThisRun) /\ table # << >>)
    /\ \A table, other \in recommendations : table = other
    /\ \A table \in results :
          \/ table = OldResults
          \/ metrics # {} /\ table = ResultsOf("ml") \o ResultsOf("baseline")
    /\ \A table, other \in results : table = other

\* The metrics of a run are logged in order, of rows that do not change any more.
RunInv ==
    /\ run # {} => command = "train" /\ rows # << >> /\ raw = << >> /\ predictions = << >>
    /\ \A logged, other \in run : logged = other
    /\ \A logged \in run :
          /\ DOMAIN logged \subseteq MetricKeys
          /\ \A key \in DOMAIN logged, other \in MetricKeys :
                Precedes(other, key) => other \in DOMAIN logged
          /\ \A key \in DOMAIN logged : logged[key] = MetricValue(key)

\* A report is of the tables and of the run that are there.
ReportInv ==
    /\ \A s, other \in summary : s = other
    /\ \A s \in summary :
          /\ \A shown \in s.recommendations :
                \E table \in recommendations : \E top \in TopMisses(table) :
                    shown = RecommendationsSummary(table, top)
          /\ s.simulation = {SimulationSummary(table) : table \in results}
          /\ s.accuracy = {AccuracySummary(logged) : logged \in run}

SummaryInv == GradingPart /\ RowsInv /\ TablesInv /\ RunInv /\ ReportInv

--------------------------------------------------------------------------------
(****************************************************************************)
(* Quantiles and forecasts.                                                 *)
(****************************************************************************)

\* All levels are on one grid, and the median is its middle.
LEMMA LevelsType ==
    ASSUME economics \in CostConfigs
    PROVE  /\ Whole \in Nat \ {0} /\ Parts * Whole \in Nat
           /\ Fractile \in 1..(Parts * Whole) /\ Median \in 1..(Parts * Whole)
           /\ 2 * Median = Parts * Whole
           /\ \A p \in Configured : Level(p) \in 1..(Parts * Whole)
           /\ \E p \in Configured : Median = Level(p)
           /\ CriticalFractile(economics) \in Int \X Int
<1> DEFINE Cu == Understock(economics)
           Co == Overstock(economics)
<1>1. Cu \in Nat \ {0} /\ Co \in Nat \ {0}
  BY ForecastAssumption, CostsPositive
<1>2. Whole = Cu + Co /\ Fractile = Parts * Cu /\ CriticalFractile(economics) = <<Cu, Cu + Co>>
  BY DEF Whole, Fractile, CriticalFractile
<1>3. Whole \in Nat \ {0} /\ Parts \in Nat \ {0} /\ Cu \in 1..Whole
  BY <1>1, <1>2, ForecastAssumption
<1> HIDE DEF Cu, Co, Whole, Fractile
<1>4. \A a \in 1..Parts, b \in 1..Whole : a * b \in 1..(Parts * Whole)
  <2> SUFFICES ASSUME NEW a \in 1..Parts, NEW b \in 1..Whole PROVE a * b \in 1..(Parts * Whole)
    OBVIOUS
  <2>1. a \in Nat \ {0} /\ b \in Nat \ {0} /\ Parts - a \in Nat /\ Whole - b \in Nat
    BY <1>3
  <2>2. a * b >= 1
    BY <2>1
  <2>3. (Parts - a) * Whole >= 0 /\ a * (Whole - b) >= 0
    BY <1>3, <2>1
  <2>4. Parts * Whole - a * b = (Parts - a) * Whole + a * (Whole - b)
    BY <1>3, <2>1
  <2>5. \A x, y, z, w \in Int : x - y = z + w /\ z >= 0 /\ w >= 0 => y <= x
    OBVIOUS
  <2>6. /\ a * b \in Int /\ Parts * Whole \in Int
        /\ (Parts - a) * Whole \in Int /\ a * (Whole - b) \in Int
    BY <1>3, <2>1
  <2>7. a * b <= Parts * Whole
    BY <2>3, <2>4, <2>5, <2>6
  <2> QED
    BY <2>2, <2>6, <2>7
<1>5. Parts \in 1..Parts /\ Whole \in 1..Whole
  BY <1>3
<1>6. Fractile \in 1..(Parts * Whole)
  <2>1. Parts * Cu \in 1..(Parts * Whole)
    BY <1>3, <1>4, <1>5
  <2> QED
    BY <1>2, <2>1
<1>7. \A p \in Configured : p \in 1..Parts
  <2>1. Parts \in Nat /\ \A p \in Configured : p \in 1..(Parts - 1)
    BY ForecastAssumption
  <2>2. \A p \in 1..(Parts - 1) : p \in 1..Parts
    BY <2>1
  <2> QED
    BY <2>1, <2>2
<1>8. \A p \in Configured : Level(p) \in 1..(Parts * Whole)
  <2>1. \A p \in Configured : p * Whole \in 1..(Parts * Whole)
    BY <1>4, <1>5, <1>7
  <2> QED
    BY <2>1 DEF Level
<1>9. PICK p \in Configured : 2 * p = Parts
  BY ForecastAssumption
<1>10. Parts \div 2 = p /\ p \in Nat
  BY <1>7, <1>9
<1>11. Median = p * Whole /\ Median = Level(p)
  BY <1>10 DEF Median, Level
<1>12. 2 * (p * Whole) = (2 * p) * Whole
  BY <1>3, <1>10
<1>13. CriticalFractile(economics) \in Int \X Int
  BY <1>1, <1>2
<1>14. Parts * Whole \in Nat
  BY <1>3
<1> QED
  BY <1>3, <1>6, <1>8, <1>9, <1>11, <1>12, <1>13, <1>14

\* Every command fits finitely many quantiles, the critical fractile among them, and
\* all but simulate the median.
LEMMA QuantilesType ==
    ASSUME economics \in CostConfigs, command \in {"train", "recommend", "simulate"}
    PROVE  /\ IsFiniteSet(Quantiles) /\ Quantiles \subseteq 1..(Parts * Whole)
           /\ Quantiles \subseteq Int /\ Fractile \in Quantiles
           /\ command # "simulate" => Median \in Quantiles
<1>1. IsFiniteSet({Fractile}) /\ IsFiniteSet({Median})
  BY FS_Singleton
<1>2. /\ Fractile \in 1..(Parts * Whole) /\ Median \in 1..(Parts * Whole)
      /\ 1..(Parts * Whole) \subseteq Int
      /\ \A p \in Configured : Level(p) \in 1..(Parts * Whole)
      /\ \E p \in Configured : Median = Level(p)
  BY LevelsType
<1>3. CASE command = "train"
  <2> DEFINE f == [p \in Configured |-> Level(p)]
             T == {f[p] : p \in Configured}
  <2>1. IsFiniteSet(Configured)
    BY ForecastAssumption
  <2>2. IsFiniteSet(T)
    BY <2>1, FiniteValues
  <2>3. Quantiles = T \cup {Fractile}
    BY <1>3 DEF Quantiles
  <2>4. T \subseteq 1..(Parts * Whole) /\ Median \in T
    BY <1>2
  <2> HIDE DEF T
  <2>5. IsFiniteSet(T \cup {Fractile})
    BY <2>2, FS_AddElement
  <2> QED
    BY <1>2, <2>3, <2>4, <2>5
<1>4. CASE command = "recommend"
  <2>1. Quantiles = {Median} \cup {Fractile}
    BY <1>4 DEF Quantiles
  <2>2. IsFiniteSet({Median} \cup {Fractile})
    BY <1>1, FS_AddElement
  <2> QED
    BY <1>2, <2>1, <2>2
<1>5. CASE command = "simulate"
  BY <1>1, <1>2, <1>5 DEF Quantiles
<1> QED
  BY <1>3, <1>4, <1>5

\* A complete forecast can be rearranged.
LEMMA RawIsForecast ==
    ASSUME GradingInv, ForecastInv, predictions # << >>
    PROVE  /\ Forecasts(raw) /\ DOMAIN raw = Quantiles /\ predictions = Rearranged(raw)
           /\ DOMAIN predictions = Quantiles
           /\ \A q \in Quantiles : predictions[q] \in Predictions /\ predictions[q] \in Int
<1>1. DOMAIN raw = Quantiles /\ predictions = Rearranged(raw)
  BY DEF ForecastInv
<1>2. Forecasts(raw) /\ \A q \in DOMAIN raw : raw[q] \in Predictions
  BY <1>1, QuantilesType, ForecastAssumption DEF GradingInv, ForecastInv, Forecasts
<1>3. \A q \in DOMAIN raw : Rearranged(raw)[q] \in {raw[p] : p \in DOMAIN raw}
  BY <1>2, RearrangedIs DEF Candidates
<1>4. DOMAIN predictions = Quantiles
  BY <1>1 DEF Rearranged
<1> QED
  BY <1>1, <1>2, <1>3, <1>4, ForecastAssumption

\* Rearranged predictions do not cross.
LEMMA PredictionsSorted ==
    ASSUME GradingInv, ForecastInv, predictions # << >>
    PROVE  \A p, q \in Quantiles : p <= q => predictions[p] <= predictions[q]
BY RawIsForecast, RearrangedSorts

\* Without a model fitted there is no complete forecast, and no decision.
LEMMA NothingForecast ==
    ASSUME GradingInv, ForecastInv, raw = << >>
    PROVE  predictions = << >> /\ decision = {}
<1>1. Fractile \in Quantiles /\ DOMAIN raw = {}
  BY QuantilesType DEF GradingInv, ForecastInv
<1> QED
  BY <1>1 DEF ForecastInv

\* A decision is made of predictions, and its safety stock has the sign the fractile
\* gives it.
LEMMA DecisionIs ==
    ASSUME GradingInv, ForecastInv, NEW d \in decision
    PROVE  /\ d.order \in Predictions /\ d.median \in Predictions /\ d.order \in Int
           /\ d.safety \in Int
           /\ d.safety > 0 => 2 * CriticalFractile(economics)[1] > CriticalFractile(economics)[2]
           /\ d.safety < 0 => 2 * CriticalFractile(economics)[1] < CriticalFractile(economics)[2]
<1>1. /\ command = "recommend" /\ predictions # << >>
      /\ d = [order |-> predictions[Fractile], median |-> predictions[Median],
              safety |-> predictions[Fractile] - predictions[Median]]
  BY DEF ForecastInv
<1>2. economics \in CostConfigs /\ Fractile \in Quantiles /\ Median \in Quantiles
  BY <1>1, QuantilesType DEF GradingInv, ForecastInv
<1>3. /\ predictions[Fractile] \in Predictions /\ predictions[Median] \in Predictions
      /\ predictions[Fractile] \in Int /\ predictions[Median] \in Int
      /\ Fractile <= Median => predictions[Fractile] <= predictions[Median]
      /\ Median <= Fractile => predictions[Median] <= predictions[Fractile]
  BY <1>1, <1>2, RawIsForecast, PredictionsSorted
<1> DEFINE n == CriticalFractile(economics)[1]
<1>4. n \in Int /\ Whole \in Int /\ Parts \in Nat \ {0}
  BY <1>2, LevelsType, ForecastAssumption DEF Whole
<1>5. Fractile = Parts * n /\ Whole = CriticalFractile(economics)[2]
  BY DEF Fractile, Whole
<1>6. 2 * Median = Parts * Whole /\ Median \in Int /\ Fractile \in Int
  BY <1>2, LevelsType, QuantilesType
<1> HIDE DEF n, Whole, Fractile, Median
<1>7. 2 * Fractile - 2 * Median = Parts * (2 * n - Whole)
  BY <1>4, <1>5, <1>6
<1>8. (Median < Fractile => 2 * n > Whole) /\ (Fractile < Median => 2 * n < Whole)
  <2> DEFINE k == 2 * n - Whole
  <2>1. k \in Int
    BY <1>4
  <2>2. 2 * Fractile - 2 * Median = Parts * k
    BY <1>7
  <2>3. k > 0 <=> 2 * n > Whole
    BY <1>4
  <2>4. k < 0 <=> 2 * n < Whole
    BY <1>4
  <2> HIDE DEF k
  <2>5. (Parts * k > 0 => k > 0) /\ (Parts * k < 0 => k < 0)
    BY <1>4, <2>1
  <2> QED
    BY <1>6, <2>2, <2>3, <2>4, <2>5
<1>9. d.safety = predictions[Fractile] - predictions[Median]
  BY <1>1
<1>10. (d.safety > 0 => Median < Fractile) /\ (d.safety < 0 => Fractile < Median)
  BY <1>3, <1>6, <1>9
<1> QED
  BY <1>1, <1>3, <1>5, <1>8, <1>9, <1>10 DEF n

--------------------------------------------------------------------------------
(****************************************************************************)
(* Forecasting, deciding and grading keep their part of the invariant.      *)
(****************************************************************************)

\* What only the settings of the command and its rows determine.
SameTerms ==
    /\ Quantiles' = Quantiles /\ Fractile' = Fractile /\ Median' = Median
    /\ RowsOfThisRun' = RowsOfThisRun /\ ScoredRows' = ScoredRows /\ MetricKeys' = MetricKeys

\* A command keeps its economics.
LEMMA SameCommand ==
    ASSUME UNCHANGED <<economics, command>>
    PROVE  SameTerms
<1>1. Quantiles' = Quantiles /\ Fractile' = Fractile /\ Median' = Median
  BY DEF Quantiles, Level, Whole, Fractile, Median
<1> QED
  BY <1>1 DEF SameTerms, RowsOfThisRun, ScoredRows, MetricKeys

\* What a step that only moves rows and tables leaves alone.
LEMMA SameGrading ==
    ASSUME GradingPart, UNCHANGED vars
    PROVE  GradingPart' /\ SameTerms
<1> USE DEF vars, forecastVars, settingVars
<1>1. SameTerms
  BY SameCommand
<1>2. GradingInv'
  BY GradingNext DEF GradingPart
<1>3. ForecastInv'
  BY <1>1 DEF GradingPart, ForecastInv, SameTerms, Rearranged, AtMost, Rank
<1>4. SettingsInv'
  BY DEF GradingPart, SettingsInv
<1>5. LoopInv'
  BY DEF GradingPart, LoopInv, Metrics, Total
<1> QED
  BY <1>1, <1>2, <1>3, <1>4, <1>5 DEF GradingPart

\* A finished row: the forecast is thrown away, nothing is graded.
LEMMA RowDone ==
    ASSUME GradingPart, UNCHANGED <<economics, command, settingVars, graded, metrics>>,
           raw' = << >>, predictions' = << >>, decision' = {}, command # "simulate"
    PROVE  GradingPart' /\ SameTerms
<1>1. DOMAIN raw' = {}
  OBVIOUS
<1>2. GradingInv'
  BY DEF GradingPart, GradingInv, FractileForecast, WellGraded
<1>3. ForecastInv'
  BY <1>1 DEF GradingPart, ForecastInv
<1>4. SettingsInv'
  BY DEF GradingPart, SettingsInv, settingVars
<1>5. LoopInv'
  BY DEF GradingPart, LoopInv
<1>6. SameTerms
  BY SameCommand
<1> QED
  BY <1>2, <1>3, <1>4, <1>5, <1>6 DEF GradingPart

\* Forecasting keeps the forecast in shape.
LEMMA ForecastShape ==
    ASSUME GradingPart, PredictQuantile \/ Predict
    PROVE  ForecastInv'
<1>1. UNCHANGED <<economics, command, decision>>
  BY DEF PredictQuantile, Predict
<1>2. Quantiles' = Quantiles
  BY <1>1, SameCommand DEF SameTerms
<1>3. predictions = << >> /\ decision = {}
  BY DEF PredictQuantile, Predict, GradingPart, ForecastInv
<1>4. CASE PredictQuantile
  <2> DEFINE q == Min(Quantiles \ DOMAIN raw)
  <2>1. PICK prediction \in Predictions :
          raw' = [p \in DOMAIN raw \cup {q} |-> IF p = q THEN prediction ELSE raw[p]]
    BY <1>4 DEF PredictQuantile
  <2>2. q \in Quantiles
    <3>1. /\ (Quantiles \ DOMAIN raw) \in SUBSET Quantiles
          /\ Quantiles \ DOMAIN raw # {}
      BY <1>4 DEF PredictQuantile
    <3>2. IsFiniteSet(Quantiles) /\ Quantiles \subseteq Int
      BY QuantilesType DEF GradingPart, GradingInv, ForecastInv
    <3>3. IsFiniteSet(Quantiles \ DOMAIN raw)
      BY <3>1, <3>2, FS_Subset
    <3> QED
      BY <3>1, <3>2, <3>3, MinIs
  <2>3. predictions' = << >> /\ decision' = {}
    BY <1>3, <1>4 DEF PredictQuantile
  <2> HIDE DEF q
  <2> QED
    BY <1>1, <1>2, <2>1, <2>2, <2>3 DEF GradingPart, ForecastInv
<1>5. CASE Predict
  BY <1>1, <1>2, <1>3, <1>5 DEF Predict, GradingPart, ForecastInv, Rearranged, AtMost, Rank
<1> QED
  BY <1>4, <1>5

\* Each step of the loop keeps its part, and once the policies are compared nothing
\* they are compared by changes.
LEMMA GradingStep ==
    ASSUME GradingPart, Prepare \/ Forecast \/ Recommend \/ DecideRow \/ Compare
    PROVE  /\ GradingPart' /\ SameTerms /\ UNCHANGED <<economics, command>>
           /\ metrics # {} => UNCHANGED <<graded, metrics>>
<1>1. GradingInv'
  BY GradingNext DEF GradingPart, Next
<1>2. UNCHANGED <<economics, command>>
  BY DEF Prepare, Forecast, PredictQuantile, Predict, Recommend, Decide, DecideRow, Compare,
         forecastVars
<1>3. SameTerms
  BY <1>2, SameCommand
<1>4. ForecastInv'
  <2>1. CASE Prepare \/ Compare
    <3>1. UNCHANGED forecastVars
      BY <2>1 DEF Prepare, Compare
    <3> QED
      BY <1>3, <3>1 DEF forecastVars, GradingPart, ForecastInv, SameTerms, Rearranged, AtMost, Rank
  <2>2. CASE Forecast
    BY <2>2, ForecastShape DEF Forecast
  <2>3. CASE Recommend
    <3>1. /\ command = "recommend" /\ predictions # << >>
          /\ decision' = {[order |-> predictions[Fractile], median |-> predictions[Median],
                           safety |-> predictions[Fractile] - predictions[Median]]}
          /\ UNCHANGED <<raw, predictions>>
      BY <2>3 DEF Recommend, Decide
    <3> QED
      BY <1>2, <1>3, <3>1 DEF GradingPart, ForecastInv, SameTerms, Rearranged, AtMost, Rank
  <2>4. CASE DecideRow
    <3>1. raw' = << >> /\ predictions' = << >> /\ DOMAIN raw' = {} /\ UNCHANGED decision
      BY <2>4 DEF DecideRow
    <3>2. decision = {}
      BY <2>4 DEF DecideRow, GradingPart, ForecastInv
    <3> QED
      BY <1>2, <3>1, <3>2 DEF GradingPart, ForecastInv
  <2> QED
    BY <2>1, <2>2, <2>3, <2>4
<1>5. SettingsInv'
  <2>1. CASE Prepare
    BY <2>1 DEF Prepare, GradingPart, SettingsInv
  <2>2. CASE UNCHANGED settingVars
    BY <2>2 DEF settingVars, GradingPart, SettingsInv
  <2> QED
    BY <2>1, <2>2 DEF Forecast, Recommend, DecideRow, Compare
<1>6. LoopInv' /\ (metrics # {} => UNCHANGED <<graded, metrics>>)
  <2>1. CASE Prepare
    <3>1. UNCHANGED <<raw, predictions, command, graded, metrics>>
      BY <2>1 DEF Prepare, forecastVars
    <3> QED
      BY <3>1 DEF GradingPart, LoopInv, Metrics, Total
  <2>2. CASE Forecast
    <3>1. UNCHANGED <<command, graded, metrics>> /\ metrics = {}
      BY <1>2, <2>2 DEF Forecast, GradingPart, LoopInv
    <3> QED
      BY <3>1 DEF GradingPart, LoopInv
  <2>3. CASE Recommend
    <3>1. UNCHANGED <<raw, predictions, command, graded, metrics>>
      BY <2>3 DEF Recommend, Decide
    <3> QED
      BY <3>1 DEF GradingPart, LoopInv, Metrics, Total
  <2>4. CASE DecideRow
    <3>1. metrics = {} /\ metrics' = {} /\ command' = "simulate"
      BY <2>4 DEF DecideRow, GradingPart, LoopInv
    <3> QED
      BY <3>1 DEF LoopInv
  <2>5. CASE Compare
    <3>1. /\ metrics = {} /\ graded # << >> /\ raw = << >> /\ UNCHANGED <<graded, raw, predictions>>
          /\ metrics' = {[ml |-> Metrics("ml"), baseline |-> Metrics("baseline")]}
      BY <2>5 DEF Compare, forecastVars
    <3>2. predictions = << >>
      BY <3>1, NothingForecast DEF GradingPart
    <3>3. Metrics("ml")' = Metrics("ml") /\ Metrics("baseline")' = Metrics("baseline")
      BY <3>1 DEF Metrics, Total
    <3> QED
      BY <1>2, <3>1, <3>2, <3>3 DEF GradingPart, LoopInv
  <2> QED
    BY <2>1, <2>2, <2>3, <2>4, <2>5
<1> QED
  BY <1>1, <1>2, <1>3, <1>4, <1>5, <1>6 DEF GradingPart

--------------------------------------------------------------------------------
(****************************************************************************)
(* The steps of the commands and of the report.                             *)
(****************************************************************************)

\* A metric is known by two numbers.
LEMMA MetricKeysType ==
    ASSUME economics \in CostConfigs, command \in {"train", "recommend", "simulate"}
    PROVE  MetricKeys \subseteq Int \X Int
<1>1. Quantiles \subseteq Int
  BY QuantilesType
<1> DEFINE A == {<<0, i>> : i \in 1..3}
           B == {<<q, i>> : q \in Quantiles, i \in 4..5}
<1>2. A \subseteq Int \X Int
  OBVIOUS
<1>3. B \subseteq Int \X Int
  <2> SUFFICES ASSUME NEW k \in B PROVE k \in Int \X Int
    OBVIOUS
  <2>1. PICK q \in Quantiles, i \in 4..5 : k = <<q, i>>
    OBVIOUS
  <2> QED
    BY <1>1, <2>1
<1>4. MetricKeys = A \cup B
  BY DEF MetricKeys
<1> HIDE DEF A, B
<1> QED
  BY <1>2, <1>3, <1>4

\* Metrics of the same rows are the same.
LEMMA SameMetrics ==
    ASSUME UNCHANGED <<economics, command, rows>>
    PROVE  MetricKeys' = MetricKeys /\ \A key : MetricValue(key)' = MetricValue(key)
<1>1. MetricKeys' = MetricKeys
  BY SameCommand DEF SameTerms
<1>2. ASSUME NEW key PROVE MetricValue(key)' = MetricValue(key)
  BY DEF MetricValue, Wape, OverRows, Median, Level, Whole, Bias, SquaredError, PinballLoss, Coverage
<1> QED
  BY <1>1, <1>2

\* The tables of the invariant stay what they are while decisions and economics do.
LEMMA SameTables ==
    ASSUME TablesInv, UNCHANGED tableVars, SameTerms, metrics # {} => UNCHANGED <<graded, metrics>>
    PROVE  TablesInv'
<1>1. metrics # {} => /\ ResultsOf("ml")' = ResultsOf("ml")
                      /\ ResultsOf("baseline")' = ResultsOf("baseline")
                      /\ metrics' # {}
  BY DEF ResultsOf
<1> QED
  BY <1>1 DEF TablesInv, SameTerms, tableVars

\* Nobody has a report yet.
LEMMA NoReport == summary' = {} => ReportInv'
BY DEF ReportInv

\* Going on with a command.
LEMMA ContinueStep ==
    ASSUME SummaryInv, Continue
    PROVE  SummaryInv'
<1>1. /\ summary = {} /\ run = {} /\ Len(rows) < MaxRows /\ UNCHANGED <<rows, tableVars, run, summary>>
      /\ Prepare \/ Forecast \/ Recommend \/ DecideRow \/ Compare
  BY DEF Continue, summaryVars
<1>2. /\ GradingPart' /\ SameTerms /\ UNCHANGED <<economics, command>>
      /\ metrics # {} => UNCHANGED <<graded, metrics>>
  BY <1>1, GradingStep DEF SummaryInv
<1>3. RowsInv'
  BY <1>1, <1>2 DEF SummaryInv, RowsInv, SameTerms
<1>4. TablesInv'
  BY <1>1, <1>2, SameTables DEF SummaryInv
<1>5. RunInv' /\ ReportInv'
  BY <1>1, NoReport DEF RunInv
<1> QED
  BY <1>2, <1>3, <1>4, <1>5 DEF SummaryInv

\* Scoring a test row.
LEMMA ScoreRowStep ==
    ASSUME SummaryInv, summary = {}, ScoreRow
    PROVE  SummaryInv'
<1>1. PICK demand \in Demands : rows' = Append(rows, [demand |-> demand, predicted |-> predictions])
  BY DEF ScoreRow
<1>2. /\ command = "train" /\ predictions # << >> /\ raw' = << >> /\ predictions' = << >>
      /\ UNCHANGED <<economics, command, decision, settingVars, graded, metrics, tableVars, run, summary>>
  BY DEF ScoreRow
<1>3. decision' = {} /\ run = {}
  BY <1>2 DEF SummaryInv, GradingPart, ForecastInv, RunInv
<1>4. GradingPart' /\ SameTerms
  BY <1>2, <1>3, RowDone DEF SummaryInv
<1> DEFINE row == [demand |-> demand, predicted |-> predictions]
<1>5. row \in ScoredRows
  <2>1. /\ \A p, q \in Quantiles : p <= q => predictions[p] <= predictions[q]
        /\ DOMAIN predictions = Quantiles /\ \A q \in Quantiles : predictions[q] \in Int
        /\ predictions = Rearranged(raw) /\ DOMAIN raw = Quantiles
    BY <1>2, RawIsForecast, PredictionsSorted DEF SummaryInv, GradingPart
  <2>2. predictions \in [Quantiles -> Int]
    BY <2>1 DEF Rearranged
  <2> QED
    BY <2>1, <2>2 DEF ScoredRows
<1>6. rows \in Seq(ScoredRows) /\ Len(rows) < MaxRows /\ MaxRows \in Nat
  BY <1>2, GradingAssumption DEF SummaryInv, RowsInv
<1> HIDE DEF row
<1>7. Append(rows, row) \in Seq(ScoredRows) /\ Len(Append(rows, row)) <= MaxRows
  BY <1>5, <1>6
<1>8. rows' = Append(rows, row)
  BY <1>1 DEF row
<1>9. RowsInv'
  BY <1>2, <1>4, <1>7, <1>8 DEF RowsInv, SameTerms
<1>10. TablesInv'
  BY <1>2, <1>4, SameTables DEF SummaryInv
<1>11. RunInv' /\ ReportInv'
  BY <1>2, <1>3, NoReport DEF RunInv
<1> QED
  BY <1>4, <1>9, <1>10, <1>11 DEF SummaryInv

\* Writing down the recommendation a forecast became.
LEMMA RecommendRowStep ==
    ASSUME SummaryInv, summary = {}, RecommendRow
    PROVE  SummaryInv'
<1>1. PICK d \in decision, demand \in Demands :
        rows' = Append(rows, [of |-> ThisRun, fractile |-> CriticalFractile(economics),
                              order |-> d.order, safety |-> d.safety, demand |-> demand])
  BY DEF RecommendRow
<1>2. /\ raw' = << >> /\ predictions' = << >> /\ decision' = {}
      /\ UNCHANGED <<economics, command, settingVars, graded, metrics, tableVars, run, summary>>
  BY DEF RecommendRow
<1>3. command = "recommend" /\ predictions # << >> /\ run = {}
  BY <1>1 DEF SummaryInv, GradingPart, ForecastInv, RunInv
<1>4. GradingPart' /\ SameTerms
  BY <1>2, <1>3, RowDone DEF SummaryInv
<1> DEFINE row == [of |-> ThisRun, fractile |-> CriticalFractile(economics),
                   order |-> d.order, safety |-> d.safety, demand |-> demand]
<1>5. row \in RowsOfThisRun
  <2>1. /\ d.order \in Int /\ d.safety \in Int
        /\ d.safety > 0 => 2 * CriticalFractile(economics)[1] > CriticalFractile(economics)[2]
        /\ d.safety < 0 => 2 * CriticalFractile(economics)[1] < CriticalFractile(economics)[2]
    BY DecisionIs DEF SummaryInv, GradingPart
  <2>2. CriticalFractile(economics) \in Int \X Int
    BY LevelsType DEF SummaryInv, GradingPart, GradingInv
  <2>3. ThisRun \in RunOf /\ demand \in Int
    BY TablesAssumption, GradingAssumption
  <2>4. SafetySign(row)
    BY <2>1 DEF SafetySign
  <2>5. row \in Recommended
    BY <2>1, <2>2, <2>3 DEF Recommended
  <2> QED
    BY <2>4, <2>5 DEF RowsOfThisRun
<1>6. rows \in Seq(RowsOfThisRun) /\ Len(rows) < MaxRows /\ MaxRows \in Nat
  BY <1>3, GradingAssumption DEF SummaryInv, RowsInv
<1> HIDE DEF row
<1>7. Append(rows, row) \in Seq(RowsOfThisRun) /\ Len(Append(rows, row)) <= MaxRows
  BY <1>5, <1>6
<1>8. rows' = Append(rows, row)
  BY <1>1 DEF row
<1>9. RowsInv'
  BY <1>2, <1>3, <1>4, <1>7, <1>8 DEF RowsInv, SameTerms
<1>10. TablesInv'
  BY <1>2, <1>4, SameTables DEF SummaryInv
<1>11. RunInv' /\ ReportInv'
  BY <1>2, <1>3, NoReport DEF RunInv
<1> QED
  BY <1>4, <1>9, <1>10, <1>11 DEF SummaryInv

\* Replacing the table of recommendations by the rows of this run.
LEMMA PersistRecommendationsStep ==
    ASSUME SummaryInv, summary = {}, PersistRecommendations
    PROVE  SummaryInv'
<1>1. /\ command = "recommend" /\ rows # << >> /\ raw = << >>
      /\ recommendations' = {rows} /\ rows' = << >>
      /\ UNCHANGED <<vars, results, run, summary>>
  BY DEF PersistRecommendations
<1>2. GradingPart' /\ SameTerms
  BY <1>1, SameGrading DEF SummaryInv
<1>3. UNCHANGED <<command, predictions, graded, metrics>> /\ run = {} /\ predictions = << >>
  BY <1>1, NothingForecast DEF vars, forecastVars, SummaryInv, GradingPart, RunInv
<1>4. rows \in Seq(RowsOfThisRun)
  BY <1>1 DEF SummaryInv, RowsInv
<1>5. RowsInv'
  BY <1>1, <1>3, GradingAssumption DEF RowsInv
<1>6. TablesInv'
  BY <1>1, <1>2, <1>3, <1>4 DEF SummaryInv, TablesInv, SameTerms, ResultsOf
<1>7. RunInv' /\ ReportInv'
  BY <1>1, <1>3, NoReport DEF RunInv
<1> QED
  BY <1>2, <1>5, <1>6, <1>7 DEF SummaryInv

\* Replacing the table of results by the decisions the two policies are compared by.
LEMMA PersistResultsStep ==
    ASSUME SummaryInv, summary = {}, PersistResults
    PROVE  SummaryInv'
<1>1. /\ metrics # {} /\ results' = {ResultsOf("ml") \o ResultsOf("baseline")}
      /\ UNCHANGED <<vars, rows, recommendations, run, summary>>
  BY DEF PersistResults
<1>2. GradingPart' /\ SameTerms
  BY <1>1, SameGrading DEF SummaryInv
<1>3. UNCHANGED <<economics, command, raw, predictions, graded, metrics>>
  BY <1>1 DEF vars, forecastVars
<1>4. RowsInv'
  BY <1>1, <1>2, <1>3 DEF SummaryInv, RowsInv, SameTerms
<1>5. TablesInv'
  <2>1. ResultsOf("ml")' = ResultsOf("ml") /\ ResultsOf("baseline")' = ResultsOf("baseline")
    BY <1>3 DEF ResultsOf
  <2> QED
    BY <1>1, <1>2, <1>3, <2>1 DEF SummaryInv, TablesInv, SameTerms
<1>6. RunInv'
  BY <1>1, <1>3, SameMetrics DEF SummaryInv, RunInv
<1>7. ReportInv'
  BY <1>1, NoReport
<1> QED
  BY <1>2, <1>4, <1>5, <1>6, <1>7 DEF SummaryInv

\* Starting the run of train, and logging the next metric of it.
LEMMA RunStep ==
    ASSUME SummaryInv, summary = {}, StartRun \/ LogMetric
    PROVE  SummaryInv'
<1>1. UNCHANGED <<vars, rows, tableVars, summary>>
  BY DEF StartRun, LogMetric
<1>2. GradingPart' /\ SameTerms
  BY <1>1, SameGrading DEF SummaryInv
<1>3. UNCHANGED <<economics, command, raw, predictions, graded, metrics>>
  BY <1>1 DEF vars, forecastVars
<1>4. RowsInv'
  BY <1>1, <1>2, <1>3 DEF SummaryInv, RowsInv, SameTerms
<1>5. TablesInv'
  BY <1>1, <1>2, <1>3, SameTables DEF SummaryInv
<1>6. MetricKeys' = MetricKeys /\ \A key : MetricValue(key)' = MetricValue(key)
  BY <1>1, <1>3, SameMetrics
<1>7. CASE StartRun
  <2>1. command = "train" /\ rows # << >> /\ raw = << >> /\ run' = {<< >>}
    BY <1>7 DEF StartRun
  <2>2. predictions = << >> /\ DOMAIN << >> = {}
    BY <2>1, NothingForecast DEF SummaryInv, GradingPart
  <2>3. RunInv'
    BY <1>1, <1>3, <2>1, <2>2 DEF RunInv
  <2> QED
    BY <1>1, <1>2, <1>4, <1>5, <2>3, NoReport DEF SummaryInv
<1>8. CASE LogMetric
  <2>0. PICK logged \in run :
          \E key \in MetricKeys \ DOMAIN logged :
            /\ \A other \in MetricKeys \ DOMAIN logged : other # key => Precedes(key, other)
            /\ run' = {[k \in DOMAIN logged \cup {key} |->
                           IF k = key THEN MetricValue(key) ELSE logged[k]]}
    BY <1>8 DEF LogMetric
  <2>1. PICK key \in MetricKeys \ DOMAIN logged :
          /\ \A other \in MetricKeys \ DOMAIN logged : other # key => Precedes(key, other)
          /\ run' = {[k \in DOMAIN logged \cup {key} |->
                         IF k = key THEN MetricValue(key) ELSE logged[k]]}
    BY <2>0
  <2> DEFINE longer == [k \in DOMAIN logged \cup {key} |->
                            IF k = key THEN MetricValue(key) ELSE logged[k]]
  <2>2. run' = {longer} /\ DOMAIN longer = DOMAIN logged \cup {key}
    BY <2>1
  <2>3. /\ DOMAIN logged \subseteq MetricKeys
        /\ \A k \in DOMAIN logged, other \in MetricKeys : Precedes(other, k) => other \in DOMAIN logged
        /\ \A k \in DOMAIN logged : logged[k] = MetricValue(k)
        /\ command = "train" /\ rows # << >> /\ raw = << >> /\ predictions = << >>
    BY DEF SummaryInv, RunInv
  <2>4. \A k \in DOMAIN longer : longer[k] = MetricValue(k)
    BY <2>3
  <2>5. ASSUME NEW k \in DOMAIN longer, NEW other \in MetricKeys, Precedes(other, k)
        PROVE  other \in DOMAIN longer
    <3>1. CASE k \in DOMAIN logged
      BY <2>2, <2>3, <2>5, <3>1
    <3>2. CASE k = key
      <4> SUFFICES ASSUME other \notin DOMAIN longer PROVE FALSE
        OBVIOUS
      <4>1. Precedes(key, other)
        BY <2>1, <2>2
      <4>2. key \in Int \X Int /\ other \in Int \X Int
        BY MetricKeysType DEF SummaryInv, GradingPart, GradingInv, ForecastInv
      <4>3. \A k1, k2, o1, o2 \in Int :
              ~((k1 < o1 \/ (k1 = o1 /\ k2 < o2)) /\ (o1 < k1 \/ (o1 = k1 /\ o2 < k2)))
        OBVIOUS
      <4> QED
        BY <2>5, <3>2, <4>1, <4>2, <4>3 DEF Precedes
    <3> QED
      BY <2>2, <3>1, <3>2
  <2> HIDE DEF longer
  <2>6. DOMAIN longer \subseteq MetricKeys
    BY <2>2, <2>3
  <2>7. RunInv'
    BY <1>1, <1>3, <1>6, <2>2, <2>3, <2>4, <2>5, <2>6 DEF RunInv
  <2> QED
    BY <1>1, <1>2, <1>4, <1>5, <2>7, NoReport DEF SummaryInv
<1> QED
  BY <1>7, <1>8

\* Gathering the report, and doing nothing.
LEMMA GatherStep ==
    ASSUME SummaryInv, Gather \/ UNCHANGED allVars
    PROVE  SummaryInv'
<1>1. UNCHANGED <<vars, rows, tableVars, run>>
  BY DEF Gather, allVars, summaryVars
<1>2. GradingPart' /\ SameTerms
  BY <1>1, SameGrading DEF SummaryInv
<1>3. UNCHANGED <<economics, command, raw, predictions, graded, metrics>>
  BY <1>1 DEF vars, forecastVars
<1>4. RowsInv'
  BY <1>1, <1>2, <1>3 DEF SummaryInv, RowsInv, SameTerms
<1>5. TablesInv'
  BY <1>1, <1>2, <1>3, SameTables DEF SummaryInv
<1>6. RunInv'
  BY <1>1, <1>3, SameMetrics DEF SummaryInv, RunInv
<1>7. ReportInv'
  <2>1. CASE Gather
    <3>1. PICK tops \in {f \in [recommendations -> UNION {TopMisses(t) : t \in recommendations}] :
                            \A t \in recommendations : f[t] \in TopMisses(t)} :
            summary' = {[recommendations |-> {RecommendationsSummary(t, tops[t]) : t \in recommendations},
                         simulation |-> {SimulationSummary(t) : t \in results},
                         accuracy |-> {AccuracySummary(logged) : logged \in run}]}
      BY <2>1 DEF Gather
    <3>2. \A t \in recommendations : tops[t] \in TopMisses(t)
      BY <3>1
    <3>3. UNCHANGED <<recommendations, results, run>>
      BY <1>1 DEF tableVars
    <3>4. \A s, other \in summary' : s = other
      BY <3>1
    <3>5. ASSUME NEW s \in summary'
          PROVE  /\ \A shown \in s.recommendations :
                       \E t \in recommendations : \E top \in TopMisses(t) :
                          shown = RecommendationsSummary(t, top)
                 /\ s.simulation = {SimulationSummary(t) : t \in results}
                 /\ s.accuracy = {AccuracySummary(logged) : logged \in run}
      <4>1. /\ s.recommendations = {RecommendationsSummary(t, tops[t]) : t \in recommendations}
            /\ s.simulation = {SimulationSummary(t) : t \in results}
            /\ s.accuracy = {AccuracySummary(logged) : logged \in run}
        BY <3>1
      <4> QED
        BY <3>2, <4>1
    <3> QED
      BY <3>3, <3>4, <3>5 DEF ReportInv
  <2>2. CASE UNCHANGED allVars
    BY <2>2 DEF SummaryInv, ReportInv, allVars, summaryVars, tableVars
  <2> QED
    BY <2>1, <2>2
<1> QED
  BY <1>2, <1>4, <1>5, <1>6, <1>7 DEF SummaryInv

\* Nothing is forecast, and no table is older than one run, when a command starts.
LEMMA SummaryInitInv == SummaryInit => SummaryInv
<1> SUFFICES ASSUME SummaryInit PROVE SummaryInv
  OBVIOUS
<1>1. /\ Init /\ rows = << >> /\ run = {} /\ summary = {}
      /\ recommendations \in {{}, {OldRows}} /\ results \in {{}, {OldResults}}
  BY DEF SummaryInit
<1>2. /\ command \in {"train", "recommend", "simulate"}
      /\ raw = << >> /\ predictions = << >> /\ decision = {} /\ DOMAIN raw = {}
      /\ lead = 0 /\ distribution = "none" /\ history = {} /\ graded = << >> /\ metrics = {}
  BY <1>1 DEF Init, ForecastInit
<1>3. GradingPart
  BY <1>1, <1>2, GradingInit DEF GradingPart, SettingsInv, ForecastInv, LoopInv
<1>4. RowsInv
  BY <1>1, <1>2, GradingAssumption DEF RowsInv
<1>5. TablesInv
  BY <1>1 DEF TablesInv
<1>6. RunInv /\ ReportInv
  BY <1>1 DEF RunInv, ReportInv
<1> QED
  BY <1>3, <1>4, <1>5, <1>6 DEF SummaryInv

\* Every step keeps the invariant.
LEMMA SummaryNextInv == SummaryInv /\ [SummaryNext]_allVars => SummaryInv'
BY ContinueStep, ScoreRowStep, RecommendRowStep, PersistRecommendationsStep, PersistResultsStep,
   RunStep, GatherStep DEF SummaryNext

\* SummaryInv holds in every reachable state.
THEOREM SummaryInductive == SummarySpec => []SummaryInv
BY SummaryInitInv, SummaryNextInv, PTL DEF SummarySpec

--------------------------------------------------------------------------------
(****************************************************************************)
(* The forecast of a row.                                                   *)
(****************************************************************************)

\* Whatever the independently fitted models of a row predict, the rearranged
\* predictions do not cross and are the same values (metrics.py:54-71), for every list
\* of quantiles.
THEOREM NoCrossingThm == SummarySpec => []NoCrossing
<1>1. ASSUME SummaryInv PROVE NoCrossing
  <2> SUFFICES ASSUME predictions # << >> PROVE NoCrossing
    BY DEF NoCrossing
  <2>1. /\ Forecasts(raw) /\ predictions = Rearranged(raw) /\ DOMAIN raw = Quantiles
        /\ DOMAIN predictions = Quantiles
    BY <1>1, RawIsForecast DEF SummaryInv, GradingPart
  <2>2. \A p, q \in Quantiles : p <= q => predictions[p] <= predictions[q]
    BY <1>1, PredictionsSorted DEF SummaryInv, GradingPart
  <2>3. \A v : Cardinality({q \in DOMAIN raw : raw[q] = v})
                 = Cardinality({q \in DOMAIN raw : predictions[q] = v})
    <3>1. \A v : Cardinality({q \in DOMAIN raw : raw[q] = v})
                   = Cardinality({q \in DOMAIN raw : Rearranged(raw)[q] = v})
      BY <2>1, RearrangedSorts, Zenon
    <3>2. predictions = Rearranged(raw)
      BY <2>1
    <3> QED
      BY <3>1, <3>2, Zenon
  <2> QED
    BY <2>1, <2>2, <2>3 DEF NoCrossing
<1> QED
  BY <1>1, SummaryInductive, PTL

\* Rearranging never makes a row's forecast worse, whatever is then sold
\* (metrics.py:54-71), for every list of quantiles and whatever the models predict.
THEOREM RearrangementNeverHurtsThm == SummarySpec => []RearrangementNeverHurts
<1>1. ASSUME SummaryInv PROVE RearrangementNeverHurts
  <2> SUFFICES ASSUME predictions # << >>, NEW d \in Predictions
               PROVE  TotalLoss(predictions, d) <= TotalLoss(raw, d)
    BY DEF RearrangementNeverHurts
  <2> DEFINE m == Parts * Whole
  <2>1. /\ Forecasts(raw) /\ predictions = Rearranged(raw) /\ DOMAIN raw = Quantiles
        /\ DOMAIN predictions = DOMAIN raw
    BY <1>1, RawIsForecast DEF SummaryInv, GradingPart
  <2>2. m \in Nat /\ DOMAIN raw \subseteq 0..m /\ d \in Int
    <3>1. m \in Nat /\ Quantiles \subseteq 1..m
      BY <1>1, LevelsType, QuantilesType DEF SummaryInv, GradingPart, GradingInv, ForecastInv
    <3>2. 1..m \subseteq 0..m
      OBVIOUS
    <3> HIDE DEF m
    <3> QED
      BY <2>1, <3>1, <3>2, ForecastAssumption
  <2> HIDE DEF m
  <2>3. LossOf(Rearranged(raw), m, d, DOMAIN raw) <= LossOf(raw, m, d, DOMAIN raw)
    BY <2>1, <2>2, RearrangingNeverHurts
  <2>4. LossOf(predictions, m, d, DOMAIN predictions) <= LossOf(raw, m, d, DOMAIN raw)
    BY <2>1, <2>3
  <2>5. \A f : TotalLoss(f, d) = LossOf(f, m, d, DOMAIN f)
    BY DEF TotalLoss, LossOf, SumFunction, m
  <2> QED
    BY <2>4, <2>5
<1> QED
  BY <1>1, SummaryInductive, PTL

\* "The optimal order quantity ... is the demand quantile at the critical fractile"
\* (newsvendor.py:3-6): a recommended quantity that is such a quantile of a sample of
\* demands is the cheapest order for it, whatever the costs.
THEOREM OptimalAtFractileThm == SummarySpec => []OptimalAtFractile
<1>1. ASSUME SummaryInv PROVE OptimalAtFractile
  <2> SUFFICES ASSUME NEW d \in decision, NEW sample \in Samples,
                      IsQuantile(sample, d.order, CriticalFractile(economics)),
                      NEW other \in Predictions
               PROVE  TotalCost(sample, d.order) <= TotalCost(sample, other)
    BY DEF OptimalAtFractile
  <2> DEFINE D == DOMAIN sample
             e == economics
             q == d.order
  <2>1. IsFiniteSet(D) /\ \A i \in D : sample[i] \in Int
    <3>1. D = 1..3 /\ \A i \in D : sample[i] \in Predictions
      BY DEF Samples
    <3>2. \A a, b \in Int : IsFiniteSet(a..b)
      BY FS_Interval
    <3>3. IsFiniteSet(1..3)
      <4>1. 1 \in Int /\ 3 \in Int
        OBVIOUS
      <4> QED
        BY <3>2, <4>1, Zenon
    <3> QED
      BY <3>1, <3>3, ForecastAssumption
  <2>2. q \in Int /\ other \in Int /\ e \in Economies
    BY <1>1, DecisionIs, ForecastAssumption DEF SummaryInv, GradingPart, GradingInv
  <2>3. /\ Cardinality({i \in D : sample[i] < q}) * CriticalFractile(e)[2]
             <= CriticalFractile(e)[1] * Cardinality(D)
        /\ CriticalFractile(e)[1] * Cardinality(D)
             <= Cardinality({i \in D : sample[i] <= q}) * CriticalFractile(e)[2]
    BY DEF IsQuantile, AtMost
  <2>4. \A x : TotalCost(sample, x)
                 = SumFunctionOnSet([i \in D |-> RealizedCost(e, x, sample[i], 1)], D)
    BY DEF TotalCost, SumFunction
  <2> HIDE DEF D, e, q
  <2>5. SumFunctionOnSet([i \in D |-> RealizedCost(e, q, sample[i], 1)], D)
          <= SumFunctionOnSet([i \in D |-> RealizedCost(e, other, sample[i], 1)], D)
    BY <2>1, <2>2, <2>3, QuantileIsOptimal
  <2> QED
    BY <2>4, <2>5 DEF q
<1> QED
  BY <1>1, SummaryInductive, PTL

\* Both policies stay graded by the pinball loss through the persistence and the
\* report of a replay, whatever else train and recommend do with the forecast.
THEOREM SummaryGradedThm == SummarySpec => []GradedByPinball
<1>1. SummaryInv => GradedByPinball
  BY GradedWellEnough DEF SummaryInv, GradingPart
<1> QED
  BY <1>1, SummaryInductive, PTL

--------------------------------------------------------------------------------
(****************************************************************************)
(* The recommendations in the report.                                       *)
(****************************************************************************)

\* The indices of a table are finite in number.
LEMMA TableIndices ==
    ASSUME NEW S, NEW table \in Seq(S)
    PROVE  /\ DOMAIN table = 1..Len(table) /\ Len(table) \in Nat
           /\ IsFiniteSet(DOMAIN table) /\ \A i \in DOMAIN table : table[i] \in S
<1>1. DOMAIN table = 1..Len(table) /\ Len(table) \in Nat /\ \A i \in DOMAIN table : table[i] \in S
  OBVIOUS
<1>2. IsFiniteSet(1..Len(table))
  BY <1>1, FS_Interval
<1> QED
  BY <1>1, <1>2

\* Without a NaN the sum is a sum of integers.
LEMMA SumOfInts ==
    ASSUME NEW a, \A i \in DOMAIN a : a[i] \in Int
    PROVE  SumOf(a) = SumFunctionOnSet(a, DOMAIN a)
BY GradingAssumption DEF SumOf, SumFunction

\* Nothing but zeros adds up to zero.
LEMMA SumZero ==
    ASSUME NEW D, IsFiniteSet(D)
    PROVE  SumFunctionOnSet([i \in D |-> 0], D) = 0
<1> DEFINE z == [i \in D |-> 0]
<1>1. {} \in SUBSET D /\ \A i \in D : z[i] = IF i \in {} THEN 0 ELSE 0
  OBVIOUS
<1>2. Cardinality({}) = 0 /\ Cardinality(D) \in Nat
  BY FS_EmptySet, FS_CardinalityType
<1> HIDE DEF z
<1>3. 0 \in Int
  OBVIOUS
<1>4. SumFunctionOnSet(z, D) = 0 * Cardinality({}) + 0 * (Cardinality(D) - Cardinality({}))
  BY <1>1, <1>3, SumCounts
<1> QED
  BY <1>2, <1>4 DEF z

\* A sum has a sign only if one of its terms has it.
LEMMA SumSign ==
    ASSUME NEW D, IsFiniteSet(D), NEW a, \A i \in D : a[i] \in Int
    PROVE  /\ SumFunctionOnSet(a, D) > 0 => \E i \in D : a[i] > 0
           /\ SumFunctionOnSet(a, D) < 0 => \E i \in D : a[i] < 0
<1> DEFINE z == [i \in D |-> 0]
<1>1. SumFunctionOnSet(z, D) = 0 /\ \A i \in D : z[i] = 0 /\ z[i] \in Int
  BY SumZero
<1> HIDE DEF z
<1>2. SumFunctionOnSet(a, D) \in Int
  BY SumRecursion
<1>3. ASSUME \A i \in D : a[i] <= z[i] PROVE SumFunctionOnSet(a, D) <= SumFunctionOnSet(z, D)
  BY <1>1, <1>3, SumMono
<1>4. ASSUME \A i \in D : z[i] <= a[i] PROVE SumFunctionOnSet(z, D) <= SumFunctionOnSet(a, D)
  BY <1>1, <1>4, SumMono
<1>5. ASSUME SumFunctionOnSet(a, D) > 0, ~\E i \in D : a[i] > 0 PROVE FALSE
  <2>1. \A i \in D : a[i] <= z[i]
    BY <1>1, <1>5
  <2> QED
    BY <1>1, <1>2, <1>3, <1>5, <2>1
<1>6. ASSUME SumFunctionOnSet(a, D) < 0, ~\E i \in D : a[i] < 0 PROVE FALSE
  <2>1. \A i \in D : z[i] <= a[i]
    BY <1>1, <1>6
  <2> QED
    BY <1>1, <1>2, <1>4, <1>6, <2>1
<1> QED
  BY <1>5, <1>6

\* The recommendations of one run, and of one run only.
OneRunTable(table) ==
    /\ table \in Seq(Recommended) /\ table # << >> /\ OfOneRun(table)
    /\ \A i \in DOMAIN table : SafetySign(table[i])

\* There are no others.
LEMMA TablesAreOfOneRun ==
    ASSUME TablesInv, NEW table \in recommendations
    PROVE  OneRunTable(table)
<1>1. CASE table = OldRows
  BY <1>1, TablesAssumption DEF OneRunTable
<1>2. CASE table \in Seq(RowsOfThisRun) /\ table # << >>
  <2>1. \A i \in DOMAIN table : table[i] \in RowsOfThisRun
    BY <1>2
  <2>2. table \in Seq(Recommended)
    BY <1>2 DEF RowsOfThisRun
  <2> QED
    BY <1>2, <2>1, <2>2 DEF OneRunTable, OfOneRun, RowsOfThisRun
<1> QED
  BY <1>1, <1>2 DEF TablesInv

\* No recommendation left out of the list missed by more than one on it.
LEMMA TopMissesAreLargest ==
    ASSUME NEW table, table \in Seq(Recommended), NEW top \in TopMisses(table),
           NEW i \in DOMAIN table, i \notin {top[j] : j \in DOMAIN top},
           NEW j \in DOMAIN top
    PROVE  Miss(table[i]) <= Miss(table[top[j]])
<1>1. PICK n \in 1..Cap : top \in [1..n -> DOMAIN table]
  BY DEF TopMisses
<1>2. Len(top) = n /\ n \in Nat /\ n \in DOMAIN top
  <2>1. n \in Nat /\ n \in 1..n
    BY <1>1, SummaryAssumption
  <2>2. top \in Seq(DOMAIN table)
    BY <1>1, <2>1
  <2> QED
    BY <1>1, <2>1, <2>2
<1>3. \A k \in DOMAIN table : Miss(table[k]) \in Int
  <2> SUFFICES ASSUME NEW k \in DOMAIN table PROVE Miss(table[k]) \in Int
    OBVIOUS
  <2>1. table[k].order \in Int /\ table[k].demand \in Int
    <3>1. table[k] \in Recommended
      OBVIOUS
    <3> QED
      BY <3>1 DEF Recommended
  <2> QED
    BY <2>1 DEF Miss, Distance
<1>4. Miss(table[i]) <= Miss(table[top[n]])
  BY <1>2 DEF TopMisses
<1>5. j # n => Miss(table[top[j]]) >= Miss(table[top[n]])
  <2>1. j < n \/ j = n
    BY <1>1, <1>2
  <2> QED
    BY <1>2, <2>1 DEF TopMisses
<1>6. top[j] \in DOMAIN table /\ top[n] \in DOMAIN table
  BY <1>1, <1>2
<1> QED
  BY <1>3, <1>4, <1>5, <1>6

\* The header of the summary is what every row says.
LEMMA HeaderIs ==
    ASSUME NEW table, OneRunTable(table), NEW top, NEW i \in DOMAIN table
    PROVE  LET shown == RecommendationsSummary(table, top)
           IN  /\ table[i].of = [snapshot |-> shown.snapshot, lead |-> shown.lead,
                                 origin |-> shown.date]
               /\ table[i].fractile = shown.fractile
<1> DEFINE row == table[i]
           shown == RecommendationsSummary(table, top)
<1>1. row \in Recommended /\ \A k \in DOMAIN table : table[k].of = row.of
                                                    /\ table[k].fractile = row.fractile
  BY DEF OneRunTable, OfOneRun
<1>2. /\ {table[k].of.origin : k \in DOMAIN table} = {row.of.origin}
      /\ {table[k].of.lead : k \in DOMAIN table} = {row.of.lead}
      /\ {table[k].of.snapshot : k \in DOMAIN table} = {row.of.snapshot}
      /\ {table[k].fractile : k \in DOMAIN table} = {row.fractile}
  BY <1>1
<1>3. row.of \in RunOf /\ row.fractile \in Int \X Int
  BY <1>1 DEF Recommended
<1>4. \A x \in Int : Min({x}) = x /\ Max({x}) = x
  BY DEF Min, Max
<1>5. /\ shown.date = Min({row.of.origin}) /\ shown.lead = Max({row.of.lead})
      /\ shown.snapshot = Max({row.of.snapshot})
  BY <1>2 DEF RecommendationsSummary
<1>6. /\ row.of.origin \in Int /\ row.of.lead \in Int /\ row.of.snapshot \in Int
      /\ row.of = [snapshot |-> row.of.snapshot, lead |-> row.of.lead, origin |-> row.of.origin]
  BY <1>3 DEF RunOf
<1>7. shown.fractile = row.fractile
  <2>1. ~LessFraction(row.fractile, row.fractile)
    <3>1. row.fractile[1] \in Int /\ row.fractile[2] \in Int
      BY <1>3
    <3>2. \A x, y \in Int : ~(x * y < x * y)
      <4>1. \A x, y \in Int : x * y \in Int
        OBVIOUS
      <4>2. \A z \in Int : ~(z < z)
        OBVIOUS
      <4> QED
        BY <4>1, <4>2
    <3> QED
      BY <3>1, <3>2 DEF LessFraction
  <2>2. shown.fractile = CHOOSE f \in {row.fractile} :
                            \A k \in DOMAIN table : ~LessFraction(table[k].fractile, f)
    BY <1>2 DEF RecommendationsSummary
  <2>3. \A k \in DOMAIN table : ~LessFraction(table[k].fractile, row.fractile)
    BY <1>1, <2>1
  <2> HIDE DEF row
  <2> QED
    BY <2>2, <2>3
<1> HIDE DEF row, shown
<1>8. shown.date = row.of.origin /\ shown.lead = row.of.lead /\ shown.snapshot = row.of.snapshot
  BY <1>4, <1>5, <1>6
<1> QED
  BY <1>6, <1>7, <1>8 DEF row, shown

\* The header of the report names the one run the table comes from, and its list of
\* misses leaves out no larger one, however many recommendations there are
\* (report_recommendations_summary.sql, report_recommendations_top_misses.sql).
THEOREM SummarySpeaksForTableThm == SummarySpec => []SummarySpeaksForTable
<1>1. ASSUME SummaryInv PROVE SummarySpeaksForTable
  <2> SUFFICES ASSUME NEW s \in summary, NEW shown \in s.recommendations,
                      NEW table \in recommendations, NEW i \in DOMAIN table
               PROVE  /\ table[i].of = [snapshot |-> shown.snapshot, lead |-> shown.lead,
                                        origin |-> shown.date]
                      /\ table[i].fractile = shown.fractile
                      /\ \/ \E j \in DOMAIN shown.misses : shown.misses[j] = table[i]
                         \/ \A j \in DOMAIN shown.misses :
                               Distance(table[i].order, table[i].demand)
                                 <= Distance(shown.misses[j].order, shown.misses[j].demand)
    BY DEF SummarySpeaksForTable
  <2>1. OneRunTable(table) /\ table \in Seq(Recommended)
    BY <1>1, TablesAreOfOneRun DEF SummaryInv, OneRunTable
  <2>2. PICK top \in TopMisses(table) : shown = RecommendationsSummary(table, top)
    BY <1>1 DEF SummaryInv, ReportInv, TablesInv
  <2>3. shown.misses = [j \in DOMAIN top |-> table[top[j]]]
    BY <2>2 DEF RecommendationsSummary
  <2>4. CASE i \in {top[j] : j \in DOMAIN top}
    BY <2>1, <2>2, <2>3, <2>4, HeaderIs
  <2>5. CASE i \notin {top[j] : j \in DOMAIN top}
    <3>1. \A j \in DOMAIN top : Miss(table[i]) <= Miss(table[top[j]])
      BY <2>1, <2>2, <2>5, TopMissesAreLargest
    <3> QED
      BY <2>1, <2>2, <2>3, <3>1, HeaderIs DEF Miss
  <2> QED
    BY <2>4, <2>5
<1> QED
  BY <1>1, SummaryInductive, PTL

\* "A positive value means the critical fractile sits above the median ... a negative
\* value means the reverse" (newsvendor.py:42-46), of the total the report shows: each
\* row's safety stock has the sign, so their sum has it.
THEOREM SafetyStockShownThm == SummarySpec => []SafetyStockShown
<1>1. ASSUME SummaryInv PROVE SafetyStockShown
  <2> SUFFICES ASSUME NEW s \in summary, NEW shown \in s.recommendations
               PROVE  /\ shown.safety > 0 => 2 * shown.fractile[1] > shown.fractile[2]
                      /\ shown.safety < 0 => 2 * shown.fractile[1] < shown.fractile[2]
    BY DEF SafetyStockShown
  <2>0. PICK table \in recommendations :
            \E top \in TopMisses(table) : shown = RecommendationsSummary(table, top)
    BY <1>1 DEF SummaryInv, ReportInv
  <2>1. PICK top \in TopMisses(table) : shown = RecommendationsSummary(table, top)
    BY <2>0
  <2> DEFINE D == DOMAIN table
             stock == [i \in D |-> table[i].safety]
  <2>2. OneRunTable(table)
    BY <1>1, TablesAreOfOneRun DEF SummaryInv
  <2>3. IsFiniteSet(D) /\ \A i \in D : table[i] \in Recommended
    BY <2>2, TableIndices DEF OneRunTable
  <2>4. \A i \in D : stock[i] \in Int /\ stock[i] = table[i].safety
    BY <2>3 DEF Recommended
  <2>5. shown.safety = SumOf(stock) /\ DOMAIN stock = D
    BY <2>1 DEF RecommendationsSummary
  <2>6. \A i \in D : table[i].fractile = shown.fractile /\ SafetySign(table[i])
    BY <2>1, <2>2, HeaderIs DEF OneRunTable
  <2> HIDE DEF D, stock
  <2>7. shown.safety = SumFunctionOnSet(stock, D)
    BY <2>4, <2>5, SumOfInts
  <2>8. /\ shown.safety > 0 => \E i \in D : stock[i] > 0
        /\ shown.safety < 0 => \E i \in D : stock[i] < 0
    BY <2>3, <2>4, <2>7, SumSign
  <2> QED
    BY <2>4, <2>6, <2>8 DEF SafetySign
<1> QED
  BY <1>1, SummaryInductive, PTL

--------------------------------------------------------------------------------
(****************************************************************************)
(* The comparison of the two policies in the report.                        *)
(****************************************************************************)

\* A table of results: k decisions of the ML policy, then the baseline's k, pairwise of
\* one demand, one price and one cost file.
PairedTable(table, k, e) ==
    /\ table \in Seq(ResultRows) /\ Len(table) = k + k /\ k \in Nat \ {0} /\ e \in CostConfigs
    /\ \A i \in 1..k : Paired(e, table[i], table[k + i])

\* What simulate writes is such a table.
LEMMA ResultsOfPaired ==
    ASSUME GradingInv, graded # << >>
    PROVE  LET table == ResultsOf("ml") \o ResultsOf("baseline")
               k == Len(graded)
           IN  /\ PairedTable(table, k, economics)
               /\ \A i \in 1..k : /\ table[i].decision = graded[i]["ml"]
                                  /\ table[k + i].decision = graded[i]["baseline"]
<1> DEFINE k == Len(graded)
           ml == ResultsOf("ml")
           baseline == ResultsOf("baseline")
           table == ml \o baseline
<1>1. /\ k \in Nat \ {0} /\ DOMAIN graded = 1..k
      /\ \A i \in 1..k : graded[i] \in WellGraded(economics)
  <2>1. graded \in Seq(WellGraded(economics))
    BY DEF GradingInv
  <2> QED
    BY <2>1
<1>2. \A i \in 1..k :
        /\ graded[i].demand \in Demands /\ graded[i].price \in Prices
        /\ graded[i].ml \in Decisions /\ graded[i].baseline \in Decisions
        /\ graded[i].ml.order # NaN
        /\ graded[i].ml = Graded(economics, graded[i].ml.order, graded[i].demand, graded[i].price)
        /\ graded[i].baseline
             = Graded(economics, graded[i].baseline.order, graded[i].demand, graded[i].price)
  BY <1>1 DEF WellGraded, Rows
<1>3. /\ ml = [i \in 1..k |-> [policy |-> "ml", demand |-> graded[i].demand,
                              decision |-> graded[i].ml]]
      /\ baseline = [i \in 1..k |-> [policy |-> "baseline", demand |-> graded[i].demand,
                                    decision |-> graded[i].baseline]]
  BY <1>1 DEF ResultsOf
<1>4. ml \in Seq(ResultRows) /\ baseline \in Seq(ResultRows) /\ Len(ml) = k /\ Len(baseline) = k
  <2>1. /\ \A i \in 1..k : ml[i] \in ResultRows
        /\ \A i \in 1..k : baseline[i] \in ResultRows
    BY <1>2, <1>3 DEF ResultRows
  <2>2. ml \in [1..k -> ResultRows] /\ baseline \in [1..k -> ResultRows]
    BY <1>3, <2>1
  <2> HIDE DEF ml, baseline, k
  <2> QED
    BY <1>1, <2>2
<1>5. table \in Seq(ResultRows) /\ Len(table) = k + k
  <2> HIDE DEF ml, baseline, k
  <2> QED
    BY <1>1, <1>4
<1>6. ASSUME NEW i \in 1..k PROVE table[i] = ml[i] /\ table[k + i] = baseline[i]
  <2> HIDE DEF ml, baseline, k
  <2> QED
    BY <1>1, <1>4
<1>7. \A i \in 1..k :
        /\ table[i].policy = "ml" /\ table[i].demand = graded[i].demand
        /\ table[i].decision = graded[i].ml
        /\ table[k + i].policy = "baseline" /\ table[k + i].demand = graded[i].demand
        /\ table[k + i].decision = graded[i].baseline
  BY <1>3, <1>6
<1>8. economics \in CostConfigs
  BY DEF GradingInv
<1> HIDE DEF table, k
<1>9. ASSUME NEW i \in 1..k PROVE Paired(economics, table[i], table[k + i])
  <2>1. /\ table[i].decision
             = Graded(economics, table[i].decision.order, table[i].demand, graded[i].price)
        /\ table[k + i].decision
             = Graded(economics, table[k + i].decision.order, table[k + i].demand, graded[i].price)
    BY <1>2, <1>7
  <2> QED
    BY <1>2, <1>7, <2>1 DEF Paired
<1>10. PairedTable(table, k, economics)
  BY <1>1, <1>5, <1>8, <1>9 DEF PairedTable
<1> QED
  BY <1>7, <1>10 DEF table, k

\* Any table of results is.
LEMMA ResultsArePaired ==
    ASSUME SummaryInv, NEW table \in results
    PROVE  \E k, e : PairedTable(table, k, e)
<1>1. CASE table = OldResults
  <2>1. table \in Seq(ResultRows) /\ LeftBySimulate(table)
    BY <1>1, TablesAssumption
  <2>2. PICK k \in 1..Len(table), e \in CostConfigs :
            Len(table) = k + k /\ \A i \in 1..k : Paired(e, table[i], table[k + i])
    BY <2>1 DEF LeftBySimulate
  <2>3. k \in Nat \ {0}
    BY <2>1
  <2> QED
    BY <2>1, <2>2, <2>3 DEF PairedTable
<1>2. CASE metrics # {} /\ table = ResultsOf("ml") \o ResultsOf("baseline")
  <2>1. graded # << >> /\ GradingInv
    BY <1>2 DEF SummaryInv, GradingPart, LoopInv
  <2> QED
    BY <1>2, <2>1, ResultsOfPaired
<1> QED
  BY <1>1, <1>2 DEF SummaryInv, TablesInv

\* A pair of decisions: an order between the demand and the other order costs no more.
LEMMA PairCosts ==
    ASSUME NEW e \in Economies, NEW ml \in ResultRows, NEW baseline \in ResultRows,
           Paired(e, ml, baseline)
    PROVE  /\ ml.decision.cost \in Nat
           /\ baseline.decision.order # NaN => baseline.decision.cost \in Nat
           /\ baseline.decision.order # NaN
                /\ Between(ml.demand, ml.decision.order, baseline.decision.order)
              => ml.decision.cost <= baseline.decision.cost
<1>1. PICK price \in Prices : \A r \in {ml, baseline} :
          r.decision = Graded(e, r.decision.order, r.demand, price)
  BY DEF Paired
<1> DEFINE d == ml.demand
           a == ml.decision.order
           b == baseline.decision.order
<1>2. /\ d \in Int /\ price \in Nat /\ d = baseline.demand
      /\ a \in Int /\ (b # NaN => b \in Int)
  <2>1. /\ ml.demand \in Demands /\ price \in Prices /\ ml.demand = baseline.demand
        /\ ml.decision \in Decisions /\ baseline.decision \in Decisions
        /\ ml.decision.order # NaN
    BY DEF Paired, ResultRows
  <2>2. /\ ml.decision.order \in Int
        /\ baseline.decision.order # NaN => baseline.decision.order \in Int
    BY <2>1 DEF Decisions
  <2>3. \A x \in Demands : x \in Int
    BY GradingAssumption
  <2>4. \A x \in Prices : x \in Nat
    BY GradingAssumption
  <2> QED
    BY <2>1, <2>2, <2>3, <2>4
<1>3. \A q \in Int : Graded(e, q, d, price).cost = RealizedCost(e, q, d, price)
  BY GradingAssumption DEF Graded, RealizedCost
<1>4. \A q \in Int : RealizedCost(e, q, d, price) \in Nat
  <2> SUFFICES ASSUME NEW q \in Int PROVE RealizedCost(e, q, d, price) \in Nat
    OBVIOUS
  <2> HIDE DEF d
  <2>1. /\ CostBreakdown(e, q, d, price).understock \in Nat
        /\ CostBreakdown(e, q, d, price).overstock \in Nat
    BY <1>2, BreakdownType
  <2> QED
    BY <2>1 DEF RealizedCost
<1>5. /\ ml.decision.cost = RealizedCost(e, a, d, price)
      /\ b # NaN => baseline.decision.cost = RealizedCost(e, b, d, price)
  <2>1. ml.decision = Graded(e, a, d, price) /\ baseline.decision = Graded(e, b, d, price)
    BY <1>1, <1>2
  <2> HIDE DEF d, a, b
  <2> QED
    BY <1>2, <1>3, <2>1
<1> HIDE DEF d, a, b
<1>6. b # NaN /\ Between(d, a, b) => RealizedCost(e, a, d, price) <= RealizedCost(e, b, d, price)
  BY <1>2, CloserCostsLess DEF Between
<1> QED
  BY <1>2, <1>4, <1>5, <1>6 DEF d, a, b

\* A sum over the rows of one policy can be taken over the pairs.
LEMMA SumOfPairs ==
    ASSUME NEW k \in Nat, NEW a, DOMAIN a = (k + 1)..(k + k), NEW b, DOMAIN b = 1..k,
           \A i \in 1..k : b[i] = a[k + i] /\ b[i] \in Int \cup {NaN}
    PROVE  SumOf(a) = SumOf(b)
<1> DEFINE E == 1..k
           D == (k + 1)..(k + k)
           p == [i \in E |-> k + i]
<1>1. /\ \A i \in E : k + i \in D
      /\ \A j \in D : j - k \in E /\ j = k + (j - k)
      /\ \A i, j \in E : k + i = k + j => i = j
  OBVIOUS
<1>2. p \in Bijection(E, D)
  <2>1. p \in [E -> D] /\ \A i \in E : p[i] = k + i
    BY <1>1
  <2>2. \A j \in D : \E i \in E : p[i] = j
    BY <1>1, <2>1
  <2>3. \A i, j \in E : p[i] = p[j] => i = j
    BY <1>1, <2>1
  <2> HIDE DEF p, E, D
  <2> QED
    BY <2>1, <2>2, <2>3 DEF Bijection, Injection, Surjection, IsInjective
<1>3. \A i \in E : b[i] = a[p[i]] /\ b[i] = a[k + i]
  OBVIOUS
<1>4. (\E j \in D : a[j] = NaN) <=> (\E i \in E : b[i] = NaN)
  <2> HIDE DEF E, D, p
  <2> QED
    BY <1>1, <1>3
<1>5. ASSUME ~\E i \in E : b[i] = NaN PROVE SumFunctionOnSet(b, E) = SumFunctionOnSet(a, D)
  <2>1. \A i \in E : b[i] \in Int
    BY <1>5
  <2>2. \A j \in D : a[j] \in Int
    <3> HIDE DEF E, D, p
    <3> QED
      BY <1>1, <1>3, <2>1
  <2>3. IsFiniteSet(E)
    BY FS_Interval
  <2> HIDE DEF E, D, p
  <2> QED
    BY <1>2, <1>3, <2>2, <2>3, SumRenamed
<1> QED
  BY <1>4, <1>5 DEF SumOf, SumFunction

\* What the report says of a table of pairs.
LEMMA PairedSummary ==
    ASSUME NEW table, NEW k, NEW e, PairedTable(table, k, e)
    PROVE  LET policies == SimulationSummary(table).policies
           IN  /\ k = Len(table) \div 2
               /\ DOMAIN policies = {"ml", "baseline"}
               /\ policies["ml"] =
                    [count |-> k, total |-> SumOf([i \in 1..k |-> table[i].decision.cost]),
                     understock |-> SumOf([i \in 1..k |-> table[i].decision.understock]),
                     overstock |-> SumOf([i \in 1..k |-> table[i].decision.overstock])]
               /\ policies["baseline"] =
                    [count |-> k, total |-> SumOf([i \in 1..k |-> table[k + i].decision.cost]),
                     understock |-> SumOf([i \in 1..k |-> table[k + i].decision.understock]),
                     overstock |-> SumOf([i \in 1..k |-> table[k + i].decision.overstock])]
<1> DEFINE E == 1..k
           D == (k + 1)..(k + k)
<1>1. /\ k \in Nat \ {0} /\ Len(table) = k + k /\ DOMAIN table = 1..(k + k)
      /\ \A i \in DOMAIN table : table[i] \in ResultRows
  BY DEF PairedTable
<1>2. k = Len(table) \div 2
  BY <1>1
<1>3. /\ E \cup D = DOMAIN table /\ E \cap D = {} /\ 1 \in E /\ k + 1 \in D
      /\ \A i \in E : k + i \in D
      /\ \A j \in D : j - k \in E /\ k + (j - k) = j
  BY <1>1
<1> HIDE DEF E, D
<1>4. /\ \A i \in E : table[i].policy = "ml"
      /\ \A j \in D : table[j].policy = "baseline"
  BY <1>3 DEF PairedTable, Paired, E
<1>5. /\ {i \in DOMAIN table : table[i].policy = "ml"} = E
      /\ {i \in DOMAIN table : table[i].policy = "baseline"} = D
  BY <1>3, <1>4
<1>6. Policies(table) = {"ml", "baseline"}
  BY <1>3, <1>4 DEF Policies
<1>7. Cardinality(E) = k /\ Cardinality(D) = k
  <2>1. Cardinality(1..k) = IF 1 > k THEN 0 ELSE k - 1 + 1
    BY <1>1, FS_Interval
  <2>2. Cardinality((k + 1)..(k + k)) = IF k + 1 > k + k THEN 0 ELSE (k + k) - (k + 1) + 1
    <3>1. k + 1 \in Int /\ k + k \in Int
      BY <1>1
    <3> QED
      BY <3>1, FS_Interval
  <2> QED
    BY <1>1, <2>1, <2>2 DEF E, D
<1>8. \A i \in DOMAIN table :
        /\ table[i].decision.cost \in Int \cup {NaN}
        /\ table[i].decision.understock \in Int \cup {NaN}
        /\ table[i].decision.overstock \in Int \cup {NaN}
  BY <1>1 DEF ResultRows, Decisions, Amounts
<1>9. /\ SumOf([j \in D |-> table[j].decision.cost]) = SumOf([i \in E |-> table[k + i].decision.cost])
      /\ SumOf([j \in D |-> table[j].decision.understock])
           = SumOf([i \in E |-> table[k + i].decision.understock])
      /\ SumOf([j \in D |-> table[j].decision.overstock])
           = SumOf([i \in E |-> table[k + i].decision.overstock])
  <2>1. ASSUME NEW f, \A i \in DOMAIN table : f[i] \in Int \cup {NaN}
        PROVE  SumOf([j \in D |-> f[j]]) = SumOf([i \in E |-> f[k + i]])
    <3> DEFINE a == [j \in D |-> f[j]]
               b == [i \in E |-> f[k + i]]
    <3>1. DOMAIN a = (k + 1)..(k + k) /\ DOMAIN b = 1..k
      BY DEF D, E
    <3>2. \A i \in E : b[i] = a[k + i] /\ b[i] \in Int \cup {NaN}
      BY <1>3, <2>1
    <3> HIDE DEF a, b
    <3>3. SumOf(a) = SumOf(b)
      BY <1>1, <3>1, <3>2, SumOfPairs DEF E
    <3> QED
      BY <3>3 DEF a, b
  <2> DEFINE Same(f) == SumOf([j \in D |-> f[j]]) = SumOf([i \in E |-> f[k + i]])
             cost == [i \in DOMAIN table |-> table[i].decision.cost]
             under == [i \in DOMAIN table |-> table[i].decision.understock]
             over == [i \in DOMAIN table |-> table[i].decision.overstock]
  <2>2. Same(cost) /\ Same(under) /\ Same(over)
    <3>1. /\ \A i \in DOMAIN table : cost[i] \in Int \cup {NaN}
          /\ \A i \in DOMAIN table : under[i] \in Int \cup {NaN}
          /\ \A i \in DOMAIN table : over[i] \in Int \cup {NaN}
      BY <1>8
    <3> HIDE DEF cost, under, over
    <3> QED
      BY <2>1, <3>1
  <2>3. /\ [j \in D |-> cost[j]] = [j \in D |-> table[j].decision.cost]
        /\ [j \in D |-> under[j]] = [j \in D |-> table[j].decision.understock]
        /\ [j \in D |-> over[j]] = [j \in D |-> table[j].decision.overstock]
    BY <1>3
  <2>4. /\ [i \in E |-> cost[k + i]] = [i \in E |-> table[k + i].decision.cost]
        /\ [i \in E |-> under[k + i]] = [i \in E |-> table[k + i].decision.understock]
        /\ [i \in E |-> over[k + i]] = [i \in E |-> table[k + i].decision.overstock]
    BY <1>3
  <2> HIDE DEF cost, under, over
  <2> QED
    BY <2>2, <2>3, <2>4
<1>10. SimulationSummary(table).policies = [p \in {"ml", "baseline"} |-> PolicySummary(table, p)]
  BY <1>6 DEF SimulationSummary
<1>11. /\ PolicySummary(table, "ml") =
            [count |-> k, total |-> SumOf([i \in E |-> table[i].decision.cost]),
             understock |-> SumOf([i \in E |-> table[i].decision.understock]),
             overstock |-> SumOf([i \in E |-> table[i].decision.overstock])]
  BY <1>5, <1>7 DEF PolicySummary
<1>12. PolicySummary(table, "baseline") =
            [count |-> k, total |-> SumOf([i \in D |-> table[i].decision.cost]),
             understock |-> SumOf([i \in D |-> table[i].decision.understock]),
             overstock |-> SumOf([i \in D |-> table[i].decision.overstock])]
  BY <1>5, <1>7 DEF PolicySummary
<1> QED
  BY <1>2, <1>9, <1>10, <1>11, <1>12 DEF E

\* The savings in the report can be trusted (report_simulation_summary.sql, data.py,
\* replay.py): two policies with the same number of decisions, the very figures simulate
\* computed, in favour of a policy that was closer to the demand in every decision, and
\* in nobody's favour when a cost is no number.
THEOREM SavingsShownThm == SummarySpec => []SavingsShown
<1>1. ASSUME SummaryInv PROVE SavingsShown
  <2> SUFFICES ASSUME NEW s \in summary, NEW sim \in s.simulation, NEW table \in results
               PROVE  LET policies == sim.policies  n == Len(table) \div 2
                      IN  /\ DOMAIN policies = {"ml", "baseline"}
                          /\ policies["ml"].count = n /\ policies["baseline"].count = n
                          /\ (\A i \in 1..n :
                                 /\ table[n + i].decision.order # NaN
                                 /\ Between(table[i].demand, table[i].decision.order,
                                            table[n + i].decision.order)) => sim.verdict = "less"
                          /\ sim.verdict = "less" =>
                                NaN \notin {policies[p].total : p \in DOMAIN policies}
                          /\ table # OldResults =>
                                \A m \in metrics : \A p \in DOMAIN policies :
                                    m[p] = [total |-> policies[p].total,
                                            understock |-> policies[p].understock,
                                            overstock |-> policies[p].overstock]
    BY DEF SavingsShown
  <2>1. sim = SimulationSummary(table)
    BY <1>1 DEF SummaryInv, ReportInv, TablesInv
  <2>2. PICK k, e : PairedTable(table, k, e)
    BY <1>1, ResultsArePaired
  <2> DEFINE policies == sim.policies
             mlCosts == [i \in 1..k |-> table[i].decision.cost]
             baselineCosts == [i \in 1..k |-> table[k + i].decision.cost]
  <2>3. /\ k = Len(table) \div 2 /\ DOMAIN policies = {"ml", "baseline"}
        /\ policies["ml"].count = k /\ policies["baseline"].count = k
        /\ policies["ml"].total = SumOf(mlCosts)
        /\ policies["ml"].understock = SumOf([i \in 1..k |-> table[i].decision.understock])
        /\ policies["ml"].overstock = SumOf([i \in 1..k |-> table[i].decision.overstock])
        /\ policies["baseline"].total = SumOf(baselineCosts)
        /\ policies["baseline"].understock = SumOf([i \in 1..k |-> table[k + i].decision.understock])
        /\ policies["baseline"].overstock = SumOf([i \in 1..k |-> table[k + i].decision.overstock])
    <3>1. policies = SimulationSummary(table).policies
      BY <2>1
    <3> HIDE DEF policies
    <3>2. /\ k = Len(table) \div 2 /\ DOMAIN policies = {"ml", "baseline"}
          /\ policies["ml"] =
               [count |-> k, total |-> SumOf(mlCosts),
                understock |-> SumOf([i \in 1..k |-> table[i].decision.understock]),
                overstock |-> SumOf([i \in 1..k |-> table[i].decision.overstock])]
          /\ policies["baseline"] =
               [count |-> k, total |-> SumOf(baselineCosts),
                understock |-> SumOf([i \in 1..k |-> table[k + i].decision.understock]),
                overstock |-> SumOf([i \in 1..k |-> table[k + i].decision.overstock])]
      BY <2>2, <3>1, PairedSummary, Zenon
    <3> QED
      BY <3>2
  <2>4. sim.verdict = IF Savings(policies) # NaN /\ Savings(policies) >= 0 THEN "less" ELSE "more"
    BY <2>1 DEF SimulationSummary
  <2>5. Savings(policies) =
          IF NaN \in {policies["ml"].total, policies["baseline"].total}
            THEN NaN ELSE policies["baseline"].total - policies["ml"].total
    BY DEF Savings
  <2> HIDE DEF policies
  <2>6. ASSUME sim.verdict = "less" PROVE NaN \notin {policies[p].total : p \in DOMAIN policies}
    <3>1. Savings(policies) # NaN
      BY <2>4, <2>6
    <3>2. NaN \notin {policies["ml"].total, policies["baseline"].total}
      BY <2>5, <3>1
    <3>3. {policies[p].total : p \in {"ml", "baseline"}}
            = {policies["ml"].total, policies["baseline"].total}
      OBVIOUS
    <3> QED
      BY <2>3, <3>2, <3>3
  <2>7. ASSUME \A i \in 1..k :
                  /\ table[k + i].decision.order # NaN
                  /\ Between(table[i].demand, table[i].decision.order, table[k + i].decision.order)
        PROVE  sim.verdict = "less"
    <3>1. /\ k \in Nat \ {0} /\ Len(table) = k + k /\ DOMAIN table = 1..(k + k) /\ e \in Economies
          /\ \A i \in 1..(k + k) : table[i] \in ResultRows
          /\ \A i \in 1..k : Paired(e, table[i], table[k + i])
      BY <2>2, ForecastAssumption DEF PairedTable
    <3>2. ASSUME NEW i \in 1..k
          PROVE  /\ mlCosts[i] \in Int /\ baselineCosts[i] \in Int
                 /\ mlCosts[i] <= baselineCosts[i]
      <4>1. table[i] \in ResultRows /\ table[k + i] \in ResultRows
        <5>1. i \in 1..(k + k) /\ k + i \in 1..(k + k)
          BY <3>1
        <5> QED
          BY <3>1, <5>1
      <4>2. /\ table[i].decision.cost \in Nat /\ table[k + i].decision.cost \in Nat
            /\ table[i].decision.cost <= table[k + i].decision.cost
        BY <2>7, <3>1, <4>1, PairCosts
      <4> QED
        BY <4>2
    <3>3. IsFiniteSet(1..k)
      <4>1. 1 \in Int /\ k \in Int
        BY <3>1
      <4> QED
        BY <4>1, FS_Interval, Zenon
    <3>4. DOMAIN mlCosts = 1..k /\ DOMAIN baselineCosts = 1..k
      OBVIOUS
    <3> HIDE DEF mlCosts, baselineCosts
    <3>5. /\ policies["ml"].total = SumFunctionOnSet(mlCosts, 1..k)
          /\ policies["baseline"].total = SumFunctionOnSet(baselineCosts, 1..k)
      BY <2>3, <3>2, <3>4, SumOfInts
    <3>6. SumFunctionOnSet(mlCosts, 1..k) <= SumFunctionOnSet(baselineCosts, 1..k)
      BY <3>2, <3>3, SumMono
    <3>7. /\ SumFunctionOnSet(mlCosts, 1..k) \in Int
          /\ SumFunctionOnSet(baselineCosts, 1..k) \in Int
      BY <3>2, <3>3, SumRecursion
    <3>8. policies["ml"].total # NaN /\ policies["baseline"].total # NaN
      BY <3>5, <3>7, GradingAssumption
    <3>9. Savings(policies) \in Int /\ Savings(policies) >= 0
      BY <2>5, <3>5, <3>6, <3>7, <3>8
    <3> QED
      BY <2>4, <3>9, GradingAssumption
  <2>8. ASSUME table # OldResults, NEW m \in metrics, NEW p \in {"ml", "baseline"}
        PROVE  m[p] = [total |-> policies[p].total, understock |-> policies[p].understock,
                       overstock |-> policies[p].overstock]
    <3>1. /\ table = ResultsOf("ml") \o ResultsOf("baseline") /\ graded # << >> /\ GradingInv
          /\ m = [ml |-> Metrics("ml"), baseline |-> Metrics("baseline")]
      BY <1>1, <2>8 DEF SummaryInv, TablesInv, GradingPart, LoopInv
    <3> DEFINE n == Len(graded)
    <3>2. /\ PairedTable(table, n, economics)
          /\ \A i \in 1..n : /\ table[i].decision = graded[i]["ml"]
                             /\ table[n + i].decision = graded[i]["baseline"]
      BY <3>1, ResultsOfPaired
    <3>3. n = k /\ DOMAIN graded = 1..k
      <4>1. n \in Nat /\ k \in Nat /\ Len(table) = n + n /\ Len(table) = k + k
        BY <2>2, <3>2 DEF PairedTable
      <4>2. DOMAIN graded = 1..n
        BY <3>1 DEF GradingInv
      <4> HIDE DEF n
      <4>3. n = k
        BY <4>1
      <4> QED
        BY <4>2, <4>3
    <3>4. \A amount :
            /\ [i \in 1..k |-> table[i].decision[amount]]
                 = [i \in DOMAIN graded |-> graded[i]["ml"][amount]]
            /\ [i \in 1..k |-> table[k + i].decision[amount]]
                 = [i \in DOMAIN graded |-> graded[i]["baseline"][amount]]
      BY <3>2, <3>3
    <3>5. /\ Metrics("ml").total = policies["ml"].total
          /\ Metrics("ml").understock = policies["ml"].understock
          /\ Metrics("ml").overstock = policies["ml"].overstock
      BY <2>3, <3>4 DEF Metrics, Total
    <3>6. /\ Metrics("baseline").total = policies["baseline"].total
          /\ Metrics("baseline").understock = policies["baseline"].understock
          /\ Metrics("baseline").overstock = policies["baseline"].overstock
      BY <2>3, <3>4 DEF Metrics, Total
    <3> QED
      BY <3>1, <3>5, <3>6 DEF Metrics
  <2> QED
    BY <2>3, <2>6, <2>7, <2>8 DEF policies
<1> QED
  BY <1>1, SummaryInductive, PTL


--------------------------------------------------------------------------------
(****************************************************************************)
(* The accuracy table of the report.                                        *)
(****************************************************************************)

\* The metrics a run has: with one of them all that precede it, each with the value the
\* scored rows give it.
LEMMA LoggedMetrics ==
    ASSUME SummaryInv, NEW logged \in run
    PROVE  /\ rows \in Seq(ScoredRows) /\ Listed(logged) \subseteq Quantiles
           /\ Quantiles \subseteq 1..(Parts * Whole) /\ Median \in Quantiles
           /\ \A q \in Listed(logged) : /\ <<q, 4>> \in DOMAIN logged
                                        /\ \A i \in 1..3 : <<0, i>> \in DOMAIN logged
           /\ \A q \in Listed(logged), p \in Quantiles :
                 p < q => /\ p \in Listed(logged)
                          /\ <<p, 4>> \in DOMAIN logged /\ <<p, 5>> \in DOMAIN logged
           /\ \A q \in Quantiles :
                 /\ <<q, 4>> \in DOMAIN logged => logged[<<q, 4>>] = PinballLoss(q)
                 /\ <<q, 5>> \in DOMAIN logged => logged[<<q, 5>>] = Coverage(q)
           /\ <<0, 2>> \in DOMAIN logged => <<0, 1>> \in DOMAIN logged
           /\ <<0, 1>> \in DOMAIN logged => logged[<<0, 1>>] = Wape
           /\ <<0, 2>> \in DOMAIN logged => logged[<<0, 2>>] = Bias
<1>1. /\ command = "train" /\ rows \in Seq(ScoredRows) /\ economics \in CostConfigs
      /\ DOMAIN logged \subseteq MetricKeys
      /\ \A key \in DOMAIN logged, other \in MetricKeys :
            Precedes(other, key) => other \in DOMAIN logged
      /\ \A key \in DOMAIN logged : logged[key] = MetricValue(key)
  BY DEF SummaryInv, RunInv, RowsInv, GradingPart, GradingInv
<1>2. Quantiles \subseteq 1..(Parts * Whole) /\ Median \in Quantiles
  BY <1>1, QuantilesType
<1>3. \A q \in Quantiles : q \in Int /\ q > 0
  <2>1. Parts * Whole \in Nat
    BY <1>1, LevelsType
  <2> HIDE DEF Whole
  <2> QED
    BY <1>2, <2>1
<1>4. /\ \A i \in 1..3 : <<0, i>> \in MetricKeys
      /\ \A q \in Quantiles : <<q, 4>> \in MetricKeys /\ <<q, 5>> \in MetricKeys
      /\ \A key \in MetricKeys : key[1] # 0 => /\ key[1] \in Quantiles
                                              /\ key \in {<<key[1], 4>>, <<key[1], 5>>}
  <2>1. \A i \in 4..5 : i = 4 \/ i = 5
    OBVIOUS
  <2>2. 4 \in 4..5 /\ 5 \in 4..5
    OBVIOUS
  <2>3. \A q \in Quantiles : <<q, 4>> \in MetricKeys /\ <<q, 5>> \in MetricKeys
    BY <2>2 DEF MetricKeys
  <2>4. ASSUME NEW key \in MetricKeys, key[1] # 0
        PROVE  key[1] \in Quantiles /\ key \in {<<key[1], 4>>, <<key[1], 5>>}
    <3>1. \E q \in Quantiles, i \in 4..5 : key = <<q, i>>
      BY <2>4 DEF MetricKeys
    <3> QED
      BY <2>1, <3>1
  <2> QED
    BY <2>3, <2>4 DEF MetricKeys
<1>5. /\ \A q \in Quantiles : /\ Precedes(<<q, 4>>, <<q, 5>>)
                              /\ \A i \in 1..3 : Precedes(<<0, i>>, <<q, 4>>)
      /\ \A p, q \in Quantiles : p < q => /\ Precedes(<<p, 4>>, <<q, 4>>)
                                          /\ Precedes(<<p, 5>>, <<q, 4>>)
      /\ Precedes(<<0, 1>>, <<0, 2>>)
  BY <1>3 DEF Precedes
<1>6. /\ \A q : MetricValue(<<q, 4>>) = PinballLoss(q)
      /\ \A q : MetricValue(<<q, 5>>) = Coverage(q)
      /\ MetricValue(<<0, 1>>) = Wape /\ MetricValue(<<0, 2>>) = Bias
  <2>1. /\ MetricOrder[1] = "wape" /\ MetricOrder[2] = "bias"
        /\ MetricOrder[4] = "pinball" /\ MetricOrder[5] = "coverage"
    BY DEF MetricOrder
  <2>2. \A q : <<q, 4>>[1] = q /\ <<q, 4>>[2] = 4 /\ <<q, 5>>[1] = q /\ <<q, 5>>[2] = 5
    OBVIOUS
  <2>3. <<0, 1>>[2] = 1 /\ <<0, 2>>[2] = 2
    OBVIOUS
  <2> QED
    BY <2>1, <2>2, <2>3 DEF MetricValue
<1>7. ASSUME NEW q \in Listed(logged) PROVE q \in Quantiles /\ <<q, 4>> \in DOMAIN logged
  <2>1. PICK key \in DOMAIN logged : q = key[1] /\ q # 0
    BY DEF Listed
  <2>2. q \in Quantiles /\ key \in {<<q, 4>>, <<q, 5>>}
    BY <1>1, <1>4, <2>1
  <2>3. <<q, 5>> \in DOMAIN logged => <<q, 4>> \in DOMAIN logged
    BY <1>1, <1>4, <1>5, <2>2
  <2> QED
    BY <2>1, <2>2, <2>3
<1>8. ASSUME NEW p, p # 0, <<p, 4>> \in DOMAIN logged PROVE p \in Listed(logged)
  BY <1>8 DEF Listed
<1>9. ASSUME NEW q \in Listed(logged), NEW p \in Quantiles, p < q
      PROVE  /\ p \in Listed(logged)
             /\ <<p, 4>> \in DOMAIN logged /\ <<p, 5>> \in DOMAIN logged
  <2>1. <<p, 4>> \in DOMAIN logged /\ <<p, 5>> \in DOMAIN logged
    BY <1>1, <1>4, <1>5, <1>7, <1>9
  <2> QED
    BY <1>3, <1>8, <2>1
<1>10. \A q \in Listed(logged) : \A i \in 1..3 : <<0, i>> \in DOMAIN logged
  BY <1>1, <1>4, <1>5, <1>7
<1>11. <<0, 2>> \in DOMAIN logged => <<0, 1>> \in DOMAIN logged
  BY <1>1, <1>4, <1>5
<1> QED
  BY <1>1, <1>2, <1>6, <1>7, <1>9, <1>10, <1>11

\* What a sum over the scored rows is.
LEMMA ScoredTerms ==
    ASSUME rows \in Seq(ScoredRows), Median \in Quantiles
    PROVE  /\ IsFiniteSet(DOMAIN rows)
           /\ \A i \in DOMAIN rows :
                 /\ rows[i].demand \in Int
                 /\ rows[i].predicted[Median] \in Int
                 /\ \A q \in Quantiles : rows[i].predicted[q] \in Int
                 /\ \A p, q \in Quantiles :
                       p <= q => rows[i].predicted[p] <= rows[i].predicted[q]
<1>1. DOMAIN rows = 1..Len(rows) /\ Len(rows) \in Nat
  OBVIOUS
<1>2. IsFiniteSet(DOMAIN rows)
  <2>1. 1 \in Int /\ Len(rows) \in Int
    BY <1>1
  <2>2. IsFiniteSet(1..Len(rows))
    BY <2>1, FS_Interval, Zenon
  <2> QED
    BY <1>1, <2>2
<1>3. ASSUME NEW i \in DOMAIN rows
      PROVE  /\ rows[i].demand \in Int
             /\ \A q \in Quantiles : rows[i].predicted[q] \in Int
             /\ \A p, q \in Quantiles : p <= q => rows[i].predicted[p] <= rows[i].predicted[q]
  <2>1. rows[i] \in ScoredRows
    BY <1>1
  <2>2. /\ rows[i].demand \in Demands /\ rows[i].predicted \in [Quantiles -> Int]
        /\ \A p, q \in Quantiles : p <= q => rows[i].predicted[p] <= rows[i].predicted[q]
    BY <2>1 DEF ScoredRows
  <2>3. rows[i].demand \in Int
    <3>1. \A d \in Demands : d \in Int
      BY GradingAssumption
    <3> QED
      BY <2>2, <3>1
  <2>4. \A q \in Quantiles : rows[i].predicted[q] \in Int
    BY <2>2
  <2> QED
    BY <2>2, <2>3, <2>4
<1> QED
  BY <1>2, <1>3

\* A higher quantile covers no fewer rows.
LEMMA CoverageGrows ==
    ASSUME rows \in Seq(ScoredRows), Median \in Quantiles,
           NEW p \in Quantiles, NEW q \in Quantiles, p \in Int, q \in Int, p < q
    PROVE  Coverage(p) <= Coverage(q)
<1> DEFINE D == DOMAIN rows
           covered(k) == [i \in D |-> IF rows[i].demand <= rows[i].predicted[k] THEN 1 ELSE 0]
<1>1. /\ IsFiniteSet(D)
      /\ \A i \in D : /\ rows[i].demand \in Int
                      /\ rows[i].predicted[p] \in Int /\ rows[i].predicted[q] \in Int
                      /\ rows[i].predicted[p] <= rows[i].predicted[q]
  BY ScoredTerms
<1>2. /\ Coverage(p) = SumFunctionOnSet(covered(p), D)
      /\ Coverage(q) = SumFunctionOnSet(covered(q), D)
  BY DEF Coverage, OverRows, SumFunction
<1>3. \A i \in D : /\ covered(p)[i] \in Int /\ covered(q)[i] \in Int
                   /\ covered(p)[i] <= covered(q)[i]
  BY <1>1
<1> HIDE DEF D, covered
<1>4. SumFunctionOnSet(covered(p), D) <= SumFunctionOnSet(covered(q), D)
  BY <1>1, <1>3, SumMono
<1> QED
  BY <1>2, <1>4

\* Coverage is a number.
LEMMA CoverageIsNumber ==
    ASSUME rows \in Seq(ScoredRows), Median \in Quantiles, NEW q \in Quantiles
    PROVE  Coverage(q) \in Int
<1> DEFINE D == DOMAIN rows
           covered == [i \in D |-> IF rows[i].demand <= rows[i].predicted[q] THEN 1 ELSE 0]
<1>1. IsFiniteSet(D)
  BY ScoredTerms
<1>2. Coverage(q) = SumFunctionOnSet(covered, D)
  BY DEF Coverage, OverRows, SumFunction
<1>3. \A i \in D : covered[i] \in Int
  OBVIOUS
<1> HIDE DEF D, covered
<1> QED
  BY <1>1, <1>2, <1>3, SumRecursion

\* The loss of the median is half the distance, on the grid of the quantiles.
LEMMA MedianLoss ==
    ASSUME NEW m \in Nat, NEW w \in Int, w = 2 * m, NEW d \in Int, NEW x \in Int
    PROVE  Pinball(<<m, w>>, d, x) = m * Distance(d, x)
<1> DEFINE diff == d - x
           low == (m - w) * diff
<1>1. diff \in Int /\ (m - w) = -m
  OBVIOUS
<1>2. Pinball(<<m, w>>, d, x) = IF m * diff >= low THEN m * diff ELSE low
  BY DEF Pinball
<1>3. low = -(m * diff) /\ m * diff \in Int
  BY <1>1
<1>4. Distance(d, x) = IF diff >= 0 THEN diff ELSE -diff
  BY DEF Distance
<1> HIDE DEF diff, low
<1>5. CASE diff >= 0
  <2>1. m * diff >= 0
    BY <1>1, <1>5
  <2> QED
    BY <1>2, <1>3, <1>4, <1>5, <2>1
<1>6. CASE diff < 0
  <2>1. m * (-diff) >= 0 /\ m * (-diff) = -(m * diff)
    BY <1>1, <1>6
  <2>2. Pinball(<<m, w>>, d, x) = -(m * diff)
    BY <1>2, <1>3, <2>1
  <2> QED
    BY <1>1, <1>4, <1>6, <2>1, <2>2
<1> QED
  BY <1>1, <1>5, <1>6

\* The pinball losses are numbers.
LEMMA LossIsNumber ==
    ASSUME rows \in Seq(ScoredRows), Median \in Quantiles, NEW q \in Quantiles, q \in Int,
           Parts * Whole \in Int
    PROVE  PinballLoss(q) \in Int
<1> DEFINE D == DOMAIN rows
           loss == [i \in D |-> Pinball(<<q, Parts * Whole>>, rows[i].demand, rows[i].predicted[q])]
<1>1. /\ IsFiniteSet(D)
      /\ \A i \in D : rows[i].demand \in Int /\ rows[i].predicted[q] \in Int
  BY ScoredTerms
<1>2. PinballLoss(q) = SumFunctionOnSet(loss, D)
  BY DEF PinballLoss, OverRows, SumFunction
<1>3. \A m, d, x \in Int : Pinball(<<q, m>>, d, x) \in Int
  BY DEF Pinball
<1>4. \A i \in D : loss[i] \in Int
  BY <1>1, <1>3
<1> HIDE DEF D, loss
<1> QED
  BY <1>1, <1>2, <1>4, SumRecursion

\* The P50 loss is the WAPE in another unit.
LEMMA MedianLossIsWape ==
    ASSUME rows \in Seq(ScoredRows), Median \in Quantiles, Median \in Nat, Parts * Whole \in Int,
           2 * Median = Parts * Whole, Wape # NaN
    PROVE  2 * PinballLoss(Median) = Parts * Whole * Wape[1]
<1> DEFINE D == DOMAIN rows
           loss == [i \in D |->
                      Pinball(<<Median, Parts * Whole>>, rows[i].demand, rows[i].predicted[Median])]
           distance == [i \in D |-> Distance(rows[i].demand, rows[i].predicted[Median])]
<1>1. /\ IsFiniteSet(D)
      /\ \A i \in D : rows[i].demand \in Int /\ rows[i].predicted[Median] \in Int
  BY ScoredTerms
<1>2. PinballLoss(Median) = SumFunctionOnSet(loss, D)
  BY DEF PinballLoss, OverRows, SumFunction
<1>3. Wape[1] = SumFunctionOnSet(distance, D)
  BY DEF Wape, OverRows, SumFunction
<1> HIDE DEF Wape, PinballLoss, Median, Whole
<1>4. ASSUME NEW i \in D
      PROVE  /\ distance[i] \in Int
             /\ loss[i] = Median * distance[i] + 0 * distance[i]
  <2>1. loss[i] = Median * Distance(rows[i].demand, rows[i].predicted[Median])
    BY <1>1, MedianLoss
  <2>2. Distance(rows[i].demand, rows[i].predicted[Median]) \in Int
    BY <1>1 DEF Distance
  <2> QED
    BY <2>1, <2>2
<1> HIDE DEF D, loss, distance
<1>5. SumFunctionOnSet(loss, D)
        = Median * SumFunctionOnSet(distance, D) + 0 * SumFunctionOnSet(distance, D)
  BY <1>1, <1>4, SumLinear
<1>6. SumFunctionOnSet(distance, D) \in Int
  BY <1>1, <1>4, SumRecursion
<1>7. \A s \in Int : 2 * (Median * s + 0 * s) = (2 * Median) * s
  OBVIOUS
<1> QED
  BY <1>2, <1>3, <1>5, <1>6, <1>7

\* The bias is at most the WAPE.
LEMMA BiasBelowWape ==
    ASSUME rows \in Seq(ScoredRows), Median \in Quantiles, Wape # NaN
    PROVE  Distance(Bias, 0) <= Wape[1]
<1> DEFINE D == DOMAIN rows
           over == [i \in D |-> rows[i].predicted[Median] - rows[i].demand]
           under == [i \in D |-> rows[i].demand - rows[i].predicted[Median]]
           distance == [i \in D |-> Distance(rows[i].demand, rows[i].predicted[Median])]
<1>1. /\ IsFiniteSet(D)
      /\ \A i \in D : rows[i].demand \in Int /\ rows[i].predicted[Median] \in Int
  BY ScoredTerms
<1>2. Bias = SumFunctionOnSet(over, D)
  BY DEF Bias, OverRows, SumFunction
<1>3. Wape[1] = SumFunctionOnSet(distance, D)
  BY DEF Wape, OverRows, SumFunction
<1> HIDE DEF Wape, Bias, Median
<1>4. \A i \in D : /\ over[i] \in Int /\ under[i] \in Int /\ distance[i] \in Int
                   /\ over[i] <= distance[i] /\ under[i] <= distance[i]
                   /\ under[i] = (-1) * over[i] + 0 * over[i]
  BY <1>1 DEF Distance
<1> HIDE DEF D, over, under, distance
<1>5. SumFunctionOnSet(over, D) <= SumFunctionOnSet(distance, D)
  BY <1>1, <1>4, SumMono
<1>6. SumFunctionOnSet(under, D) <= SumFunctionOnSet(distance, D)
  BY <1>1, <1>4, SumMono
<1>7. SumFunctionOnSet(under, D)
        = (-1) * SumFunctionOnSet(over, D) + 0 * SumFunctionOnSet(over, D)
  <2>1. -1 \in Int /\ 0 \in Int
    OBVIOUS
  <2> QED
    BY <1>1, <1>4, <2>1, SumLinear
<1>8. SumFunctionOnSet(over, D) \in Int /\ SumFunctionOnSet(distance, D) \in Int
  BY <1>1, <1>4, SumRecursion
<1> QED
  BY <1>2, <1>3, <1>5, <1>6, <1>7, <1>8 DEF Distance

\* The accuracy table tells one story (pipeline.py, metrics.py, data.py): whatever the
\* rows and however many metrics of the run there are, its quantiles are the first of
\* those trained, coverage grows with the quantile, and P50 loss, WAPE and bias agree.
THEOREM AccuracyShownThm == SummarySpec => []AccuracyShown
<1>1. ASSUME SummaryInv PROVE AccuracyShown
  <2> SUFFICES ASSUME NEW s \in summary, NEW shown \in s.accuracy
               PROVE  LET listed == DOMAIN shown.quantiles
                          coverage(q) == shown.quantiles[q].coverage
                      IN  /\ listed \subseteq Quantiles
                          /\ \A q \in listed : \A p \in Quantiles :
                                p < q => p \in listed
                                         /\ NaN \notin {coverage(p), shown.quantiles[p].pinball}
                          /\ \A p, q \in listed :
                                p < q /\ coverage(q) # NaN => coverage(p) <= coverage(q)
                          /\ Median \in listed /\ shown.wape # NaN =>
                                2 * shown.quantiles[Median].pinball = Parts * Whole * shown.wape[1]
                          /\ shown.bias # NotAvailable /\ shown.wape # NaN =>
                                Distance(shown.bias, 0) <= shown.wape[1]
    BY DEF AccuracyShown
  <2>1. PICK logged \in run : shown = AccuracySummary(logged)
    BY <1>1 DEF SummaryInv, ReportInv
  <2> DEFINE listed == Listed(logged)
             has(key) == key \in DOMAIN logged
  <2>2. /\ DOMAIN shown.quantiles = listed
        /\ \A q \in listed :
              /\ shown.quantiles[q].pinball = Value(logged, <<q, 4>>, NaN)
              /\ shown.quantiles[q].coverage = Value(logged, <<q, 5>>, NaN)
        /\ shown.wape = Value(logged, <<0, 1>>, NotAvailable)
        /\ shown.bias = Value(logged, <<0, 2>>, NotAvailable)
    BY <2>1 DEF AccuracySummary
  <2>3. /\ rows \in Seq(ScoredRows) /\ listed \subseteq Quantiles
        /\ Quantiles \subseteq 1..(Parts * Whole) /\ Median \in Quantiles
        /\ \A q \in listed : has(<<q, 4>>) /\ \A i \in 1..3 : has(<<0, i>>)
        /\ \A q \in listed, p \in Quantiles :
              p < q => p \in listed /\ has(<<p, 4>>) /\ has(<<p, 5>>)
        /\ \A q \in Quantiles :
              /\ has(<<q, 4>>) => logged[<<q, 4>>] = PinballLoss(q)
              /\ has(<<q, 5>>) => logged[<<q, 5>>] = Coverage(q)
        /\ has(<<0, 2>>) => has(<<0, 1>>)
        /\ has(<<0, 1>>) => logged[<<0, 1>>] = Wape
        /\ has(<<0, 2>>) => logged[<<0, 2>>] = Bias
    BY <1>1, LoggedMetrics
  <2>4. /\ Median \in Nat /\ Parts * Whole \in Int /\ 2 * Median = Parts * Whole
        /\ \A q \in Quantiles : q \in Int
    <3>1. economics \in CostConfigs
      BY <1>1 DEF SummaryInv, GradingPart, GradingInv
    <3>2. Parts * Whole \in Nat /\ 2 * Median = Parts * Whole /\ Median \in 1..(Parts * Whole)
      BY <3>1, LevelsType
    <3> HIDE DEF Median, Whole
    <3> QED
      BY <2>3, <3>2
  <2> HIDE DEF listed
  <2>5. ASSUME NEW q \in Quantiles PROVE Coverage(q) \in Int /\ PinballLoss(q) \in Int
    BY <2>3, <2>4, LossIsNumber, CoverageIsNumber
  <2>6. ASSUME NEW q \in listed, NEW p \in Quantiles, p < q
        PROVE  /\ p \in listed
               /\ shown.quantiles[p].coverage = Coverage(p)
               /\ NaN \notin {shown.quantiles[p].coverage, shown.quantiles[p].pinball}
    <3>1. p \in listed /\ has(<<p, 4>>) /\ has(<<p, 5>>)
      BY <2>3, <2>6
    <3>2. /\ shown.quantiles[p].coverage = Coverage(p)
          /\ shown.quantiles[p].pinball = PinballLoss(p)
      BY <2>2, <2>3, <3>1 DEF Value
    <3> QED
      BY <2>5, <3>1, <3>2, GradingAssumption
  <2>7. ASSUME NEW p \in listed, NEW q \in listed, p < q, shown.quantiles[q].coverage # NaN
        PROVE  shown.quantiles[p].coverage <= shown.quantiles[q].coverage
    <3>1. p \in Quantiles /\ q \in Quantiles /\ p \in Int /\ q \in Int
      BY <2>3, <2>4
    <3>2. shown.quantiles[p].coverage = Coverage(p)
      BY <2>6, <2>7, <3>1
    <3>3. has(<<q, 5>>)
      BY <2>2, <2>7 DEF Value
    <3>4. shown.quantiles[q].coverage = Coverage(q)
      BY <2>2, <2>3, <3>1, <3>3 DEF Value
    <3>5. Coverage(p) <= Coverage(q)
      BY <2>3, <2>7, <3>1, CoverageGrows
    <3> QED
      BY <3>2, <3>4, <3>5
  <2>8. ASSUME Median \in listed, shown.wape # NaN
        PROVE  2 * shown.quantiles[Median].pinball = Parts * Whole * shown.wape[1]
    <3>1. has(<<Median, 4>>) /\ has(<<0, 1>>)
      BY <2>3, <2>8
    <3>2. shown.quantiles[Median].pinball = PinballLoss(Median) /\ shown.wape = Wape
      BY <2>2, <2>3, <2>8, <3>1 DEF Value
    <3> QED
      BY <2>3, <2>4, <2>8, <3>2, MedianLossIsWape
  <2>9. ASSUME shown.bias # NotAvailable, shown.wape # NaN
        PROVE  Distance(shown.bias, 0) <= shown.wape[1]
    <3>1. has(<<0, 1>>) /\ has(<<0, 2>>)
      BY <2>2, <2>3, <2>9 DEF Value
    <3>2. shown.bias = Bias /\ shown.wape = Wape
      BY <2>2, <2>3, <3>1 DEF Value
    <3> QED
      BY <2>3, <2>9, <3>2, BiasBelowWape
  <2> QED
    BY <2>2, <2>3, <2>6, <2>7, <2>8, <2>9
<1> QED
  BY <1>1, SummaryInductive, PTL

--------------------------------------------------------------------------------
(****************************************************************************)
(* Types.                                                                   *)
(****************************************************************************)

\* Amounts add up to an amount.
LEMMA SumOfAmounts ==
    ASSUME NEW a, IsFiniteSet(DOMAIN a), \A i \in DOMAIN a : a[i] \in Amounts
    PROVE  SumOf(a) \in Amounts
<1>1. ASSUME ~\E i \in DOMAIN a : a[i] = NaN PROVE SumFunctionOnSet(a, DOMAIN a) \in Nat
  <2>1. \A i \in DOMAIN a : a[i] \in Nat
    BY <1>1 DEF Amounts
  <2> QED
    BY <2>1, SumNat
<1> QED
  BY <1>1 DEF SumOf, SumFunction, Amounts

\* What simulate computes are amounts.
LEMMA MetricsType ==
    ASSUME graded \in Seq(Rows), NEW policy \in {"ml", "baseline"}
    PROVE  Metrics(policy) \in Totals
<1>1. IsFiniteSet(DOMAIN graded) /\ \A i \in DOMAIN graded : graded[i] \in Rows
  BY TableIndices
<1>2. \A i \in DOMAIN graded : /\ graded[i][policy].cost \in Amounts
                               /\ graded[i][policy].understock \in Amounts
                               /\ graded[i][policy].overstock \in Amounts
  BY <1>1 DEF Rows, Decisions
<1>3. ASSUME NEW amount \in {"cost", "understock", "overstock"}
      PROVE  Total(policy, amount) \in Amounts
  <2> DEFINE a == [i \in DOMAIN graded |-> graded[i][policy][amount]]
  <2>1. DOMAIN a = DOMAIN graded /\ \A i \in DOMAIN a : a[i] \in Amounts
    BY <1>2
  <2> HIDE DEF a
  <2>2. SumOf(a) \in Amounts
    BY <1>1, <2>1, SumOfAmounts
  <2> QED
    BY <2>2 DEF Total, a
<1> QED
  BY <1>3 DEF Metrics, Totals

\* The rows of one command, what it forecasts and what it adds up are what they look
\* like, the tables it finds or leaves are of one run each, and a run has only the
\* metrics train logs.
THEOREM SummaryTypeCorrect == SummarySpec => []SummaryTypeOK
<1>1. ASSUME SummaryInv PROVE SummaryTypeOK
  <2>1. GradingInv /\ SettingsInv /\ ForecastInv /\ LoopInv /\ RowsInv /\ TablesInv /\ RunInv
        /\ ReportInv
    BY <1>1 DEF SummaryInv, GradingPart
  <2>2. ForecastTypeOK
    <3>1. economics \in CostConfigs /\ command \in {"train", "recommend", "simulate"}
          /\ DOMAIN raw \subseteq Quantiles /\ \A q \in DOMAIN raw : raw[q] \in Predictions
      BY <2>1 DEF GradingInv, ForecastInv
    <3>2. /\ DOMAIN predictions \in {{}, Quantiles}
          /\ \A q \in DOMAIN predictions : predictions[q] \in Predictions
      <4>1. CASE predictions = << >>
        <5>1. DOMAIN predictions = {}
          BY <4>1
        <5> QED
          BY <5>1
      <4>2. CASE predictions # << >>
        BY <2>1, <4>2, RawIsForecast
      <4> QED
        BY <4>1, <4>2
    <3>3. \A d \in decision : {d.order, d.median} \subseteq Predictions /\ d.safety \in Int
      BY <2>1, DecisionIs
    <3> QED
      BY <3>1, <3>2, <3>3 DEF ForecastTypeOK
  <2>3. graded \in Seq(Rows)
    BY <2>1 DEF GradingInv, WellGraded
  <2>4. metrics \subseteq [ml : Totals, baseline : Totals]
    <3>1. Metrics("ml") \in Totals /\ Metrics("baseline") \in Totals
      BY <2>3, MetricsType
    <3>2. metrics \in {{}, {[ml |-> Metrics("ml"), baseline |-> Metrics("baseline")]}}
      BY <2>1 DEF LoopInv
    <3> QED
      BY <3>1, <3>2
  <2>5. TypeOK
    BY <2>1, <2>2, <2>3, <2>4 DEF TypeOK, SettingsInv
  <2>6. Len(rows) <= MaxRows /\ \A i \in DOMAIN rows : rows[i].demand \in Demands
    <3>1. CASE command = "train"
      <4>1. \A i \in DOMAIN rows : rows[i] \in ScoredRows
        BY <2>1, <3>1 DEF RowsInv
      <4> QED
        BY <2>1, <4>1 DEF RowsInv, ScoredRows
    <3>2. CASE command = "recommend"
      <4>1. \A i \in DOMAIN rows : rows[i] \in RowsOfThisRun
        BY <2>1, <3>2 DEF RowsInv
      <4> QED
        BY <2>1, <4>1 DEF RowsInv, RowsOfThisRun
    <3>3. CASE command = "simulate"
      <4>1. rows = << >> /\ DOMAIN rows = {}
        BY <2>1, <3>3 DEF RowsInv
      <4> QED
        BY <2>1, <4>1 DEF RowsInv
    <3> QED
      BY <2>1, <3>1, <3>2, <3>3 DEF ForecastInv
  <2>7. ASSUME NEW table \in recommendations
        PROVE  /\ Len(table) > 0
               /\ \A i \in DOMAIN table : table[i].of \in {ThisRun, OldRows[1].of}
    <3>1. OneRunTable(table)
      BY <2>1, TablesAreOfOneRun
    <3>2. Len(table) > 0 /\ 1 \in DOMAIN table
      BY <3>1 DEF OneRunTable
    <3>3. CASE table = OldRows
      BY <3>1, <3>2, <3>3 DEF OneRunTable, OfOneRun
    <3>4. CASE table \in Seq(RowsOfThisRun)
      <4>1. \A i \in DOMAIN table : table[i] \in RowsOfThisRun
        BY <3>4
      <4> QED
        BY <3>2, <4>1 DEF RowsOfThisRun
    <3> QED
      BY <2>1, <3>3, <3>4 DEF TablesInv
  <2>8. ASSUME NEW table \in results, NEW i \in DOMAIN table
        PROVE  table[i].decision \in Decisions
    <3>1. table \in Seq(ResultRows)
      BY <1>1, ResultsArePaired DEF PairedTable
    <3>2. table[i] \in ResultRows
      BY <3>1
    <3> QED
      BY <3>2 DEF ResultRows
  <2>9. \A logged \in run : DOMAIN logged \subseteq MetricKeys
    BY <2>1 DEF RunInv
  <2>10. ASSUME NEW S, \A x, y \in S : x = y PROVE Cardinality(S) <= 1
    <3>1. CASE S = {}
      BY <3>1, FS_EmptySet
    <3>2. ASSUME NEW x \in S PROVE Cardinality(S) <= 1
      <4>1. S = {x}
        BY <2>10
      <4> QED
        BY <4>1, FS_Singleton
    <3> QED
      BY <3>1, <3>2
  <2>11. Cardinality(run) <= 1 /\ Cardinality(summary) <= 1
    BY <2>1, <2>10 DEF RunInv, ReportInv
  <2> QED
    BY <2>5, <2>6, <2>7, <2>8, <2>9, <2>11 DEF SummaryTypeOK
<1> QED
  BY <1>1, SummaryInductive, PTL

\* What the tables are assumed to hold when a behaviour starts is what a behaviour
\* leaves in them: the recommendations of one run whose safety stocks have the sign of
\* their fractile, the decisions of a replay in pairs.
TablesAsAssumed ==
    /\ \A table \in recommendations :
          /\ table \in Seq(Recommended) /\ table # << >> /\ OfOneRun(table)
          /\ \A i \in DOMAIN table : SafetySign(table[i])
    /\ \A table \in results : table \in Seq(ResultRows) /\ LeftBySimulate(table)

\* So the assumption about the tables of earlier runs (TablesAssumption) is met after
\* every run there is: recommend and simulate replace their table whole
\* (recommender.py:222-224, replay.py:319-322).
THEOREM TablesReproduced == SummarySpec => []TablesAsAssumed
<1>1. ASSUME SummaryInv, NEW table \in recommendations
      PROVE  /\ table \in Seq(Recommended) /\ table # << >> /\ OfOneRun(table)
             /\ \A i \in DOMAIN table : SafetySign(table[i])
  BY <1>1, TablesAreOfOneRun DEF SummaryInv, OneRunTable
<1>2. ASSUME SummaryInv, NEW table \in results
      PROVE  table \in Seq(ResultRows) /\ LeftBySimulate(table)
  <2>1. PICK k, e : PairedTable(table, k, e)
    BY <1>2, ResultsArePaired
  <2>2. /\ table \in Seq(ResultRows) /\ Len(table) = k + k /\ k \in 1..Len(table)
        /\ e \in CostConfigs /\ \A i \in 1..k : Paired(e, table[i], table[k + i])
    BY <2>1 DEF PairedTable
  <2> QED
    BY <2>2 DEF LeftBySimulate
<1>3. SummaryInv => TablesAsAssumed
  BY <1>1, <1>2 DEF TablesAsAssumed
<1> QED
  BY <1>3, SummaryInductive, PTL
================================================================================
