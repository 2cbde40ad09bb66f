---------------------------- MODULE ExecutiveSummary ----------------------------
(****************************************************************************)
(* From the rows of a command to the figures of the executive report: train *)
(* scores its test rows and logs the metrics one call at a time             *)
(* (forecasting/pipeline.py), recommend and simulate replace their table    *)
(* with the rows they decided, and report aggregates what it finds          *)
(* (reporting/data.py and the three sql/report_*.sql) without computing     *)
(* anything anew.  The tables may hold what an earlier run left; what else  *)
(* can change them meanwhile is the matter of Pipeline.                     *)
(*                                                                          *)
(* Sums stand for the averages of the code: the denominator, the number of  *)
(* rows, is the same wherever two of them are compared.                     *)
(****************************************************************************)
EXTENDS PolicyGrading

CONSTANTS
    ThisRun,      \* snapshot, lead time and origin of the rows recommend writes
    OldRows,      \* the recommendations an earlier run left
    OldResults,   \* the simulation results an earlier run left
    NotAvailable, \* a metric the run does not have
    Cap           \* how many misses the report lists (20 in the code)

\* A row of the recommendations: the run it belongs to, its fractile, its outcome.
RunOf == [snapshot : Nat, lead : Int, origin : Int]
Recommended == [of : RunOf, fractile : Int \X Int, order : Int, safety : Int, demand : Int]

OfOneRun(table) ==
    \A i, j \in DOMAIN table :
        table[i].of = table[j].of /\ table[i].fractile = table[j].fractile

\* The safety stock of a row has the sign of its fractile, counted from a half.
SafetySign(row) ==
    /\ row.safety > 0 => 2 * row.fractile[1] > row.fractile[2]
    /\ row.safety < 0 => 2 * row.fractile[1] < row.fractile[2]

\* A row of simulation_results: one decision of one policy.
ResultRows == [policy : {"ml", "baseline"}, demand : Demands, decision : Decisions]

\* The two decisions of a reviewed row: one demand, one price, one cost file.
Paired(e, ml, baseline) ==
    /\ ml.policy = "ml" /\ baseline.policy = "baseline"
    /\ ml.demand = baseline.demand /\ ml.decision.order # NaN
    /\ \E price \in Prices : \A r \in {ml, baseline} :
          r.decision = Graded(e, r.decision.order, r.demand, price)

\* What simulate leaves: the decisions of the ML policy, then the baseline's.
LeftBySimulate(table) ==
    \E n \in 1..Len(table), e \in CostConfigs :
        /\ Len(table) = n + n
        /\ \A i \in 1..n : Paired(e, table[i], table[n + i])

ASSUME SummaryAssumption == Cap \in Nat \ {0}
ASSUME TablesAssumption ==
    /\ ThisRun \in RunOf
    /\ OldRows \in Seq(Recommended) /\ OldRows # << >> /\ OfOneRun(OldRows)
    /\ \A i \in DOMAIN OldRows : SafetySign(OldRows[i])
    /\ OldResults \in Seq(ResultRows) /\ LeftBySimulate(OldResults)

VARIABLES
    rows,             \* the rows train has scored or recommend has decided
    recommendations,  \* the table: {} when there is none, else {its rows}
    results,          \* simulation_results, likewise
    run,              \* the MLflow run of train: {} or {its metrics by key}
    summary           \* the report: {} or {its figures}

tableVars == <<recommendations, results>>
summaryVars == <<rows, tableVars, run, summary>>
allVars == <<vars, summaryVars>>

--------------------------------------------------------------------------------
(****************************************************************************)
(* train.                                                                   *)
(****************************************************************************)

\* Mutation: the models' own predictions scored instead of the rearranged ones.
ScoreRowRaw ==
    /\ command = "train" /\ predictions # << >>
    /\ \E demand \in Demands : rows' = Append(rows, [demand |-> demand, predicted |-> raw])
    /\ raw' = << >> /\ predictions' = << >>
    /\ UNCHANGED <<economics, command, decision, settingVars, graded, metrics,
                   tableVars, run, summary>>

ScoreRow ==
    /\ command = "train" /\ predictions # << >>
    /\ \E demand \in Demands :
          rows' = Append(rows, [demand |-> demand, predicted |-> predictions])
    /\ raw' = << >> /\ predictions' = << >>
    /\ UNCHANGED <<economics, command, decision, settingVars, graded, metrics,
                   tableVars, run, summary>>

OverRows(Op(_)) == SumFunction([i \in DOMAIN rows |-> Op(rows[i])])
Distance(a, b) == IF a >= b THEN a - b ELSE b - a

Wape ==
    IF OverRows(LAMBDA r : r.demand) = 0
      THEN NaN
      ELSE <<OverRows(LAMBDA r : Distance(r.demand, r.predicted[Median])),
             OverRows(LAMBDA r : r.demand)>>

Bias == OverRows(LAMBDA r : r.predicted[Median] - r.demand)
SquaredError == OverRows(LAMBDA r : (r.demand - r.predicted[Median]) * (r.demand - r.predicted[Median]))

PinballLoss(q) == OverRows(LAMBDA r : Pinball(<<q, Parts * Whole>>, r.demand, r.predicted[q]))

Coverage(q) == OverRows(LAMBDA r : IF r.demand <= r.predicted[q] THEN 1 ELSE 0)

\* One metric per key.  In the tag of a quantile the point gives way to an
\* underscore and comes back when the report is made; str of a float has no
\* underscore of its own and reads back as that float, so tags do not collide.
MetricOrder == <<"wape", "bias", "rmse", "pinball", "coverage">>
MetricKeys ==
    {<<0, i>> : i \in 1..3} \cup {<<q, i>> : q \in Quantiles, i \in 4..5}

Precedes(k, l) == k[1] < l[1] \/ (k[1] = l[1] /\ k[2] < l[2])

MetricValue(key) ==
    CASE MetricOrder[key[2]] = "wape"     -> Wape
      [] MetricOrder[key[2]] = "bias"     -> Bias
      [] MetricOrder[key[2]] = "rmse"     -> SquaredError
      [] MetricOrder[key[2]] = "pinball"  -> PinballLoss(key[1])
      [] MetricOrder[key[2]] = "coverage" -> Coverage(key[1])

\* The run exists from start_run() on, before it has any metric.
StartRun ==
    /\ command = "train" /\ rows # << >> /\ raw = << >> /\ run = {}
    /\ run' = {<< >>}
    /\ UNCHANGED <<vars, rows, tableVars, summary>>

LogMetric ==
    /\ \E logged \in run : \E key \in MetricKeys \ DOMAIN logged :
          /\ \A other \in MetricKeys \ DOMAIN logged : other # key => Precedes(key, other)
          /\ run' = {[k \in DOMAIN logged \cup {key} |->
                         IF k = key THEN MetricValue(key) ELSE logged[k]]}
    /\ UNCHANGED <<vars, rows, tableVars, summary>>

--------------------------------------------------------------------------------
(****************************************************************************)
(* recommend and simulate.                                                  *)
(****************************************************************************)

\* The row the forecast became, with its outcome: it is already known.
RecommendRow ==
    /\ \E d \in decision, demand \in Demands :
          rows' = Append(rows,
                     [of |-> ThisRun, fractile |-> CriticalFractile(economics),
                      order |-> d.order, safety |-> d.safety, demand |-> demand])
    /\ raw' = << >> /\ predictions' = << >> /\ decision' = {}
    /\ UNCHANGED <<economics, command, settingVars, graded, metrics, tableVars, run, summary>>

\* Mutation: INSERT into the table that is there.
PersistRecommendationsAppending ==
    /\ command = "recommend" /\ rows # << >> /\ raw = << >>
    /\ recommendations' = {(IF recommendations = {} THEN << >>
                              ELSE CHOOSE old \in recommendations : TRUE) \o rows}
    /\ rows' = << >>
    /\ UNCHANGED <<vars, results, run, summary>>

\* CREATE OR REPLACE TABLE
PersistRecommendations ==
    /\ command = "recommend" /\ rows # << >> /\ raw = << >>
    /\ recommendations' = {rows}
    /\ rows' = << >>
    /\ UNCHANGED <<vars, results, run, summary>>

\* One table row per policy and decision, the ML policy's first.
ResultsOf(policy) ==
    [i \in DOMAIN graded |-> [policy |-> policy, demand |-> graded[i].demand,
                             decision |-> graded[i][policy]]]

PersistResults ==
    /\ metrics # {} /\ raw = << >> /\ results \in {{}, {OldResults}}
    /\ results' = {ResultsOf("ml") \o ResultsOf("baseline")}
    /\ UNCHANGED <<vars, rows, recommendations, run, summary>>

--------------------------------------------------------------------------------
(****************************************************************************)
(* report.                                                                  *)
(****************************************************************************)

LessFraction(a, b) == a[1] * b[2] < b[1] * a[2]

Miss(r) == Distance(r.order, r.demand)

\* ORDER BY absolute_miss DESC LIMIT 20: among equal misses, any order.
TopMisses(table) ==
    {top \in UNION {[1..n -> DOMAIN table] : n \in 1..Cap} :
        /\ Len(top) = Min({Cap, Len(table)})
        /\ \A i, j \in DOMAIN top : i < j =>
              top[i] # top[j] /\ Miss(table[top[i]]) >= Miss(table[top[j]])
        /\ \A i \in DOMAIN table :
              i \in {top[j] : j \in DOMAIN top} \/ Miss(table[i]) <= Miss(table[top[Len(top)]])}

\* report_recommendations_summary.sql: MIN and MAX of columns a run writes once
\* and the same into every row.
RecommendationsSummary(table, top) ==
    [count |-> Len(table),
     order |-> SumOf([i \in DOMAIN table |-> table[i].order]),
     safety |-> SumOf([i \in DOMAIN table |-> table[i].safety]),
     date |-> Min({table[i].of.origin : i \in DOMAIN table}),
     lead |-> Max({table[i].of.lead : i \in DOMAIN table}),
     snapshot |-> Max({table[i].of.snapshot : i \in DOMAIN table}),
     fractile |-> CHOOSE f \in {table[i].fractile : i \in DOMAIN table} :
                     \A i \in DOMAIN table : ~LessFraction(table[i].fractile, f),
     misses |-> [i \in DOMAIN top |-> table[top[i]]]]

\* report_simulation_summary.sql: GROUP BY policy.
PolicySummary(table, policy) ==
    LET group == {i \in DOMAIN table : table[i].policy = policy}
    IN  [count |-> Cardinality(group),
         total |-> SumOf([i \in group |-> table[i].decision.cost]),
         understock |-> SumOf([i \in group |-> table[i].decision.understock]),
         overstock |-> SumOf([i \in group |-> table[i].decision.overstock])]

Policies(table) == {table[i].policy : i \in DOMAIN table}

Savings(policies) ==
    IF NaN \in {policies["ml"].total, policies["baseline"].total}
      THEN NaN
      ELSE policies["baseline"].total - policies["ml"].total

\* "ML policy cost less" or "more"; a comparison with NaN is false.
SimulationSummary(table) ==
    LET policies == [p \in Policies(table) |-> PolicySummary(table, p)]
        savings == Savings(policies)
    IN  [policies |-> policies, savings |-> savings,
         verdict |-> IF savings # NaN /\ savings >= 0 THEN "less" ELSE "more"]

\* _parse_quantile_metrics: a quantile with one of its two metrics is listed, the
\* other is NaN; a metric of the run that is not there is n/a.
Listed(logged) == {key[1] : key \in DOMAIN logged} \ {0}
Value(logged, key, otherwise) == IF key \in DOMAIN logged THEN logged[key] ELSE otherwise

AccuracySummary(logged) ==
    [wape |-> Value(logged, <<0, 1>>, NotAvailable), bias |-> Value(logged, <<0, 2>>, NotAvailable),
     rmse |-> Value(logged, <<0, 3>>, NotAvailable),
     quantiles |-> [q \in Listed(logged) |->
                      [pinball |-> Value(logged, <<q, 4>>, NaN),
                       coverage |-> Value(logged, <<q, 5>>, NaN)]]]

\* gather_report_data, on tables nobody is writing.  A section whose table or run
\* is not there is left out.
Gather ==
    /\ summary = {} /\ raw = << >>
    /\ rows = << >> \/ run # {}
    /\ graded # << >> => metrics # {}
    /\ \E tops \in {f \in [recommendations -> UNION {TopMisses(t) : t \in recommendations}] :
                      \A t \in recommendations : f[t] \in TopMisses(t)} :
          summary' = {[recommendations |-> {RecommendationsSummary(t, tops[t]) : t \in recommendations},
                       simulation |-> {SimulationSummary(t) : t \in results},
                       accuracy |-> {AccuracySummary(logged) : logged \in run}]}
    /\ UNCHANGED <<vars, rows, tableVars, run>>

--------------------------------------------------------------------------------

SummaryInit ==
    /\ Init
    /\ rows = << >> /\ run = {} /\ summary = {}
    /\ recommendations \in {{}, {OldRows}} /\ results \in {{}, {OldResults}}

\* A command decides or scores at most MaxRows rows; once its table is written or
\* its run started it forecasts no more.
Continue ==
    /\ summary = {} /\ run = {} /\ Len(rows) < MaxRows
    /\ recommendations \in {{}, {OldRows}}
    /\ Prepare \/ Forecast \/ Recommend \/ DecideRow \/ Compare
    /\ UNCHANGED summaryVars

SummaryNext ==
    \/ Continue
    \/ summary = {} /\ (ScoreRow \/ StartRun \/ LogMetric \/ RecommendRow)
    \/ summary = {} /\ (PersistRecommendations \/ PersistResults)
    \/ Gather

SummarySpec == SummaryInit /\ [][SummaryNext]_allVars

--------------------------------------------------------------------------------
(****************************************************************************)
(* Properties.                                                              *)
(****************************************************************************)

SummaryTypeOK ==
    /\ TypeOK
    /\ Len(rows) <= MaxRows
    /\ \A i \in DOMAIN rows : rows[i].demand \in Demands
    /\ \A table \in recommendations :
          Len(table) > 0 /\ \A i \in DOMAIN table : table[i].of \in {ThisRun, OldRows[1].of}
    /\ \A table \in results : \A i \in DOMAIN table : table[i].decision \in Decisions
    /\ \A logged \in run : DOMAIN logged \subseteq MetricKeys
    /\ Cardinality(run) <= 1 /\ Cardinality(summary) <= 1

\* The header of the report speaks for every recommendation in the table: MIN and
\* MAX of what is "constant across one run" (report_recommendations_summary.sql:10)
\* name one run only, and no recommendation left out of the "largest forecast
\* misses" (executive_report.html.j2:210-211) missed by more than one shown.
SummarySpeaksForTable ==
    \A s \in summary : \A shown \in s.recommendations : \A table \in recommendations :
        \A i \in DOMAIN table :
            /\ table[i].of = [snapshot |-> shown.snapshot, lead |-> shown.lead,
                              origin |-> shown.date]
            /\ table[i].fractile = shown.fractile
            /\ \/ \E j \in DOMAIN shown.misses : shown.misses[j] = table[i]
               \/ \A j \in DOMAIN shown.misses :
                     Distance(table[i].order, table[i].demand)
                        <= Distance(shown.misses[j].order, shown.misses[j].demand)

\* "A positive value means the critical fractile sits above the median ... a
\* negative value means the reverse" (newsvendor.py:42-46): the total safety stock
\* the report shows has the sign of the fractile it shows beside it, whatever the
\* two independently fitted models predicted row by row.
SafetyStockShown ==
    \A s \in summary : \A shown \in s.recommendations :
        /\ shown.safety > 0 => 2 * shown.fractile[1] > shown.fractile[2]
        /\ shown.safety < 0 => 2 * shown.fractile[1] < shown.fractile[2]

\* The savings can be trusted: they compare the same number of decisions, are the
\* ones simulate computed before it wrote the table, are in favour of a policy
\* whose every order lies between the demand and the other policy's order, and
\* are never in favour when a cost is no number.
SavingsShown ==
    \A s \in summary : \A sim \in s.simulation : \A table \in results :
        LET policies == sim.policies  n == Len(table) \div 2
        IN  /\ DOMAIN policies = {"ml", "baseline"}
            /\ policies["ml"].count = n /\ policies["baseline"].count = n
            /\ (\A i \in 1..n :
                   /\ table[n + i].decision.order # NaN
                   /\ Between(table[i].demand, table[i].decision.order,
                              table[n + i].decision.order)) => sim.verdict = "less"
            /\ sim.verdict = "less" => NaN \notin {policies[p].total : p \in DOMAIN policies}
            /\ table # OldResults =>
                  \A m \in metrics : \A p \in DOMAIN policies :
                      m[p] = [total |-> policies[p].total,
                              understock |-> policies[p].understock,
                              overstock |-> policies[p].overstock]

\* The accuracy table tells one story, however far the run it was gathered from
\* has come: its quantiles are the first of those trained, a higher quantile
\* covers no fewer test rows ("a well-calibrated P90 model should have coverage
\* close to 0.9", metrics.py:30-31), and the P50 loss, WAPE and bias agree.
AccuracyShown ==
    \A s \in summary : \A shown \in s.accuracy :
        LET listed == DOMAIN shown.quantiles
            coverage(q) == shown.quantiles[q].coverage
        IN  /\ listed \subseteq Quantiles
            /\ \A q \in listed : \A p \in Quantiles :
                  p < q => p \in listed /\ NaN \notin {coverage(p), shown.quantiles[p].pinball}
            /\ \A p, q \in listed : p < q /\ coverage(q) # NaN => coverage(p) <= coverage(q)
            /\ Median \in listed /\ shown.wape # NaN =>
                  2 * shown.quantiles[Median].pinball = Parts * Whole * shown.wape[1]
            /\ shown.bias # NotAvailable /\ shown.wape # NaN =>
                  Distance(shown.bias, 0) <= shown.wape[1]
================================================================================
