----------------------------- MODULE PolicyGrading -----------------------------
(****************************************************************************)
(* The loop of `simulate` over the reviewed rows of one series              *)
(* (simulation/replay.py): both policies order, both orders are graded      *)
(* against the same demand and price, and the totals are compared.  The ML  *)
(* policy orders the forecast of QuantileForecast.  What the Monte Carlo    *)
(* draws are is left open; what the distributions of the classical baseline *)
(* (simulation/baseline.py, core/demand_distribution.py) return is kept to  *)
(* what their arguments bound.  One behaviour is one row of train or of     *)
(* recommend, or one loop of simulate.                                      *)
(****************************************************************************)
EXTENDS QuantileForecast, Sequences

CONSTANTS
    Demands,          \* daily demands
    Prices,           \* sell prices
    LeadTimes,        \* simulation.lead_time_days
    Distributions,    \* simulation.demand_distribution
    Orders,           \* the order quantities of the baseline to try
    MaxRows,          \* bound: the reviewed rows
    NaN               \* the floating-point value that is no number

ASSUME GradingAssumption ==
    /\ Demands \subseteq Nat /\ Prices \subseteq Nat
    /\ LeadTimes \subseteq Nat \ {0}
    /\ Distributions \subseteq {"empirical", "normal", "poisson"}
    /\ Orders \subseteq Int /\ MaxRows \in Nat
    /\ NaN \notin Int

VARIABLES
    lead,           \* the lead time
    distribution,   \* the baseline's distribution
    history,        \* the daily demands the series has seen before the test
    graded,         \* the decisions of both policies, row by row
    metrics         \* total costs by policy once the loop is over, or {}

settingVars == <<lead, distribution, history>>
vars == <<forecastVars, settingVars, graded, metrics>>

Init ==
    /\ ForecastInit
    /\ lead = 0 /\ distribution = "none" /\ history = {}
    /\ graded = << >>
    /\ metrics = {}

\* What the loop of simulate runs under: the settings and the demand history of
\* the series.  A series without history is skipped (see PolicyReplay).
Prepare ==
    /\ command = "simulate" /\ history = {}
    /\ lead' \in LeadTimes
    /\ distribution' \in Distributions
    /\ history' \in (SUBSET Demands) \ {{}}
    /\ UNCHANGED <<forecastVars, graded, metrics>>

\* The forecast of the row the command is at.
Forecast ==
    /\ command = "simulate" => history # {} /\ metrics = {} /\ Len(graded) < MaxRows
    /\ PredictQuantile \/ Predict
    /\ UNCHANGED <<settingVars, graded, metrics>>

Recommend == Decide /\ UNCHANGED <<settingVars, graded, metrics>>

\* The quantile of simulated totals of `lead` draws from the history.
EmpiricalOrders == {q \in Orders : lead * Min(history) <= q /\ q <= lead * Max(history)}

\* scipy.stats.norm.ppf: defined for a positive scale only.
NormalOrders == IF Cardinality(history) = 1 THEN {NaN} ELSE Orders

\* scipy.stats.poisson.ppf: no demand on average, no order.
PoissonOrders == IF history = {0} THEN {0} ELSE {q \in Orders : q >= 0}

\* classical_order_up_to
BaselineOrders ==
    CASE distribution = "empirical" -> EmpiricalOrders
      [] distribution = "normal"    -> NormalOrders
      [] distribution = "poisson"   -> PoissonOrders

\* realized_cost_breakdown in floating point: NaN in, NaN out.
Graded(e, q, demand, price) ==
    IF q = NaN
      THEN [order |-> NaN, understock |-> NaN, overstock |-> NaN, cost |-> NaN]
      ELSE LET costs == CostBreakdown(e, q, demand, price)
           IN  [order |-> q, understock |-> costs.understock, overstock |-> costs.overstock,
                cost |-> costs.understock + costs.overstock]

\* Mutation: the baseline graded at the price alone, not at the costs' ratio.
DecideRowUnscaled ==
    /\ command = "simulate" /\ predictions # << >>
    /\ \E demand \in Demands, price \in Prices, b \in BaselineOrders :
          graded' = Append(graded, [demand |-> demand, price |-> price,
                                    ml |-> Graded(economics, predictions[Fractile], demand, price),
                                    baseline |-> Graded(economics, b, demand, 1)])
    /\ raw' = << >> /\ predictions' = << >>
    /\ UNCHANGED <<economics, command, decision, settingVars, metrics>>

\* One reviewed row: the ML policy orders its forecast at the critical fractile,
\* the baseline by its distribution, both are graded alike, and the loop goes on
\* to the next row.
DecideRow ==
    /\ command = "simulate" /\ predictions # << >>
    /\ \E demand \in Demands, price \in Prices, b \in BaselineOrders :
          graded' = Append(graded, [demand |-> demand, price |-> price,
                                    ml |-> Graded(economics, predictions[Fractile], demand, price),
                                    baseline |-> Graded(economics, b, demand, price)])
    /\ raw' = << >> /\ predictions' = << >>
    /\ UNCHANGED <<economics, command, decision, settingVars, metrics>>

\* One NaN makes the sum NaN.
SumOf(amounts) ==
    IF \E i \in DOMAIN amounts : amounts[i] = NaN THEN NaN ELSE SumFunction(amounts)

Total(policy, amount) == SumOf([i \in DOMAIN graded |-> graded[i][policy][amount]])

Metrics(policy) ==
    [total |-> Total(policy, "cost"), understock |-> Total(policy, "understock"),
     overstock |-> Total(policy, "overstock")]

\* The comparison of the two policies, once at least one row is decided.
Compare ==
    /\ metrics = {} /\ graded # << >> /\ raw = << >>
    /\ metrics' = {[ml |-> Metrics("ml"), baseline |-> Metrics("baseline")]}
    /\ UNCHANGED <<forecastVars, settingVars, graded>>

Next == Prepare \/ Forecast \/ Recommend \/ DecideRow \/ Compare

Spec == Init /\ [][Next]_vars

--------------------------------------------------------------------------------
(****************************************************************************)
(* Properties.                                                              *)
(****************************************************************************)

Amounts == Nat \cup {NaN}
Decisions ==
    [order : Int \cup {NaN}, understock : Amounts, overstock : Amounts, cost : Amounts]
Rows == [demand : Demands, price : Prices, ml : Decisions, baseline : Decisions]
Totals == [total : Amounts, understock : Amounts, overstock : Amounts]

TypeOK ==
    /\ ForecastTypeOK
    /\ lead \in LeadTimes \cup {0}
    /\ distribution \in Distributions \cup {"none"} /\ history \in SUBSET Demands
    /\ graded \in Seq(Rows)
    /\ metrics \subseteq [ml : Totals, baseline : Totals]

\* Both policies are graded by the loss the quantile model is trained on
\* (docs/adr/012, "Decision"): the realized cost of an order is the price times
\* the pinball loss at the critical fractile, for the baseline's orders too.
GradedByPinball ==
    \A i \in DOMAIN graded : \A d \in {graded[i].ml, graded[i].baseline} :
        d.order # NaN =>
            d.cost = graded[i].price
                       * Pinball(CriticalFractile(economics), graded[i].demand, d.order)

\* Is b no farther from a than c, and on the same side?
Between(a, b, c) == (a <= b /\ b <= c) \/ (c <= b /\ b <= a)

\* normal_quantile returns "the quantile of the fitted normal distribution"
\* (demand_distribution.py:26), and the comparison its cost: every amount that
\* is persisted is a number.
CostsAreNumbers ==
    \A i \in DOMAIN graded : NaN \notin {graded[i].ml.cost, graded[i].baseline.cost}
================================================================================
