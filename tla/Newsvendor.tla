------------------------------- MODULE Newsvendor -------------------------------
(****************************************************************************)
(* The economics of one order (core/newsvendor.py and CostsConfig in        *)
(* config/models.py) and the loss a quantile model is graded by             *)
(* (core/metrics.py).                                                       *)
(*                                                                          *)
(* Ratios of the sell price are integers over a common Scale, and a         *)
(* quantile is a pair <<n, m>> that stands for n / m, so that everything    *)
(* here is exact: a cost is in units of price / Scale, a pinball loss in    *)
(* units of 1 / m.                                                          *)
(****************************************************************************)
EXTENDS Integers

CONSTANT Scale    \* a cost ratio r of the code is r * Scale here

ASSUME ScaleAssumption == Scale \in Nat \ {0}

\* The costs.yaml that load with finite ratios: the bounds of the fields and
\* salvage < cost.  One that holds .nan, or .inf for the penalty, loads too; its
\* fractile is NaN (see ConfigLoading), and nothing is said of orders priced by it.
Economies ==
    {e \in [unitCost : 1..(Scale - 1), salvage : 0..(Scale - 1),
            holding : 0..(Scale - 1), penalty : Nat] : e.salvage < e.unitCost}

Understock(e) == (Scale - e.unitCost) + e.penalty
Overstock(e) == (e.unitCost - e.salvage) + e.holding

\* Mutation: Co / (Cu + Co).
CriticalFractileSwapped(e) == <<Overstock(e), Understock(e) + Overstock(e)>>

CriticalFractile(e) == <<Understock(e), Understock(e) + Overstock(e)>>

\* The units missing from, and left over of, an order q when d is demanded.
UnderUnits(q, d) == IF d > q THEN d - q ELSE 0
OverUnits(q, d) == IF q > d THEN q - d ELSE 0

\* Mutation: the two units swapped.
CostBreakdownSwapped(e, q, d, price) ==
    [understock |-> price * Understock(e) * OverUnits(q, d),
     overstock  |-> price * Overstock(e) * UnderUnits(q, d)]

CostBreakdown(e, q, d, price) ==
    [understock |-> price * Understock(e) * UnderUnits(q, d),
     overstock  |-> price * Overstock(e) * OverUnits(q, d)]

RealizedCost(e, q, d, price) ==
    CostBreakdown(e, q, d, price).understock + CostBreakdown(e, q, d, price).overstock

\* max(q * diff, (q - 1) * diff) at quantile q = n / m, times m.
Pinball(quantile, d, prediction) ==
    LET n == quantile[1]  m == quantile[2]  diff == d - prediction
    IN  IF n * diff >= (n - m) * diff THEN n * diff ELSE (n - m) * diff
================================================================================
