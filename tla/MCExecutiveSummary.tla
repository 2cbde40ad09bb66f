--------------------------- MODULE MCExecutiveSummary ---------------------------
(****************************************************************************)
(* Small instances of ExecutiveSummary: the costs.yaml of the repository,   *)
(* one under which overstock is the costlier mistake, one under which the   *)
(* two cost the same, and one whose critical fractile is the P90 that is    *)
(* configured anyway; predictions on both sides of zero.  The tables may    *)
(* hold what a run of an earlier snapshot left, priced by other economics.  *)
(****************************************************************************)
EXTENDS ExecutiveSummary

MCCostConfigs ==
    {[unitCost |-> 65, salvage |-> 35, holding |-> 2, penalty |-> 10],
     [unitCost |-> 90, salvage |-> 0, holding |-> 5, penalty |-> 0],
     [unitCost |-> 50, salvage |-> 0, holding |-> 0, penalty |-> 0],
     [unitCost |-> 10, salvage |-> 0, holding |-> 0, penalty |-> 0]}

MCPredictions == {0 - 1, 0, 1, 3}

MCThisRun == [snapshot |-> 2, lead |-> 1, origin |-> 9]

MCOldRows ==
    <<[of |-> [snapshot |-> 1, lead |-> 2, origin |-> 8], fractile |-> <<1, 4>>,
       order |-> 1, safety |-> 0 - 2, demand |-> 3]>>

MCOldDecision(order) ==
    Graded([unitCost |-> 90, salvage |-> 0, holding |-> 5, penalty |-> 0], order, 2, 1)

MCOldResults ==
    <<[policy |-> "ml", demand |-> 2, decision |-> MCOldDecision(1)],
      [policy |-> "baseline", demand |-> 2, decision |-> MCOldDecision(4)]>>

\* Only the table a command writes may be an old one, and simulate always finds
\* one: the other tables make no difference to it.
MCInit ==
    /\ SummaryInit
    /\ recommendations # {} => command = "recommend"
    /\ results # {} <=> command = "simulate"

MCSpec == MCInit /\ [][SummaryNext]_allVars
================================================================================
