------------------------------ MODULE PolicyReplay ------------------------------
(****************************************************************************)
(* `simulate` (simulation/replay.py): both policies are replayed on the     *)
(* held-out origins of one snapshot and graded against what was then sold.  *)
(****************************************************************************)
EXTENDS DatasetRun

CONSTANTS LeadTimes, ReviewPeriods    \* simulation.lead_time_days, review_period_days

ASSUME ReplayAssumption == LeadTimes \cup ReviewPeriods \subseteq Nat \ {0}

VARIABLES
    todo,      \* the reviewed rows not decided yet
    learnt,    \* the cells the quantile model was fitted on
    history,   \* history[s]: the days in the baseline's demand sample of s
    ml,        \* the rows the ML policy decided
    baseline,  \* the rows the classical baseline decided
    results    \* the simulation_results table

replayVars == <<todo, learnt, history, ml, baseline, results>>

ReplayConfigs == [lead : LeadTimes, review : ReviewPeriods, test : TestSizes,
                  validation : ValidationSizes]

NoResults == [ml_quantile |-> {}, classical_baseline |-> {}]

ReplayInit ==
    /\ todo = {} /\ learnt = {}
    /\ history = [s \in Series |-> {}]
    /\ ml = {} /\ baseline = {} /\ results = NoResults

\* Test origins on the review cadence, counted from the epoch.
Review ==
    /\ command = "simulate"
    /\ stage = "evaluate"
    /\ todo' = {r \in split.test : r.origin % config.review = 0}
    /\ IF todo' = {} THEN Fail ELSE stage' = "fit"
    /\ UNCHANGED <<inputVars, rows, split, learnt, history, ml, baseline, results>>

\* Mutation: the baseline's sample taken from the whole dataset.
HistoryOfAll(s) == {r.target : r \in {q \in rows : q.series = s}}

\* The baseline's sample: the pre-test targets of the series.
HistoryOf(s) == {r.target : r \in {q \in split.train \cup split.validation : q.series = s}}

\* The model is trained on train and stopped early on validation.
FitModels ==
    /\ stage = "fit"
    /\ learnt' = FittedOn(priced, split.train \cup split.validation)
    /\ history' = [s \in Series |-> HistoryOf(s)]
    /\ stage' = "decide"
    /\ UNCHANGED <<inputVars, rows, split, todo, ml, baseline, results>>

\* Mutation: a series without history is skipped by the baseline only.
DecideUnpaired ==
    /\ stage = "decide"
    /\ \E r \in todo :
        /\ todo' = todo \ {r}
        /\ ml' = ml \cup {r}
        /\ baseline' = IF history[r.series] = {} THEN baseline ELSE baseline \cup {r}
    /\ UNCHANGED <<inputVars, stage, rows, split, learnt, history, results>>

\* One reviewed row: skipped without history, otherwise decided by both
\* policies and graded against the same realized demand.
Decide ==
    /\ stage = "decide"
    /\ \E r \in todo :
        /\ todo' = todo \ {r}
        /\ \/ history[r.series] = {} /\ UNCHANGED <<ml, baseline>>
           \/ /\ history[r.series] # {}
              /\ ml' = ml \cup {r}
              /\ baseline' = baseline \cup {r}
    /\ UNCHANGED <<inputVars, stage, rows, split, learnt, history, results>>

\* Mutation: the check for "every row skipped" before the loop has decided.
PersistWhenDecided ==
    /\ stage = "decide"
    /\ todo = {} /\ ml # {}
    /\ results' = [ml_quantile |-> ml, classical_baseline |-> baseline]
    /\ stage' = "done"
    /\ UNCHANGED <<inputVars, rows, split, todo, learnt, history, ml, baseline>>

\* The comparison replaces simulation_results, unless every row was skipped.
Persist ==
    /\ stage = "decide"
    /\ todo = {}
    /\ IF ml = {} THEN Fail /\ UNCHANGED results
                  ELSE /\ results' = [ml_quantile |-> ml, classical_baseline |-> baseline]
                       /\ stage' = "done"
    /\ UNCHANGED <<inputVars, rows, split, todo, learnt, history, ml, baseline>>

--------------------------------------------------------------------------------
(****************************************************************************)
(* Properties.                                                              *)
(****************************************************************************)

\* The replayed outcomes are held out: nothing either policy has seen, in the
\* model, in the demand sample or in the row's own features, reaches the day
\* its decision is graded on, for any series.
OutcomesHeldOut ==
    \A r \in ml \cup baseline :
        /\ \A cell \in learnt \cup FeatureCells(priced, r) : cell[2] < r.target
        /\ \A d \in history[r.series] : d < r.target

\* A "fair, paired" comparison (docs/adr/017, "Decision"): both policies have
\* decided the same rows at every moment, and in the end every reviewed row but
\* those of series without a single pre-test row.
PoliciesPaired ==
    /\ ml = baseline
    /\ results # NoResults =>
          ml = {r \in split.test : /\ r.origin % config.review = 0
                                   /\ \E q \in Fitted : q.series = r.series}

\* "For each of many past decision points, both policies compute an order
\* quantity using only data available at that point" (replay.py:5-6).
OnlyPastData ==
    \A r \in ml : \A cell \in learnt : cell[2] <= r.origin
================================================================================
