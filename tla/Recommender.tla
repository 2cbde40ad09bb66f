------------------------------- MODULE Recommender -------------------------------
(****************************************************************************)
(* `recommend` (optimization/recommender.py): one order quantity per series *)
(* at the most recent origin whose outcome is known, predicted by models    *)
(* trained on every earlier origin.  The rows recommended for are the       *)
(* split's test rows here.                                                  *)
(****************************************************************************)
EXTENDS DatasetRun

CONSTANT RequestedLeads    \* lead_time_days: from simulation.yaml or --lead-time-days

ASSUME RecommenderAssumption == RequestedLeads \subseteq Int

VARIABLE recommendations   \* the recommendations table

recommenderVars == <<recommendations>>

RecommenderConfigs == [lead : RequestedLeads, validation : ValidationSizes]

RecommenderInit == recommendations = {}

\* Mutation: each series at its own most recent origin.
CurrentOfSeries(data) ==
    {r \in data : \A q \in data : q.series = r.series => q.origin <= r.origin}

\* The rows of the most recent origin of all.
Current(data) == {r \in data : \A q \in data : q.origin <= r.origin}

\* Mutation: training on the current rows too.
EarlierOrSame(data) == data

\* The rows of every earlier origin.
Earlier(data) == {r \in data : \E q \in data : r.origin < q.origin}

\* _train_validation_split: the latest origins stop the fitting, and at least
\* one earlier origin is left to fit on.
SplitTraining ==
    /\ command = "recommend"
    /\ stage = "split"
    /\ LET training == Earlier(rows)
       IN  IF CanSplit(training, config.validation, 0)
             THEN LET start == NthLatest(Origins(training), config.validation)
                  IN  /\ split' = [train      |-> Before(training, start),
                                   validation |-> OnOrAfter(training, start),
                                   test       |-> Current(rows)]
                      /\ stage' = "evaluate"
             ELSE Fail /\ UNCHANGED split
    /\ UNCHANGED <<inputVars, rows, recommendations>>

\* Every current row is predicted at once and the table replaced as a whole.
Recommend ==
    /\ command = "recommend"
    /\ stage = "evaluate"
    /\ recommendations' = split.test
    /\ stage' = "done"
    /\ UNCHANGED <<inputVars, rows, split>>

--------------------------------------------------------------------------------
(****************************************************************************)
(* Properties.                                                              *)
(****************************************************************************)

\* A recommendation is graded honestly by its actual_demand: nothing the models
\* learnt from, and none of its own features, reaches the target day.
ActualDemandUnseen ==
    \A r \in recommendations :
        \A cell \in FittedOn(priced, Fitted) \cup FeatureCells(priced, r) :
            cell[2] < r.target

\* One recommendation per series and one origin for all of them, the latest at
\* which any series has a known outcome (docs/adr/016, "Decision"); and exactly
\* the series with a row on that day and on the target day get one.
OneOriginForAll ==
    command = "recommend" /\ stage = "done" =>
        \E d \in Origins(rows) :
            /\ \A r \in rows : r.origin <= d
            /\ recommendations = {[series |-> s, origin |-> d, target |-> d + config.lead] :
                                     s \in {t \in Series : {d, d + config.lead}
                                                               \subseteq SalesDays(priced, t)}}
================================================================================
