--------------------------------- MODULE HeldOut ---------------------------------
(****************************************************************************)
(* The three commands that learn from a snapshot and are judged on what     *)
(* they have not seen: one behaviour is one run of train, recommend or      *)
(* simulate on any snapshot and any configuration.                          *)
(****************************************************************************)
EXTENDS Backtest, Recommender, PolicyReplay

vars == <<runVars, backtestVars, recommenderVars, replayVars>>

Init ==
    /\ \/ RunInit("train", BacktestConfigs)
       \/ RunInit("recommend", RecommenderConfigs)
       \/ RunInit("simulate", ReplayConfigs)
    /\ BacktestInit /\ RecommenderInit /\ ReplayInit

Next ==
    \/ (Assemble \/ SplitRows) /\ UNCHANGED <<backtestVars, recommenderVars, replayVars>>
    \/ (Stack \/ Score) /\ UNCHANGED <<recommenderVars, replayVars>>
    \/ (SplitTraining \/ Recommend) /\ UNCHANGED <<backtestVars, replayVars>>
    \/ (Review \/ FitModels \/ Decide \/ Persist) /\ UNCHANGED <<backtestVars, recommenderVars>>

Spec == Init /\ [][Next]_vars

\* Single-threaded runs: they go on until they are done or have failed.
FairSpec == Spec /\ WF_vars(Next)

--------------------------------------------------------------------------------
(****************************************************************************)
(* Properties.                                                              *)
(****************************************************************************)

\* Rows are rows of the snapshot: both their days have sales in it.
TypeOK ==
    /\ priced \in Pricings
    /\ config \in BacktestConfigs \cup RecommenderConfigs \cup ReplayConfigs
    /\ stage \in {"assemble", "split", "evaluate", "fit", "decide", "done", "failed"}
    /\ horizon \in Nat
    /\ \A part \in {rows, split.train, split.validation, split.test, scored,
                    recommendations, todo, ml, baseline} :
          \A r \in part : r \in [series : Series, origin : Days, target : Days]
    /\ learnt \subseteq Series \X Days
    /\ history \in [Series -> SUBSET Days]

\* Every run ends, with its output in place or with an error and none.
RunEnds ==
    <>(\/ stage = "done"
       \/ stage = "failed" /\ results = NoResults /\ recommendations = {} /\ scored = {})
================================================================================
