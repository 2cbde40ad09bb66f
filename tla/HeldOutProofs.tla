----------------------------- MODULE HeldOutProofs -----------------------------
(****************************************************************************)
(* That what a run of train, recommend or simulate is judged by is held     *)
(* out, for any series, gaps, lags, windows, horizons and partition sizes.  *)
(****************************************************************************)
EXTENDS HeldOut, FiniteSetTheorems, TLAPS

--------------------------------------------------------------------------------
(****************************************************************************)
(* sorted(dates)[-n], and splitting by it.                                  *)
(****************************************************************************)

\* How many of S are d or later: the position of d from the end of sorted(S).
Position(S) == [d \in S |-> Cardinality({e \in S : e >= d})]

\* Distinct days have distinct positions, so each position is taken.
LEMMA EveryPositionTaken ==
    ASSUME NEW S \in SUBSET Int, IsFiniteSet(S), NEW n \in 1..Cardinality(S)
    PROVE  \E d \in S : Cardinality({e \in S : e >= d}) = n
<1> DEFINE Later(d) == {e \in S : e >= d}
           N == Cardinality(S)
<1> HIDE DEF N
<1>0. N \in Nat /\ \A x \in S : x \in Int
  BY FS_CardinalityType DEF N
<1>1. ASSUME NEW d \in S
      PROVE  /\ IsFiniteSet(Later(d)) /\ Cardinality(Later(d)) \in Nat
             /\ Cardinality(Later(d)) <= N /\ Cardinality(Later(d)) # 0
  <2>1. Later(d) \in SUBSET S /\ d \in Later(d)
    BY <1>0
  <2>2. IsFiniteSet(Later(d)) /\ Cardinality(Later(d)) <= N
    BY <2>1, FS_Subset DEF N
  <2>3. Cardinality(Later(d)) \in Nat
    BY <2>2, FS_CardinalityType
  <2>4. Cardinality(Later(d)) # 0
    BY <2>1, <2>2, FS_EmptySet
  <2> QED
    BY <2>2, <2>3, <2>4
<1>2. ASSUME NEW c \in S, NEW d \in S, c < d
      PROVE  Cardinality(Later(c)) # Cardinality(Later(d))
  <2>0. c \in Int /\ d \in Int
    BY <1>0
  <2>1. Later(d) \subseteq Later(c)
    <3> SUFFICES ASSUME NEW e \in S, e >= d PROVE e >= c
      OBVIOUS
    <3> QED
      BY <1>0, <1>2, <2>0
  <2>2. c \in Later(c) /\ c \notin Later(d)
    BY <1>2, <2>0
  <2>3. IsFiniteSet(Later(c))
    BY <1>1
  <2> QED
    BY <2>1, <2>2, <2>3, FS_Subset
<1>3. Position(S) \in [S -> 1..N]
  <2>1. ASSUME NEW d \in S PROVE Cardinality(Later(d)) \in 1..N
    BY <1>0, <1>1
  <2> QED
    BY <2>1 DEF Position
<1>4. \A c, d \in S : Position(S)[c] = Position(S)[d] => c = d
  <2> SUFFICES ASSUME NEW c \in S, NEW d \in S, c # d
               PROVE  Position(S)[c] # Position(S)[d]
    OBVIOUS
  <2>1. c < d \/ d < c
    BY <1>0
  <2>2. Cardinality(Later(c)) # Cardinality(Later(d))
    BY <1>2, <2>1
  <2> QED
    BY <2>2 DEF Position
<1>5. Position(S) \in Injection(S, 1..N)
  BY <1>3, <1>4 DEF Injection, IsInjective
<1>6. IsFiniteSet(1..N) /\ Cardinality(1..N) = N
  BY <1>0, FS_Interval
<1>7. Position(S) \in Surjection(S, 1..N)
  BY <1>5, <1>6, FS_Injection DEF N
<1>8. PICK d \in S : Position(S)[d] = n
  BY <1>7 DEF Surjection, N
<1> QED
  BY <1>8 DEF Position

\* NthLatest is defined: n days fall on it or after it.
LEMMA NthLatestCounts ==
    ASSUME NEW S \in SUBSET Int, IsFiniteSet(S), NEW n \in 1..Cardinality(S)
    PROVE  /\ NthLatest(S, n) \in S
           /\ Cardinality({e \in S : e >= NthLatest(S, n)}) = n
BY EveryPositionTaken DEF NthLatest

\* The latest day is the maximum.
LEMMA LatestIsMax ==
    ASSUME NEW S \in SUBSET Int, IsFiniteSet(S), S # {}
    PROVE  \E d \in S : \A e \in S : e <= d
<1>1. Cardinality(S) \in Nat /\ Cardinality(S) # 0
  BY FS_CardinalityType, FS_EmptySet
<1>2. 1 \in 1..Cardinality(S)
  BY <1>1
<1>3. PICK d \in S : Cardinality({e \in S : e >= d}) = 1
  BY <1>2, EveryPositionTaken
<1>4. IsFiniteSet({e \in S : e >= d})
  BY FS_Subset
<1>5. PICK x : {e \in S : e >= d} = {x}
  BY <1>3, <1>4, FS_Singleton
<1>6. x = d
  BY <1>5
<1>7. \A e \in S : e >= d => e = d
  BY <1>5, <1>6
<1> QED
  BY <1>7

\* A later position from the end is an earlier day, and m - n days lie between.
LEMMA Between ==
    ASSUME NEW S \in SUBSET Int, IsFiniteSet(S),
           NEW n \in 1..Cardinality(S), NEW m \in 1..Cardinality(S), n < m
    PROVE  /\ NthLatest(S, m) < NthLatest(S, n)
           /\ Cardinality({e \in S : NthLatest(S, m) <= e /\ e < NthLatest(S, n)}) = m - n
<1> DEFINE late == NthLatest(S, n)
           early == NthLatest(S, m)
           Late == {e \in S : e >= late}
           Early == {e \in S : e >= early}
<1>k. \A x \in S : x \in Int
  OBVIOUS
<1>0. late \in Int /\ early \in Int /\ Cardinality(Late) = n /\ Cardinality(Early) = m
  BY NthLatestCounts
<1>1. IsFiniteSet(Late) /\ IsFiniteSet(Early)
  BY FS_Subset
<1>2. early < late
  <2>1. SUFFICES ASSUME late <= early PROVE FALSE
    BY <1>0
  <2>2. Early \subseteq Late
    <3> SUFFICES ASSUME NEW e \in S, e >= early PROVE e >= late
      OBVIOUS
    <3> QED
      BY <1>0, <1>k, <2>1
  <2>3. Cardinality(Early) <= Cardinality(Late)
    BY <1>1, <2>2, FS_Subset
  <2> QED
    BY <1>0, <2>3
<1>3. \A e \in S : (early <= e /\ e < late) <=> (e >= early /\ ~(e >= late))
  BY <1>0, <1>k
<1>4. \A e \in S : e >= late => e >= early
  BY <1>0, <1>k, <1>2
<1>l. {e \in S : early <= e /\ e < late} = Early \ Late
  BY <1>3
<1>m. Early \cap Late = Late
  BY <1>4
<1>5. Cardinality(Early \ Late) = Cardinality(Early) - Cardinality(Early \cap Late)
  BY <1>1, FS_Difference
<1> QED
  BY <1>0, <1>2, <1>l, <1>m, <1>5

\* A partition boundary leaves something before it.
LEMMA SomethingBefore ==
    ASSUME NEW S \in SUBSET Int, IsFiniteSet(S),
           NEW n \in Nat \ {0}, n < Cardinality(S)
    PROVE  \E d \in S : d < NthLatest(S, n)
<1>0. Cardinality(S) \in Nat
  BY FS_CardinalityType
<1>1. n \in 1..Cardinality(S)
  BY <1>0
<1> DEFINE start == NthLatest(S, n)
<1>2. start \in S /\ Cardinality({e \in S : e >= start}) = n
  BY <1>1, NthLatestCounts
<1> HIDE DEF start
<1>3. \A x \in S : x \in Int
  OBVIOUS
<1>4. SUFFICES ASSUME \A d \in S : start <= d PROVE FALSE
  <2>1. PICK d \in S : ~(start <= d)
    BY <1>4
  <2>2. d < start
    BY <1>2, <1>3, <2>1
  <2> QED
    BY <2>2 DEF start
<1>5. \A d \in S : d >= start
  BY <1>2, <1>3, <1>4
<1>6. {e \in S : e >= start} = S
  BY <1>5
<1> QED
  BY <1>0, <1>2, <1>6

\* There are finitely many origins, all of them days.
LEMMA OriginsFinite ==
    ASSUME NEW data, Origins(data) \subseteq Days
    PROVE  Origins(data) \in SUBSET Int /\ IsFiniteSet(Origins(data))
<1>1. NumWeeks * WeekDays - 1 \in Int
  BY DatasetAssumption
<1>2. IsFiniteSet(Days) /\ Days \subseteq Int
  BY <1>1, FS_Interval DEF Days
<1> QED
  BY <1>2, FS_Subset

\* chronological_split makes an ordered partition of the configured sizes.
LEMMA SplitPartitions ==
    ASSUME NEW data, Origins(data) \subseteq Days,
           NEW testSize \in Nat \ {0}, NEW validationSize \in Nat \ {0},
           CanSplit(data, testSize, validationSize),
           NEW parts, parts = Split(data, testSize, validationSize)
    PROVE  /\ parts.train \cup parts.validation \cup parts.test = data
           /\ parts.train # {} /\ parts.test # {}
           /\ Cardinality(Origins(parts.validation)) = validationSize
           /\ Cardinality(Origins(parts.test)) = testSize
           /\ \A r \in parts.train, q \in parts.validation : r.origin < q.origin
           /\ \A r \in parts.validation, q \in parts.test : r.origin < q.origin
<1> DEFINE S == Origins(data)
           late == NthLatest(S, testSize)
           early == NthLatest(S, testSize + validationSize)
<1>1. S \in SUBSET Int /\ IsFiniteSet(S) /\ Cardinality(S) \in Nat
  BY OriginsFinite, FS_CardinalityType
<1>2. testSize + validationSize < Cardinality(S)
  BY <1>1 DEF CanSplit
<1>3. /\ testSize \in 1..Cardinality(S) /\ testSize + validationSize \in 1..Cardinality(S)
      /\ testSize < testSize + validationSize
      /\ testSize + validationSize \in Nat \ {0}
      /\ (testSize + validationSize) - testSize = validationSize
  BY <1>1, <1>2
<1>4. /\ late \in S /\ early \in S /\ early < late
      /\ Cardinality({e \in S : e >= late}) = testSize
      /\ Cardinality({e \in S : early <= e /\ e < late}) = validationSize
  <2>1. early < late /\ Cardinality({e \in S : early <= e /\ e < late})
                            = (testSize + validationSize) - testSize
    BY <1>1, <1>3, Between
  <2>2. late \in S /\ Cardinality({e \in S : e >= late}) = testSize
    BY <1>1, <1>3, NthLatestCounts
  <2>3. early \in S
    BY <1>1, <1>3, NthLatestCounts
  <2> QED
    BY <1>3, <2>1, <2>2, <2>3
<1>5. PICK first \in S : first < early
  BY <1>1, <1>2, <1>3, SomethingBefore
<1>6. /\ parts.train = Before(data, early)
      /\ parts.validation = OnOrAfter(data, early) \cap Before(data, late)
      /\ parts.test = OnOrAfter(data, late)
  BY DEF Split
<1> HIDE DEF late, early
<1>7. \A r \in data : r.origin \in S
  BY DEF Origins
<1>8. \A r \in data : r.origin \in Int
  BY <1>1, <1>7
<1>9. late \in Int /\ early \in Int /\ first \in Int
  BY <1>1, <1>4
<1>a. parts.train \cup parts.validation \cup parts.test = data
  BY <1>4, <1>6, <1>8, <1>9 DEF Before, OnOrAfter
<1>b. parts.train # {} /\ parts.test # {}
  <2>1. PICK r \in data : r.origin = first
    BY DEF Origins
  <2>2. PICK q \in data : q.origin = late
    BY <1>4 DEF Origins
  <2> QED
    BY <1>5, <1>6, <1>9, <2>1, <2>2 DEF Before, OnOrAfter
<1>c. Origins(parts.test) = {e \in S : e >= late}
  BY <1>6 DEF Origins, OnOrAfter
<1>d. Origins(parts.validation) = {e \in S : early <= e /\ e < late}
  <2>1. \A r \in data : (r.origin >= early) <=> (early <= r.origin)
    BY <1>8, <1>9
  <2> QED
    BY <1>6, <2>1 DEF Origins, OnOrAfter, Before
<1>e. \A r \in parts.train, q \in parts.validation : r.origin < q.origin
  BY <1>6, <1>8, <1>9 DEF Before, OnOrAfter
<1>f. \A r \in parts.validation, q \in parts.test : r.origin < q.origin
  BY <1>6, <1>8, <1>9 DEF Before, OnOrAfter
<1> QED
  BY <1>4, <1>a, <1>b, <1>c, <1>d, <1>e, <1>f

\* recommend splits by hand: one more origin, the most recent, is held out.
LEMMA TrainingSplitPartitions ==
    ASSUME NEW data, Origins(data) \subseteq Days,
           NEW size \in Nat \ {0}, CanSplit(Earlier(data), size, 0),
           NEW start, start = NthLatest(Origins(Earlier(data)), size),
           NEW parts, parts = [train      |-> Before(Earlier(data), start),
                               validation |-> OnOrAfter(Earlier(data), start),
                               test       |-> Current(data)]
    PROVE  /\ parts.train \cup parts.validation \cup parts.test = data
           /\ parts.train # {} /\ parts.test # {}
           /\ Cardinality(Origins(parts.validation)) = size
           /\ \A r \in parts.train, q \in parts.validation : r.origin < q.origin
           /\ \A r \in parts.validation, q \in parts.test : r.origin < q.origin
<1> DEFINE earlier == Earlier(data)
           S == Origins(earlier)
<1>1. Earlier(data) \subseteq data /\ Current(data) \subseteq data
  BY DEF Earlier, Current
<1>2. S \subseteq Days
  BY <1>1 DEF Origins
<1>3. S \in SUBSET Int /\ IsFiniteSet(S) /\ Cardinality(S) \in Nat
  BY <1>2, OriginsFinite, FS_CardinalityType
<1>4. Origins(data) \in SUBSET Int /\ IsFiniteSet(Origins(data))
  BY OriginsFinite
<1>5. \A r \in data : r.origin \in Int
  BY <1>4 DEF Origins
<1>6. size < Cardinality(S) /\ size \in 1..Cardinality(S)
  BY <1>3 DEF CanSplit
<1>7. /\ start \in S /\ start \in Int
      /\ Cardinality({e \in S : e >= start}) = size
  BY <1>3, <1>6, NthLatestCounts
<1>8. PICK first \in S : first < start
  BY <1>3, <1>6, SomethingBefore
<1>9. parts.train # {}
  BY <1>8 DEF Before, Origins
<1>a. Origins(parts.validation) = {e \in S : e >= start}
  BY DEF Origins, OnOrAfter
<1>b. parts.test # {}
  <2>1. Origins(data) # {}
    BY <1>1, <1>7 DEF Origins
  <2>2. PICK d \in Origins(data) : \A e \in Origins(data) : e <= d
    BY <1>4, <2>1, LatestIsMax
  <2>3. PICK r \in data : r.origin = d
    BY DEF Origins
  <2>4. \A q \in data : q.origin <= r.origin
    BY <2>2, <2>3 DEF Origins
  <2> QED
    BY <2>4 DEF Current
<1>c. parts.train \cup parts.validation = earlier
  <2>1. \A r \in earlier : r.origin < start \/ r.origin >= start
    BY <1>1, <1>5, <1>7
  <2> QED
    BY <2>1 DEF Before, OnOrAfter
<1>d. earlier \cup Current(data) = data
  BY <1>5 DEF Earlier, Current
<1>e. \A r \in parts.train, q \in parts.validation : r.origin < q.origin
  BY <1>1, <1>5, <1>7 DEF Before, OnOrAfter
<1>f. \A r \in earlier, q \in Current(data) : r.origin < q.origin
  BY <1>5 DEF Earlier, Current
<1> QED
  BY <1>7, <1>9, <1>a, <1>b, <1>c, <1>d, <1>e, <1>f

--------------------------------------------------------------------------------
(****************************************************************************)
(* What is known of a run at every moment.                                  *)
(****************************************************************************)

\* A run has the settings of its command, and only its command's steps.
Setup ==
    /\ priced \in Pricings
    /\ \/ command = "train" /\ config \in BacktestConfigs
       \/ command = "recommend" /\ config \in RecommenderConfigs
       \/ command = "simulate" /\ config \in ReplayConfigs
    /\ stage \in {"assemble", "split", "evaluate", "fit", "decide", "done", "failed"}
    /\ stage \in {"fit", "decide"} => command = "simulate"

\* The outcome of a row is as far ahead as its command asks, and on record.
RowsAhead ==
    /\ \A r \in rows :
          /\ r \in [series : Series, origin : Days, target : Days]
          /\ command = "train" => r.target - r.origin \in 1..horizon
          /\ command # "train" => r.target = r.origin + config.lead
    /\ horizon \in Nat
    /\ command = "train" => horizon <= config.days
    /\ command = "train" /\ stage = "assemble" => horizon < config.days
    /\ command # "train" /\ stage # "assemble" => rows = Assembled(priced, config.lead, 1)

\* The split is made once, of all the rows there will be.
SplitMade ==
    /\ stage \in {"assemble", "split"} => split = NoSplit
    /\ stage \in {"evaluate", "fit", "decide", "done"} => split # NoSplit
    /\ SplitChronological
    /\ split # NoSplit /\ command = "recommend" => split.test = Current(rows)

\* What train and recommend end with is their test rows.
OutputsAreTest ==
    /\ scored \in {{}, split.test} /\ recommendations \in {{}, split.test}
    /\ command # "train" => scored = {}
    /\ command # "recommend" => recommendations = {}
    /\ command = "train" /\ stage = "done" => scored = split.test
    /\ command = "recommend" /\ stage = "done" => recommendations = split.test

\* The test origins on the review cadence.
Reviewed == {r \in split.test : r.origin % config.review = 0}

\* The replay so far: what was learnt came from the fitted rows, and the rows
\* decided are the reviewed ones that are gone from the list and have history.
Replayed ==
    /\ stage \in {"assemble", "split", "evaluate"} => ReplayInit
    /\ stage = "fit" => todo = Reviewed /\ ml = {} /\ baseline = {} /\ results = NoResults
    /\ command # "simulate" => ReplayInit
    /\ command = "simulate" => todo \cup ml \subseteq Reviewed
    /\ learnt \in {{}, FittedOn(priced, Fitted)}
    /\ history \in {[s \in Series |-> {}], [s \in Series |-> HistoryOf(s)]}
    /\ ml = baseline
    /\ stage = "decide" \/ results # NoResults =>
          /\ history = [s \in Series |-> HistoryOf(s)]
          /\ ml = {r \in Reviewed \ todo : history[r.series] # {}}
    /\ results # NoResults => todo = {}

\* The inductive invariant.
HeldOutInv == Setup /\ RowsAhead /\ SplitMade /\ OutputsAreTest /\ Replayed

\* A self-joined row has sales on both its days, the horizon apart.
LEMMA AssembledRows ==
    ASSUME NEW ahead, NEW stride, NEW r \in Assembled(priced, ahead, stride)
    PROVE  /\ r \in [series : Series, origin : Days, target : Days]
           /\ r.target = r.origin + ahead
<1>1. PICK s \in Series :
        r \in {[series |-> s, origin |-> d, target |-> d + ahead] :
                   d \in {o \in SalesDays(priced, s) : /\ o + ahead \in SalesDays(priced, s)
                                                       /\ o % stride = 0}}
  BY DEF Assembled
<1>2. PICK d \in SalesDays(priced, s) :
        /\ d + ahead \in SalesDays(priced, s)
        /\ r = [series |-> s, origin |-> d, target |-> d + ahead]
  BY <1>1
<1> QED
  BY <1>2 DEF SalesDays

\* A run starts with nothing assembled.
LEMMA HeldOutInitial == Init => HeldOutInv
<1> SUFFICES ASSUME Init PROVE HeldOutInv
  OBVIOUS
<1>1. Setup
  BY DEF Init, RunInit, Setup
<1>2. RowsAhead
  BY BacktestAssumption DEF Init, RunInit, RowsAhead, BacktestInit, BacktestConfigs
<1>3. SplitMade
  BY DEF Init, RunInit, SplitMade, SplitChronological
<1>4. OutputsAreTest
  BY DEF Init, RunInit, OutputsAreTest, BacktestInit, RecommenderInit
<1>5. Replayed
  BY DEF Init, RunInit, Replayed, ReplayInit
<1> QED
  BY <1>1, <1>2, <1>3, <1>4, <1>5 DEF HeldOutInv

\* Assembling: the split is still to come.
LEMMA AssembleKeeps ==
    ASSUME HeldOutInv, Assemble \/ Stack,
           UNCHANGED <<recommenderVars, replayVars, scored>>, Assemble => UNCHANGED horizon
    PROVE  HeldOutInv'
<1> USE DEF runVars, inputVars, recommenderVars, replayVars
<1>0. /\ stage = "assemble" /\ split = NoSplit /\ ReplayInit
      /\ stage' \in {"assemble", "split", "failed"}
      /\ UNCHANGED <<command, priced, config, split, scored, recommendations>>
      /\ UNCHANGED <<todo, learnt, history, ml, baseline, results>>
  BY DEF HeldOutInv, SplitMade, Replayed, Assemble, Stack, Fail
<1>1. Setup'
  BY <1>0 DEF HeldOutInv, Setup
<1>2. RowsAhead'
  <2>1. CASE Assemble
    <3>1. /\ command # "train" /\ rows' = Assembled(priced, config.lead, 1)
          /\ UNCHANGED horizon
      BY <2>1 DEF Assemble
    <3>2. \A r \in rows' : /\ r \in [series : Series, origin : Days, target : Days]
                           /\ r.target = r.origin + config.lead
      BY <3>1, AssembledRows
    <3> QED
      BY <1>0, <3>1, <3>2 DEF HeldOutInv, RowsAhead
  <2>2. CASE Stack
    <3>1. /\ command = "train" /\ horizon \in Nat /\ horizon < config.days
          /\ horizon' = horizon + 1
          /\ rows' = rows \cup Assembled(priced, horizon + 1, config.stride)
          /\ stage' = IF horizon + 1 = config.days THEN "split" ELSE "assemble"
      BY <2>2, <1>0 DEF Stack, HeldOutInv, RowsAhead
    <3>2. config.days \in Nat
      BY <3>1, BacktestAssumption DEF HeldOutInv, Setup, BacktestConfigs
    <3>3. ASSUME NEW r \in rows' PROVE /\ r \in [series : Series, origin : Days, target : Days]
                                       /\ r.target - r.origin \in 1..horizon'
      <4>0. Days \subseteq Int
        BY DEF Days
      <4>1. CASE r \in rows
        <5>1. /\ r \in [series : Series, origin : Days, target : Days]
              /\ r.target - r.origin \in 1..horizon
          BY <3>1, <4>1 DEF HeldOutInv, RowsAhead
        <5> QED
          BY <3>1, <5>1
      <4>2. CASE r \in Assembled(priced, horizon + 1, config.stride)
        <5>1. /\ r \in [series : Series, origin : Days, target : Days]
              /\ r.target = r.origin + (horizon + 1)
          BY <4>2, AssembledRows
        <5>2. r.origin \in Int
          BY <4>0, <5>1
        <5>3. r.target - r.origin = horizon + 1
          BY <3>1, <5>1, <5>2
        <5> QED
          BY <3>1, <5>1, <5>3
      <4> QED
        BY <3>1, <4>1, <4>2
    <3> QED
      BY <1>0, <3>1, <3>2, <3>3 DEF RowsAhead
  <2> QED
    BY <2>1, <2>2
<1>3. SplitMade'
  BY <1>0 DEF SplitMade, SplitChronological
<1>4. OutputsAreTest'
  BY <1>0 DEF HeldOutInv, OutputsAreTest
<1>5. Replayed'
  BY <1>0 DEF Replayed, ReplayInit
<1> QED
  BY <1>1, <1>2, <1>3, <1>4, <1>5 DEF HeldOutInv

\* The origins of the rows are days, so the split lemmas apply to them.
LEMMA RowsOnDays == ASSUME HeldOutInv PROVE Origins(rows) \subseteq Days
BY DEF HeldOutInv, RowsAhead, Origins

\* Splitting: an ordered partition, or the run has failed.
LEMMA SplitKeeps ==
    ASSUME HeldOutInv, SplitRows \/ SplitTraining,
           UNCHANGED <<backtestVars, recommenderVars, replayVars>>
    PROVE  HeldOutInv'
<1> USE DEF runVars, inputVars, backtestVars, recommenderVars, replayVars
<1>0. /\ stage = "split" /\ split = NoSplit /\ ReplayInit
      /\ scored = {} /\ recommendations = {}
      /\ stage' \in {"evaluate", "failed"}
      /\ stage' = "failed" => split' = NoSplit
      /\ UNCHANGED <<command, priced, config, rows, horizon, scored, recommendations>>
      /\ UNCHANGED <<todo, learnt, history, ml, baseline, results>>
  BY DEF HeldOutInv, SplitMade, OutputsAreTest, NoSplit, Replayed, SplitRows, SplitTraining, Fail
<1>1. Setup'
  BY <1>0 DEF HeldOutInv, Setup
<1>2. RowsAhead'
  BY <1>0 DEF HeldOutInv, RowsAhead
<1>3. SplitMade'
  <2>1. CASE stage' = "failed"
    BY <1>0, <2>1 DEF SplitMade, SplitChronological
  <2>2. CASE SplitRows /\ stage' = "evaluate"
    <3>1. /\ command \in {"train", "simulate"}
          /\ CanSplit(rows, config.test, config.validation)
          /\ split' = Split(rows, config.test, config.validation)
      BY <2>2 DEF SplitRows, Fail
    <3>2. config.test \in Nat \ {0} /\ config.validation \in Nat \ {0}
      BY <3>1, SplitAssumption DEF HeldOutInv, Setup, BacktestConfigs, ReplayConfigs
    <3>3. /\ split'.train \cup split'.validation \cup split'.test = rows
          /\ split'.train # {} /\ split'.test # {}
          /\ Cardinality(Origins(split'.validation)) = config.validation
          /\ Cardinality(Origins(split'.test)) = config.test
          /\ \A r \in split'.train, q \in split'.validation : r.origin < q.origin
          /\ \A r \in split'.validation, q \in split'.test : r.origin < q.origin
      BY <3>1, <3>2, RowsOnDays, SplitPartitions
    <3> QED
      BY <1>0, <2>2, <3>1, <3>3 DEF SplitMade, SplitChronological, Fitted, Origins, NoSplit
  <2>3. CASE SplitTraining /\ stage' = "evaluate"
    <3> DEFINE start == NthLatest(Origins(Earlier(rows)), config.validation)
    <3>1. /\ command = "recommend" /\ CanSplit(Earlier(rows), config.validation, 0)
          /\ split' = [train      |-> Before(Earlier(rows), start),
                       validation |-> OnOrAfter(Earlier(rows), start),
                       test       |-> Current(rows)]
      BY <2>3 DEF SplitTraining, Fail
    <3>2. config.validation \in Nat \ {0}
      BY <3>1, SplitAssumption DEF HeldOutInv, Setup, RecommenderConfigs
    <3>3. /\ split'.train \cup split'.validation \cup split'.test = rows
          /\ split'.train # {} /\ split'.test # {}
          /\ Cardinality(Origins(split'.validation)) = config.validation
          /\ \A r \in split'.train, q \in split'.validation : r.origin < q.origin
          /\ \A r \in split'.validation, q \in split'.test : r.origin < q.origin
      BY <3>1, <3>2, RowsOnDays, TrainingSplitPartitions
    <3>4. split'.test = Current(rows)
      BY <3>1
    <3> HIDE DEF start
    <3> QED
      BY <1>0, <2>3, <3>1, <3>3, <3>4
      DEF SplitMade, SplitChronological, Fitted, Origins, NoSplit, Current
  <2> QED
    BY <1>0, <2>1, <2>2, <2>3
<1>4. OutputsAreTest'
  BY <1>0 DEF OutputsAreTest
<1>5. Replayed'
  BY <1>0 DEF Replayed, ReplayInit
<1> QED
  BY <1>1, <1>2, <1>3, <1>4, <1>5 DEF HeldOutInv

\* train and recommend put out their test rows.
LEMMA OutputKeeps ==
    ASSUME HeldOutInv, \/ Score /\ UNCHANGED recommenderVars
                       \/ Recommend /\ UNCHANGED backtestVars,
           UNCHANGED replayVars
    PROVE  HeldOutInv'
<1> USE DEF runVars, inputVars, backtestVars, recommenderVars, replayVars
<1>0. /\ stage = "evaluate" /\ stage' = "done"
      /\ \/ command = "train" /\ scored' = split.test /\ UNCHANGED recommendations
         \/ command = "recommend" /\ recommendations' = split.test /\ UNCHANGED scored
      /\ UNCHANGED <<command, priced, config, rows, split, horizon>>
      /\ UNCHANGED <<todo, learnt, history, ml, baseline, results>>
  BY DEF Score, Recommend
<1>1. Setup'
  BY <1>0 DEF HeldOutInv, Setup
<1>2. RowsAhead'
  BY <1>0 DEF HeldOutInv, RowsAhead
<1>3. SplitMade'
  BY <1>0 DEF HeldOutInv, SplitMade, SplitChronological, Fitted
<1>4. OutputsAreTest'
  BY <1>0 DEF HeldOutInv, OutputsAreTest
<1>5. Replayed'
  <2>1. ReplayInit
    BY <1>0 DEF HeldOutInv, Replayed
  <2> QED
    BY <1>0, <2>1 DEF Replayed, ReplayInit
<1> QED
  BY <1>1, <1>2, <1>3, <1>4, <1>5 DEF HeldOutInv

\* The steps of the replay leave the rows and the split alone.
LEMMA ReplayKeeps ==
    ASSUME HeldOutInv, Review \/ FitModels \/ Decide \/ Persist,
           UNCHANGED <<backtestVars, recommenderVars>>
    PROVE  HeldOutInv'
<1> USE DEF runVars, inputVars, backtestVars, recommenderVars, replayVars
<1>0. /\ command = "simulate" /\ stage \in {"evaluate", "fit", "decide"}
      /\ stage' \in {"fit", "decide", "done", "failed"}
      /\ UNCHANGED <<command, priced, config, rows, split, horizon, scored, recommendations>>
  BY DEF HeldOutInv, Setup, Review, FitModels, Decide, Persist, Fail
<1>1. Setup'
  BY <1>0 DEF HeldOutInv, Setup
<1>2. RowsAhead'
  BY <1>0 DEF HeldOutInv, RowsAhead
<1>3. SplitMade'
  BY <1>0 DEF HeldOutInv, SplitMade, SplitChronological, Fitted
<1>4. OutputsAreTest'
  BY <1>0 DEF HeldOutInv, OutputsAreTest
<1>5. Replayed'
  <2>0. /\ Fitted' = Fitted /\ Reviewed' = Reviewed
        /\ FittedOn(priced, Fitted)' = FittedOn(priced, Fitted)
        /\ [s \in Series |-> HistoryOf(s)]' = [s \in Series |-> HistoryOf(s)]
    BY <1>0 DEF Fitted, Reviewed, HistoryOf
  <2>r. Replayed
    BY DEF HeldOutInv
  <2>1. CASE Review
    <3>1. /\ ReplayInit /\ stage' \in {"fit", "failed"} /\ todo' = Reviewed
          /\ UNCHANGED <<learnt, history, ml, baseline, results>>
      BY <2>1, <2>r DEF Review, Replayed, Fail, Reviewed
    <3> QED
      BY <1>0, <2>0, <3>1 DEF Replayed, ReplayInit
  <2>2. CASE FitModels
    <3>1. /\ stage = "fit" /\ stage' = "decide" /\ todo = Reviewed
          /\ ml = {} /\ baseline = {} /\ results = NoResults
          /\ learnt' = FittedOn(priced, Fitted)
          /\ history' = [s \in Series |-> HistoryOf(s)]
          /\ UNCHANGED <<todo, ml, baseline, results>>
      BY <2>2, <2>r DEF FitModels, Replayed, Fitted
    <3> QED
      BY <1>0, <2>0, <3>1 DEF Replayed
  <2>3. CASE Decide
    <3>1. PICK r \in todo :
            /\ todo' = todo \ {r}
            /\ \/ history[r.series] = {} /\ UNCHANGED <<ml, baseline>>
               \/ /\ history[r.series] # {}
                  /\ ml' = ml \cup {r}
                  /\ baseline' = baseline \cup {r}
      BY <2>3 DEF Decide
    <3>2. /\ stage = "decide" /\ stage' = "decide" /\ r \in Reviewed
          /\ history = [s \in Series |-> HistoryOf(s)]
          /\ ml = {q \in Reviewed \ todo : history[q.series] # {}}
          /\ results = NoResults
          /\ UNCHANGED <<learnt, history, results>>
      BY <1>0, <2>3, <2>r, <3>1 DEF Decide, Replayed
    <3>3. ml' = {q \in Reviewed \ todo' : history[q.series] # {}}
      BY <3>1, <3>2
    <3>4. todo' \cup ml' \subseteq Reviewed /\ ml' = baseline'
      BY <1>0, <2>r, <3>1, <3>2 DEF Replayed
    <3> QED
      BY <1>0, <2>0, <2>r, <3>2, <3>3, <3>4 DEF Replayed
  <2>4. CASE Persist
    <3>1. /\ stage = "decide" /\ todo = {} /\ stage' \in {"done", "failed"}
          /\ UNCHANGED <<todo, learnt, history, ml, baseline>>
      BY <2>4 DEF Persist, Fail
    <3> QED
      BY <1>0, <2>0, <2>r, <3>1 DEF Replayed
  <2> QED
    BY <1>0, <2>1, <2>2, <2>3, <2>4
<1> QED
  BY <1>1, <1>2, <1>3, <1>4, <1>5 DEF HeldOutInv

\* Every step of a run keeps the invariant.
LEMMA HeldOutStep == HeldOutInv /\ [Next]_vars => HeldOutInv'
<1> SUFFICES ASSUME HeldOutInv, [Next]_vars PROVE HeldOutInv'
  OBVIOUS
<1>1. CASE Assemble /\ UNCHANGED <<backtestVars, recommenderVars, replayVars>>
  BY <1>1, AssembleKeeps DEF backtestVars
<1>2. CASE SplitRows /\ UNCHANGED <<backtestVars, recommenderVars, replayVars>>
  BY <1>2, SplitKeeps
<1>3. CASE Stack /\ UNCHANGED <<recommenderVars, replayVars>>
  <2>1. UNCHANGED scored /\ ~Assemble
    BY <1>3 DEF Stack, Assemble
  <2> QED
    BY <1>3, <2>1, AssembleKeeps
<1>4. CASE Score /\ UNCHANGED <<recommenderVars, replayVars>>
  BY <1>4, OutputKeeps
<1>5. CASE SplitTraining /\ UNCHANGED <<backtestVars, replayVars>>
  <2>1. UNCHANGED recommenderVars
    BY <1>5 DEF SplitTraining, recommenderVars
  <2> QED
    BY <1>5, <2>1, SplitKeeps
<1>6. CASE Recommend /\ UNCHANGED <<backtestVars, replayVars>>
  BY <1>6, OutputKeeps
<1>7. CASE (Review \/ FitModels \/ Decide \/ Persist)
           /\ UNCHANGED <<backtestVars, recommenderVars>>
  BY <1>7, ReplayKeeps
<1>8. CASE UNCHANGED vars
  <2> USE DEF vars, runVars, backtestVars, recommenderVars, replayVars
  <2>1. Setup' /\ RowsAhead' /\ OutputsAreTest'
    BY <1>8 DEF HeldOutInv, Setup, RowsAhead, OutputsAreTest
  <2>2. SplitMade'
    BY <1>8 DEF HeldOutInv, SplitMade, SplitChronological, Fitted
  <2>3. Replayed'
    BY <1>8 DEF HeldOutInv, Replayed, ReplayInit, Reviewed, Fitted, HistoryOf
  <2> QED
    BY <2>1, <2>2, <2>3 DEF HeldOutInv
<1> QED
  BY <1>1, <1>2, <1>3, <1>4, <1>5, <1>6, <1>7, <1>8 DEF Next

\* The invariant holds throughout every run.
LEMMA HeldOutCorrect == Spec => []HeldOutInv
BY HeldOutInitial, HeldOutStep, PTL DEF Spec

--------------------------------------------------------------------------------
(****************************************************************************)
(* What follows from it.                                                    *)
(****************************************************************************)

\* Features read strictly earlier days of the same series (ADR-008).
LEMMA FeaturesEarlier ==
    ASSUME NEW r, NEW cell \in FeatureCells(priced, r)
    PROVE  /\ cell[1] = r.series /\ cell[2] \in SalesDays(priced, r.series)
           /\ cell[2] < r.origin
BY DEF FeatureCells, FeatureDays, LagDays, WindowDays

\* Each cell a model has learnt from is of a fitted row: its target, or earlier
\* than its origin.
LEMMA LearntFromRows ==
    ASSUME NEW data, NEW cell \in FittedOn(priced, data)
    PROVE  \E r \in data : \/ cell = <<r.series, r.target>>
                           \/ cell[2] \in Days /\ cell[2] < r.origin
<1>1. CASE cell \in TargetCells(data)
  BY <1>1 DEF TargetCells
<1>2. CASE \E r \in data : cell \in FeatureCells(priced, r)
  BY <1>2, FeaturesEarlier DEF SalesDays
<1> QED
  BY <1>1, <1>2 DEF FittedOn

\* Rows carry days, whole or in parts.
LEMMA PartsOfRows ==
    ASSUME HeldOutInv
    PROVE  /\ Days \subseteq Int
           /\ \A r \in rows \cup Fitted \cup split.test :
                 /\ r \in rows /\ r \in [series : Series, origin : Days, target : Days]
                 /\ r.origin \in Int /\ r.target \in Int
<1>1. Days \subseteq Int
  BY DEF Days
<1>2. Fitted \cup split.test \subseteq rows
  BY DEF HeldOutInv, SplitMade, SplitChronological, Fitted, NoSplit
<1>3. \A r \in rows : r \in [series : Series, origin : Days, target : Days]
  BY DEF HeldOutInv, RowsAhead
<1> QED
  BY <1>1, <1>2, <1>3

\* Everything fitted on is earlier than everything tested on: the validation
\* part, between the two, is never empty.
LEMMA FittedBeforeTest ==
    ASSUME HeldOutInv, split # NoSplit, NEW r \in Fitted, NEW q \in split.test
    PROVE  r.origin < q.origin
<1>1. /\ Cardinality(Origins(split.validation)) = config.validation
      /\ \A p \in split.train, v \in split.validation : p.origin < v.origin
      /\ \A v \in split.validation, t \in split.test : v.origin < t.origin
  BY DEF HeldOutInv, SplitMade, SplitChronological
<1>2. config.validation \in Nat \ {0}
  BY SplitAssumption
  DEF HeldOutInv, Setup, BacktestConfigs, RecommenderConfigs, ReplayConfigs
<1>3. PICK v \in split.validation : TRUE
  <2>1. Origins(split.validation) # {}
    BY <1>1, <1>2, FS_EmptySet
  <2> QED
    BY <2>1 DEF Origins
<1>4. v \in Fitted
  BY <1>3 DEF Fitted
<1>5. r.origin \in Int /\ v.origin \in Int /\ q.origin \in Int
  BY <1>4, PartsOfRows
<1>6. CASE r \in split.train
  BY <1>1, <1>3, <1>5, <1>6
<1>7. CASE r \in split.validation
  BY <1>1, <1>7
<1> QED
  BY <1>6, <1>7 DEF Fitted

\* Nothing fitted on reaches the outcome of a test row of the longest lead.
LEMMA NothingReaches ==
    ASSUME HeldOutInv, split # NoSplit, NEW lead \in Nat \ {0},
           \A r \in rows : r.target - r.origin <= lead,
           NEW q \in split.test, q.target - q.origin = lead,
           NEW cell \in FittedOn(priced, Fitted)
    PROVE  cell[2] < q.target
<1>1. PICK r \in Fitted : \/ cell = <<r.series, r.target>>
                          \/ cell[2] \in Days /\ cell[2] < r.origin
  BY LearntFromRows
<1>2. /\ r \in rows /\ Days \subseteq Int
      /\ r.origin \in Int /\ r.target \in Int /\ q.origin \in Int /\ q.target \in Int
  BY PartsOfRows
<1>3. r.origin < q.origin
  BY FittedBeforeTest
<1>4. r.target - r.origin <= lead
  BY <1>2
<1>5. CASE cell = <<r.series, r.target>>
  <2>1. cell[2] = r.target
    BY <1>5
  <2>2. r.target < q.target
    BY <1>2, <1>3, <1>4
  <2> QED
    BY <2>1, <2>2
<1>6. CASE cell[2] \in Days /\ cell[2] < r.origin
  <2>1. cell[2] \in Int /\ cell[2] < r.origin
    BY <1>2, <1>6
  <2>2. r.origin < q.target
    BY <1>2, <1>3
  <2> QED
    BY <1>2, <2>1, <2>2
<1> QED
  BY <1>1, <1>5, <1>6

\* Nor do its own features.
LEMMA OwnFeaturesEarlier ==
    ASSUME HeldOutInv, NEW lead \in Nat \ {0},
           NEW q \in split.test, q.target - q.origin = lead,
           NEW cell \in FeatureCells(priced, q)
    PROVE  cell[2] < q.target
<1>1. cell[2] \in Int /\ cell[2] < q.origin
  BY FeaturesEarlier, PartsOfRows DEF SalesDays
<1>2. q.origin \in Int /\ q.target \in Int
  BY PartsOfRows
<1>3. q.origin < q.target
  BY <1>2
<1> QED
  BY <1>1, <1>2, <1>3

\* recommend and simulate assemble one horizon: every row is that far ahead.
LEMMA OneLead ==
    ASSUME HeldOutInv, command # "train"
    PROVE  /\ \A r \in rows \cup split.test : r.target - r.origin = config.lead
           /\ command = "recommend" => config.lead \in RequestedLeads
           /\ command = "simulate" => config.lead \in Nat \ {0}
<1>1. \A r \in rows : r.target = r.origin + config.lead
  BY DEF HeldOutInv, RowsAhead
<1>2. /\ command = "recommend" => config.lead \in RequestedLeads
      /\ command = "simulate" => config.lead \in Nat \ {0}
  BY ReplayAssumption DEF HeldOutInv, Setup, RecommenderConfigs, ReplayConfigs
<1>3. config.lead \in Int
  <2>1. command = "recommend" \/ command = "simulate"
    BY DEF HeldOutInv, Setup
  <2>2. CASE command = "recommend"
    BY <1>2, <2>2, RecommenderAssumption
  <2>3. CASE command = "simulate"
    BY <1>2, <2>3
  <2> QED
    BY <2>1, <2>2, <2>3
<1>4. \A r \in rows \cup split.test : r \in rows /\ r.origin \in Int
  BY PartsOfRows
<1> QED
  BY <1>1, <1>2, <1>3, <1>4

--------------------------------------------------------------------------------
(****************************************************************************)
(* The properties.                                                          *)
(****************************************************************************)

\* split.py:28-30, for any dataset: an ordered partition of the configured sizes
\* that loses no row and leaves something to train on and to judge by.
THEOREM SplitChronologicalThm == Spec => []SplitChronological
<1>1. HeldOutInv => SplitChronological
  BY DEF HeldOutInv, SplitMade
<1> QED
  BY <1>1, HeldOutCorrect, PTL

\* ADR-008, for any lags, windows and gaps.
THEOREM FeaturesPrecedeOriginThm == Spec => []FeaturesPrecedeOrigin
<1>1. FeaturesPrecedeOrigin
  BY FeaturesEarlier DEF FeaturesPrecedeOrigin
<1> QED
  BY <1>1, PTL

\* split.py:3-6, for any horizons stacked at any stride: what train scores is
\* later than what it fitted on, and at the longest horizon unseen.
THEOREM FullHorizonHeldOutThm == Spec => []FullHorizonHeldOut
<1>1. ASSUME HeldOutInv PROVE FullHorizonHeldOut
  <2>1. CASE scored = {}
    <3>1. ~(command = "train" /\ stage = "done")
      BY <1>1, <2>1 DEF HeldOutInv, OutputsAreTest, SplitMade, SplitChronological
    <3> QED
      BY <2>1, <3>1 DEF FullHorizonHeldOut
  <2>2. CASE scored # {}
    <3>1. command = "train" /\ scored = split.test /\ split # NoSplit
      BY <1>1, <2>2 DEF HeldOutInv, OutputsAreTest, NoSplit
    <3>2. \A r \in Fitted, q \in scored : r.origin < q.origin
      BY <1>1, <3>1, FittedBeforeTest
    <3>3. Fitted \cup scored = rows
      BY <1>1, <3>1 DEF HeldOutInv, SplitMade, SplitChronological
    <3>4. config.days \in Nat \ {0}
      BY <1>1, <3>1, BacktestAssumption DEF HeldOutInv, Setup, BacktestConfigs
    <3>5. \A r \in rows : r.target - r.origin <= config.days
      <4>1. horizon \in Nat /\ horizon <= config.days
        BY <1>1, <3>1 DEF HeldOutInv, RowsAhead
      <4>2. \A r \in rows : r.target - r.origin \in 1..horizon
        BY <1>1, <3>1 DEF HeldOutInv, RowsAhead
      <4> QED
        BY <3>4, <4>1, <4>2
    <3>6. ASSUME NEW q \in scored, q.target - q.origin = config.days,
                 NEW cell \in FittedOn(priced, Fitted)
          PROVE  cell[2] < q.target
      BY <1>1, <3>1, <3>4, <3>5, <3>6, NothingReaches
    <3> QED
      BY <3>2, <3>3, <3>6 DEF FullHorizonHeldOut
  <2> QED
    BY <2>1, <2>2
<1> QED
  BY <1>1, HeldOutCorrect, PTL

\* With the lead times that the configuration's validator admits, a
\* recommendation's actual_demand is unseen.
THEOREM ActualDemandUnseenThm ==
    ASSUME RequestedLeads \subseteq Nat \ {0}
    PROVE  Spec => []ActualDemandUnseen
<1>1. ASSUME HeldOutInv PROVE ActualDemandUnseen
  <2> SUFFICES ASSUME NEW q \in recommendations,
                      NEW cell \in FittedOn(priced, Fitted) \cup FeatureCells(priced, q)
               PROVE  cell[2] < q.target
    BY DEF ActualDemandUnseen
  <2>1. command = "recommend" /\ q \in split.test /\ split # NoSplit
    BY <1>1 DEF HeldOutInv, OutputsAreTest, NoSplit
  <2>2. config.lead \in Nat \ {0} /\ q.target - q.origin = config.lead
    BY <1>1, <2>1, OneLead
  <2>3. \A r \in rows : r.target - r.origin <= config.lead
    BY <1>1, <2>1, <2>2, OneLead
  <2> QED
    BY <1>1, <2>1, <2>2, <2>3, NothingReaches, OwnFeaturesEarlier
<1> QED
  BY <1>1, HeldOutCorrect, PTL

\* The outcomes the replayed policies are graded on are held out, for any
\* series, gaps and lead time.
THEOREM OutcomesHeldOutThm == Spec => []OutcomesHeldOut
<1>1. ASSUME HeldOutInv PROVE OutcomesHeldOut
  <2> SUFFICES ASSUME NEW q \in ml \cup baseline
               PROVE  /\ \A cell \in learnt \cup FeatureCells(priced, q) : cell[2] < q.target
                      /\ \A d \in history[q.series] : d < q.target
    BY DEF OutcomesHeldOut
  <2>1. command = "simulate" /\ q \in split.test /\ split # NoSplit
    BY <1>1 DEF HeldOutInv, Replayed, ReplayInit, Reviewed, NoSplit
  <2>2. config.lead \in Nat \ {0} /\ q.target - q.origin = config.lead
    BY <1>1, <2>1, OneLead
  <2>3. \A r \in rows : r.target - r.origin <= config.lead
    BY <1>1, <2>1, <2>2, OneLead
  <2>4. learnt \subseteq FittedOn(priced, Fitted)
    BY <1>1 DEF HeldOutInv, Replayed
  <2>5. \A cell \in learnt \cup FeatureCells(priced, q) : cell[2] < q.target
    BY <1>1, <2>1, <2>2, <2>3, <2>4, NothingReaches, OwnFeaturesEarlier
  <2>6. q.series \in Series
    BY <1>1, <2>1, PartsOfRows
  <2>7. ASSUME NEW d \in history[q.series] PROVE d < q.target
    <3>1. d \in HistoryOf(q.series)
      BY <1>1, <2>6 DEF HeldOutInv, Replayed
    <3>2. PICK r \in Fitted : d = r.target
      BY <3>1 DEF HistoryOf, Fitted
    <3>3. <<r.series, r.target>> \in FittedOn(priced, Fitted)
      BY DEF FittedOn, TargetCells
    <3> QED
      BY <1>1, <2>1, <2>2, <2>3, <3>2, <3>3, NothingReaches
  <2> QED
    BY <2>5, <2>7
<1> QED
  BY <1>1, HeldOutCorrect, PTL

\* Both policies have always decided the same rows, and in the end every reviewed
\* row of a series with a pre-test row (docs/adr/017).
THEOREM PoliciesPairedThm == Spec => []PoliciesPaired
<1>1. ASSUME HeldOutInv PROVE PoliciesPaired
  <2>1. ml = baseline
    BY <1>1 DEF HeldOutInv, Replayed
  <2>2. ASSUME results # NoResults
        PROVE  ml = {r \in split.test : /\ r.origin % config.review = 0
                                        /\ \E q \in Fitted : q.series = r.series}
    <3>1. /\ history = [s \in Series |-> HistoryOf(s)]
          /\ ml = {r \in Reviewed : history[r.series] # {}}
      BY <1>1, <2>2 DEF HeldOutInv, Replayed
    <3>2. \A r \in split.test : r.series \in Series
      BY <1>1, PartsOfRows
    <3>3. \A r \in split.test : history[r.series] # {} <=> \E q \in Fitted : q.series = r.series
      BY <3>1, <3>2 DEF HistoryOf, Fitted
    <3> QED
      BY <3>1, <3>3 DEF Reviewed
  <2> QED
    BY <2>1, <2>2 DEF PoliciesPaired
<1> QED
  BY <1>1, HeldOutCorrect, PTL

\* One recommendation per series with a known outcome on the latest origin of all
\* (docs/adr/016), for any lead time whatever.
THEOREM OneOriginForAllThm == Spec => []OneOriginForAll
<1>1. ASSUME HeldOutInv PROVE OneOriginForAll
  <2> SUFFICES ASSUME command = "recommend", stage = "done"
               PROVE  \E d \in Origins(rows) :
                        /\ \A r \in rows : r.origin <= d
                        /\ recommendations =
                             {[series |-> s, origin |-> d, target |-> d + config.lead] :
                                s \in {t \in Series : {d, d + config.lead}
                                                          \subseteq SalesDays(priced, t)}}
    BY DEF OneOriginForAll
  <2>1. /\ recommendations = Current(rows) /\ Current(rows) # {}
        /\ rows = Assembled(priced, config.lead, 1)
    BY <1>1 DEF HeldOutInv, OutputsAreTest, SplitMade, SplitChronological, RowsAhead
  <2>2. PICK top \in rows : \A q \in rows : q.origin <= top.origin
    BY <2>1 DEF Current
  <2> DEFINE d == top.origin
             Wanted == {[series |-> s, origin |-> d, target |-> d + config.lead] :
                          s \in {t \in Series : {d, d + config.lead} \subseteq SalesDays(priced, t)}}
  <2>3. \A r \in rows : r.origin \in Int
    BY <1>1, PartsOfRows
  <2>4. Current(rows) = {r \in rows : r.origin = d}
    BY <2>2, <2>3 DEF Current
  <2>5. \A e \in Days : e % 1 = 0
    BY DEF Days
  <2>6. \A r \in rows : \E s \in Series : \E e \in SalesDays(priced, s) :
            e + config.lead \in SalesDays(priced, s)
            /\ r = [series |-> s, origin |-> e, target |-> e + config.lead]
    BY <2>1 DEF Assembled
  <2>7. \A s \in Series : \A e \in SalesDays(priced, s) :
            e + config.lead \in SalesDays(priced, s) =>
                [series |-> s, origin |-> e, target |-> e + config.lead] \in rows
    BY <2>1, <2>5 DEF Assembled, SalesDays
  <2>8. Current(rows) \subseteq Wanted
    BY <2>4, <2>6
  <2>9. Wanted \subseteq Current(rows)
    BY <2>4, <2>7
  <2>10. d \in Origins(rows)
    BY DEF Origins
  <2> QED
    BY <2>1, <2>2, <2>8, <2>9, <2>10
<1> QED
  BY <1>1, HeldOutCorrect, PTL

\* Rows are rows of the snapshot and learnt cells are cells of it.
THEOREM TypeCorrect == Spec => []TypeOK
<1>1. ASSUME HeldOutInv PROVE TypeOK
  <2>1. /\ priced \in Pricings /\ horizon \in Nat
        /\ config \in BacktestConfigs \cup RecommenderConfigs \cup ReplayConfigs
        /\ stage \in {"assemble", "split", "evaluate", "fit", "decide", "done", "failed"}
    BY <1>1 DEF HeldOutInv, Setup, RowsAhead
  <2>2. \A r \in rows \cup Fitted \cup split.test :
           r \in [series : Series, origin : Days, target : Days]
    BY <1>1, PartsOfRows
  <2>3. scored \subseteq split.test /\ recommendations \subseteq split.test
    BY <1>1 DEF HeldOutInv, OutputsAreTest
  <2>4. todo \subseteq split.test /\ ml \subseteq split.test /\ baseline \subseteq split.test
    BY <1>1 DEF HeldOutInv, Replayed, ReplayInit, Reviewed
  <2>5. FittedOn(priced, Fitted) \subseteq Series \X Days
    <3>1. ASSUME NEW r \in Fitted, NEW cell \in FeatureCells(priced, r)
          PROVE  cell \in Series \X Days
      <4>1. r.series \in Series
        BY <2>2
      <4>2. PICK e \in FeatureDays(SalesDays(priced, r.series), r.origin) : cell = <<r.series, e>>
        BY <3>1 DEF FeatureCells
      <4>3. cell[2] \in SalesDays(priced, r.series)
        BY <3>1, FeaturesEarlier
      <4> QED
        BY <4>1, <4>2, <4>3 DEF SalesDays
    <3>2. TargetCells(Fitted) \subseteq Series \X Days
      BY <2>2 DEF TargetCells
    <3> QED
      BY <3>1, <3>2 DEF FittedOn
  <2>6. learnt \subseteq Series \X Days
    BY <1>1, <2>5 DEF HeldOutInv, Replayed
  <2>7. \A s \in Series : HistoryOf(s) \subseteq Days
    BY <2>2 DEF HistoryOf, Fitted
  <2>8. history \in [Series -> SUBSET Days]
    BY <1>1, <2>7 DEF HeldOutInv, Replayed
  <2> QED
    BY <2>1, <2>2, <2>3, <2>4, <2>6, <2>8 DEF TypeOK, Fitted
<1> QED
  BY <1>1, HeldOutCorrect, PTL

================================================================================
