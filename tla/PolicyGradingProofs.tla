-------------------------- MODULE PolicyGradingProofs --------------------------
(****************************************************************************)
(* That rearranging only sorts, for every list of quantiles and every       *)
(* prediction, and never makes a forecast worse; and that every decision of *)
(* both policies is graded by the pinball loss at the critical fractile,    *)
(* for every cost configuration that loads, every demand, price, lead time  *)
(* and order, and any number of rows.                                       *)
(****************************************************************************)
EXTENDS PolicyGrading, NewsvendorProofs

--------------------------------------------------------------------------------
(****************************************************************************)
(* Finite sets of integers.                                                 *)
(****************************************************************************)

\* A non-empty finite set of integers has a least element: the one with the fewest
\* elements below it.
LEMMA LeastElement ==
    ASSUME NEW S \in SUBSET Int, IsFiniteSet(S), S # {}
    PROVE  \E x \in S : \A y \in S : x <= y
<1> DEFINE below(x) == {y \in S : y <= x}
           T == {Cardinality(below(x)) : x \in S}
<1>1. \A x \in S : IsFiniteSet(below(x)) /\ Cardinality(below(x)) \in Nat
  BY FS_Subset, FS_CardinalityType
<1>2. T \in SUBSET Nat /\ T # {}
  BY <1>1
<1>3. PICK t \in T : \A u \in T : t <= u
  BY <1>2, LeastNat
<1>4. PICK x \in S : t = Cardinality(below(x))
  OBVIOUS
<1>5. ASSUME NEW y \in S, y < x PROVE FALSE
  <2> HIDE DEF T
  <2>0. /\ y \in Int /\ x \in Int /\ ~(x <= y) /\ x <= x
        /\ \A z \in Int : z <= y => z <= x
    BY <1>5
  <2>1. below(y) \in SUBSET below(x) /\ x \in below(x) /\ x \notin below(y)
    BY <2>0
  <2>2. Cardinality(below(y)) <= Cardinality(below(x)) /\ below(y) # below(x)
    BY <1>1, <2>1, FS_Subset
  <2>3. Cardinality(below(y)) # Cardinality(below(x))
    BY <1>1, <2>1, <2>2, FS_Subset
  <2>4. t <= Cardinality(below(y))
    BY <1>3 DEF T
  <2> HIDE DEF below
  <2> QED
    BY <1>1, <1>4, <2>2, <2>3, <2>4
<1> HIDE DEF T, below
<1>6. \A y \in S : y \in Int /\ x \in Int /\ ~(y < x)
  BY <1>5
<1> QED
  BY <1>6

\* Min returns it.
LEMMA MinIs ==
    ASSUME NEW S \in SUBSET Int, IsFiniteSet(S), S # {}
    PROVE  Min(S) \in S /\ \A y \in S : Min(S) <= y
BY LeastElement DEF Min

\* A non-empty finite set of integers has a greatest element, too.
LEMMA GreatestElement ==
    ASSUME NEW S \in SUBSET Int, IsFiniteSet(S), S # {}
    PROVE  \E x \in S : \A y \in S : y <= x
<1> DEFINE f == [x \in S |-> 0 - x]
           T == {f[x] : x \in S}
<1>1. T \in SUBSET Int /\ T # {}
  <2>1. \A x \in S : f[x] = 0 - x /\ f[x] \in Int
    OBVIOUS
  <2> HIDE DEF f
  <2> QED
    BY <2>1
<1>2. f \in Surjection(S, T)
  BY DEF Surjection
<1>3. IsFiniteSet(T)
  BY <1>2, FS_Surjection
<1>4. PICK t \in T : \A u \in T : t <= u
  BY <1>1, <1>3, LeastElement
<1>5. PICK x \in S : t = 0 - x
  OBVIOUS
<1>6. \A y \in S : 0 - x <= 0 - y
  BY <1>4, <1>5
<1> QED
  BY <1>6

\* The values a function takes on a finite set are finite in number.
LEMMA FiniteValues ==
    ASSUME NEW f, IsFiniteSet(DOMAIN f)
    PROVE  IsFiniteSet({f[x] : x \in DOMAIN f})
<1> DEFINE g == [x \in DOMAIN f |-> f[x]]
           T == {f[x] : x \in DOMAIN f}
<1>1. g \in Surjection(DOMAIN f, T)
  BY DEF Surjection
<1> QED
  BY <1>1, FS_Surjection

--------------------------------------------------------------------------------
(****************************************************************************)
(* Rearranging is sorting (core/metrics.py, enforce_monotonic_quantiles).   *)
(****************************************************************************)

\* Predictions for finitely many quantiles.
Forecasts(f) ==
    /\ IsFiniteSet(DOMAIN f) /\ DOMAIN f \subseteq Int
    /\ \A q \in DOMAIN f : f[q] \in Int

\* The quantiles whose prediction is below v.
Below(f, v) == {p \in DOMAIN f : f[p] < v}

\* Counting the quantiles up to one, or the predictions up to a value, gives a
\* number that grows with it.
LEMMA Counts ==
    ASSUME NEW f, Forecasts(f)
    PROVE  /\ \A v : AtMost(f, v) \in Nat
           /\ \A u, v \in Int : u <= v => AtMost(f, u) <= AtMost(f, v)
           /\ \A q \in DOMAIN f : Rank(f, q) \in 1..Cardinality(DOMAIN f)
           /\ \A p, q \in DOMAIN f : p < q => Rank(f, p) < Rank(f, q)
           /\ Cardinality(DOMAIN f) \in Nat
<1> DEFINE D == DOMAIN f
           low(q) == {p \in D : p <= q}
           under(v) == {p \in D : f[p] <= v}
<1>1. IsFiniteSet(D) /\ D \subseteq Int /\ \A q \in D : f[q] \in Int
  BY DEF Forecasts
<1>2. Cardinality(D) \in Nat
  BY <1>1, FS_CardinalityType
<1>3. /\ \A q : IsFiniteSet(low(q)) /\ Cardinality(low(q)) \in Nat
                /\ Cardinality(low(q)) <= Cardinality(D)
      /\ \A v : IsFiniteSet(under(v)) /\ Cardinality(under(v)) \in Nat
  <2>1. \A T \in SUBSET D : /\ IsFiniteSet(T) /\ Cardinality(T) \in Nat
                            /\ Cardinality(T) <= Cardinality(D)
    BY <1>1, FS_Subset, FS_CardinalityType
  <2>2. (\A q : low(q) \in SUBSET D) /\ (\A v : under(v) \in SUBSET D)
    OBVIOUS
  <2> QED
    BY <2>1, <2>2
<1>4. ASSUME NEW u \in Int, NEW v \in Int, u <= v PROVE AtMost(f, u) <= AtMost(f, v)
  <2>1. under(u) \in SUBSET under(v)
    BY <1>1, <1>4
  <2> QED
    BY <1>3, <2>1, FS_Subset DEF AtMost
<1>5. ASSUME NEW q \in D PROVE Cardinality(low(q)) # 0
  <2>1. q \in low(q)
    BY <1>1
  <2> QED
    BY <1>3, <2>1, FS_EmptySet
<1>6. ASSUME NEW p \in D, NEW q \in D, p < q PROVE Cardinality(low(p)) < Cardinality(low(q))
  <2>1. low(p) \in SUBSET low(q) /\ q \in low(q) /\ q \notin low(p)
    BY <1>1, <1>6
  <2>2. Cardinality(low(p)) <= Cardinality(low(q)) /\ low(p) # low(q)
    BY <1>3, <2>1, FS_Subset
  <2>3. Cardinality(low(p)) # Cardinality(low(q))
    BY <1>3, <2>1, <2>2, FS_Subset
  <2> HIDE DEF low
  <2> QED
    BY <1>3, <2>2, <2>3
<1>7. \A q \in D : Rank(f, q) = Cardinality(low(q))
  BY DEF Rank
<1>8. \A v : AtMost(f, v) = Cardinality(under(v))
  BY DEF AtMost
<1> HIDE DEF low, under
<1> QED
  BY <1>2, <1>3, <1>4, <1>5, <1>6, <1>7, <1>8

\* Each rank from 1 to the number of quantiles belongs to one of them.
LEMMA RanksAll ==
    ASSUME NEW f, Forecasts(f), NEW k \in 1..Cardinality(DOMAIN f)
    PROVE  \E q \in DOMAIN f : Rank(f, q) = k
<1> DEFINE D == DOMAIN f
           n == Cardinality(D)
           r == [q \in D |-> Rank(f, q)]
<1>1. n \in Nat /\ IsFiniteSet(D) /\ D \subseteq Int
  BY Counts DEF Forecasts
<1>2. IsFiniteSet(1..n) /\ Cardinality(1..n) = n
  <2>1. IsFiniteSet(1..n) /\ Cardinality(1..n) = IF 1 > n THEN 0 ELSE n - 1 + 1
    BY <1>1, FS_Interval
  <2> QED
    BY <1>1, <2>1
<1>3. r \in Injection(D, 1..n)
  <2>1. r \in [D -> 1..n]
    BY Counts
  <2>2. ASSUME NEW p \in D, NEW q \in D, p # q PROVE r[p] # r[q]
    <3>1. p < q \/ q < p
      BY <1>1, <2>2
    <3>2. \A x, y \in D : x < y => Rank(f, x) < Rank(f, y)
      BY Counts
    <3>3. Rank(f, p) \in Int /\ Rank(f, q) \in Int
      BY <1>1, Counts
    <3> QED
      BY <3>1, <3>2, <3>3
  <2> QED
    BY <2>1, <2>2 DEF Injection, IsInjective
<1>4. r \in Surjection(D, 1..n)
  BY <1>1, <1>2, <1>3, FS_Injection
<1>5. PICK q \in D : r[q] = k
  BY <1>4 DEF Surjection
<1> QED
  BY <1>5

\* The values that may be handed to quantile q: enough predictions are no larger.
Candidates(f, q) == {v \in {f[p] : p \in DOMAIN f} : AtMost(f, v) >= Rank(f, q)}

\* The rearranged prediction of q is the smallest of them.
LEMMA RearrangedIs ==
    ASSUME NEW f, Forecasts(f), NEW q \in DOMAIN f
    PROVE  /\ Rearranged(f)[q] \in Candidates(f, q)
           /\ \A v \in Candidates(f, q) : Rearranged(f)[q] <= v
           /\ Candidates(f, q) \subseteq Int
<1> DEFINE D == DOMAIN f
           V == {f[p] : p \in D}
<1>1. IsFiniteSet(D) /\ \A p \in D : f[p] \in Int
  BY DEF Forecasts
<1>2. V \in SUBSET Int /\ IsFiniteSet(V) /\ V # {}
  BY <1>1, FiniteValues
<1>3. PICK top \in V : \A v \in V : v <= top
  BY <1>2, GreatestElement
<1>4. AtMost(f, top) = Cardinality(D)
  <2>1. {p \in D : f[p] <= top} = D
    BY <1>3
  <2> QED
    BY <2>1 DEF AtMost
<1>5. top \in Candidates(f, q)
  <2>1. Rank(f, q) \in 1..Cardinality(D) /\ Cardinality(D) \in Nat
    BY Counts
  <2>2. AtMost(f, top) >= Rank(f, q)
    BY <1>4, <2>1
  <2> QED
    BY <2>2 DEF Candidates
<1>6. Candidates(f, q) \in SUBSET V
  BY DEF Candidates
<1>7. Candidates(f, q) \in SUBSET Int /\ IsFiniteSet(Candidates(f, q))
  BY <1>2, <1>6, FS_Subset
<1>8. Rearranged(f)[q] = Min(Candidates(f, q))
  BY DEF Rearranged, Candidates
<1> QED
  BY <1>5, <1>7, <1>8, MinIs

\* Quantile q gets v if its rank lies beyond the predictions below v and within those
\* up to v, and only then.
LEMMA GetsValue ==
    ASSUME NEW f, Forecasts(f), NEW q \in DOMAIN f, NEW v \in {f[p] : p \in DOMAIN f}
    PROVE  Rearranged(f)[q] = v
             <=> /\ Cardinality(Below(f, v)) < Rank(f, q)
                 /\ Rank(f, q) <= AtMost(f, v)
<1> DEFINE D == DOMAIN f
           V == {f[p] : p \in D}
           b == Cardinality(Below(f, v))
           g == Rearranged(f)[q]
<1>1. IsFiniteSet(D) /\ v \in Int /\ \A p \in D : f[p] \in Int
  BY DEF Forecasts
<1>2. Below(f, v) \in SUBSET D
  BY DEF Below
<1>3. IsFiniteSet(Below(f, v)) /\ b \in Nat
  BY <1>1, <1>2, FS_Subset, FS_CardinalityType
<1>4. /\ Rank(f, q) \in Nat /\ AtMost(f, v) \in Nat
      /\ \A u : AtMost(f, u) \in Nat
  BY Counts
<1>5. /\ g \in Candidates(f, q) /\ g \in Int /\ g \in V
      /\ \A u \in Candidates(f, q) : g <= u
  BY RearrangedIs DEF Candidates
<1>6. ASSUME b < Rank(f, q), Rank(f, q) <= AtMost(f, v) PROVE g = v
  <2>1. v \in Candidates(f, q)
    BY <1>4, <1>6 DEF Candidates
  <2>2. ASSUME g < v PROVE FALSE
    <3>1. {p \in D : f[p] <= g} \in SUBSET Below(f, v)
      BY <1>1, <1>5, <2>2 DEF Below
    <3>2. AtMost(f, g) <= b
      BY <1>3, <3>1, FS_Subset DEF AtMost
    <3>3. AtMost(f, g) >= Rank(f, q)
      BY <1>5 DEF Candidates
    <3> HIDE DEF b, g
    <3> QED
      BY <1>3, <1>4, <1>6, <3>2, <3>3
  <2>3. g <= v
    BY <1>5, <2>1
  <2> HIDE DEF g
  <2> QED
    BY <1>1, <1>5, <2>2, <2>3
<1>7. ASSUME g = v PROVE b < Rank(f, q) /\ Rank(f, q) <= AtMost(f, v)
  <2>1. Rank(f, q) <= AtMost(f, v)
    BY <1>4, <1>5, <1>7 DEF Candidates
  <2>2. ASSUME Rank(f, q) <= b PROVE FALSE
    <3> DEFINE U == {f[p] : p \in Below(f, v)}
    <3>1. Below(f, v) # {}
      <4>1. Rank(f, q) # 0
        BY Counts
      <4>2. b # 0
        BY <1>3, <1>4, <2>2, <4>1
      <4> QED
        BY <4>2, FS_EmptySet
    <3>2. U \in SUBSET V /\ U # {}
      BY <1>2, <3>1
    <3>3. IsFiniteSet(V)
      BY <1>1, FiniteValues
    <3>4. U \in SUBSET Int /\ IsFiniteSet(U)
      BY <1>1, <3>2, <3>3, FS_Subset
    <3>5. PICK u \in U : \A w \in U : w <= u
      BY <3>2, <3>4, GreatestElement
    <3>6. Below(f, v) \in SUBSET {p \in D : f[p] <= u}
      BY <1>2, <3>5
    <3>7. IsFiniteSet({p \in D : f[p] <= u})
      BY <1>1, FS_Subset
    <3>8. b <= AtMost(f, u)
      BY <3>6, <3>7, FS_Subset DEF AtMost
    <3>9. u \in Candidates(f, q)
      BY <1>3, <1>4, <2>2, <3>2, <3>8 DEF Candidates
    <3>10. u < v
      BY <3>5 DEF Below
    <3>11. g <= u
      BY <1>5, <3>9
    <3> QED
      BY <1>1, <1>7, <3>4, <3>10, <3>11
  <2> HIDE DEF b
  <2> QED
    BY <1>3, <1>4, <2>1, <2>2
<1> QED
  BY <1>6, <1>7

\* The quantiles that get v are as many as had it.
LEMMA SameNumber ==
    ASSUME NEW f, Forecasts(f), NEW v \in {f[p] : p \in DOMAIN f}
    PROVE  Cardinality({q \in DOMAIN f : Rearranged(f)[q] = v})
             = Cardinality({q \in DOMAIN f : f[q] = v})
<1> DEFINE D == DOMAIN f
           b == Cardinality(Below(f, v))
           a == AtMost(f, v)
           Had == {q \in D : f[q] = v}
           Get == {q \in D : Rearranged(f)[q] = v}
<1>1. IsFiniteSet(D) /\ D \subseteq Int /\ v \in Int /\ \A p \in D : f[p] \in Int
  BY DEF Forecasts
<1>2. Below(f, v) \in SUBSET D /\ Had \in SUBSET D /\ Get \in SUBSET D
  BY DEF Below
<1>3. IsFiniteSet(Below(f, v)) /\ IsFiniteSet(Had) /\ IsFiniteSet(Get)
  BY <1>1, <1>2, FS_Subset
<1>4. b \in Nat /\ Cardinality(Had) \in Nat
  BY <1>3, FS_CardinalityType
<1>5. a = b + Cardinality(Had)
  <2>1. Below(f, v) \cap Had = {}
    BY <1>1 DEF Below
  <2>2. {p \in D : f[p] <= v} = Below(f, v) \cup Had
    BY <1>1 DEF Below
  <2>3. Cardinality(Below(f, v) \cap Had) = 0
    BY <2>1, FS_EmptySet
  <2>4. Cardinality(Below(f, v) \cup Had)
          = b + Cardinality(Had) - Cardinality(Below(f, v) \cap Had)
    BY <1>3, FS_Union
  <2>5. a = Cardinality(Below(f, v) \cup Had)
    BY <2>2 DEF AtMost
  <2>6. Cardinality(Had) \in Nat /\ b \in Nat
    BY <1>4
  <2> HIDE DEF a, b, Had
  <2> QED
    BY <2>3, <2>4, <2>5, <2>6
<1>6. a <= Cardinality(D) /\ Cardinality(D) \in Nat
  <2>1. {p \in D : f[p] <= v} \in SUBSET D
    OBVIOUS
  <2> QED
    BY <1>1, <2>1, FS_Subset, FS_CardinalityType DEF AtMost
<1>7. \A q \in D : q \in Get <=> Rank(f, q) \in (b + 1)..a
  <2> SUFFICES ASSUME NEW q \in D PROVE q \in Get <=> Rank(f, q) \in (b + 1)..a
    OBVIOUS
  <2>1. q \in Get <=> b < Rank(f, q) /\ Rank(f, q) <= a
    BY GetsValue
  <2>2. Rank(f, q) \in Nat /\ a \in Nat
    BY Counts
  <2> HIDE DEF Get, b, a
  <2> QED
    BY <1>4, <2>1, <2>2
<1> DEFINE r == [q \in Get |-> Rank(f, q)]
<1>8. r \in Bijection(Get, (b + 1)..a)
  <2>1. r \in [Get -> (b + 1)..a]
    BY <1>2, <1>7
  <2>2. ASSUME NEW p \in Get, NEW q \in Get, p # q PROVE r[p] # r[q]
    <3>1. p \in D /\ q \in D /\ (p < q \/ q < p)
      BY <1>1, <1>2, <2>2
    <3>2. \A x, y \in D : x < y => Rank(f, x) < Rank(f, y)
      BY Counts
    <3>3. Rank(f, p) \in Int /\ Rank(f, q) \in Int
      BY <1>6, <3>1, Counts
    <3> QED
      BY <3>1, <3>2, <3>3
  <2>3. ASSUME NEW k \in (b + 1)..a PROVE \E q \in Get : r[q] = k
    <3>1. k \in 1..Cardinality(D)
      <4> HIDE DEF b, Had
      <4> QED
        BY <1>4, <1>5, <1>6
    <3>2. PICK q \in D : Rank(f, q) = k
      BY <3>1, RanksAll
    <3> QED
      BY <1>7, <3>2
  <2> HIDE DEF Get
  <2> QED
    BY <2>1, <2>2, <2>3 DEF Bijection, Injection, Surjection, IsInjective
<1>9. Cardinality((b + 1)..a) = Cardinality(Get)
  <2>1. ExistsBijection(Get, (b + 1)..a)
    BY <1>8 DEF ExistsBijection
  <2> QED
    BY <1>3, <2>1, FS_Bijection
<1>10. Cardinality((b + 1)..a) = Cardinality(Had)
  <2> HIDE DEF b, a, Had
  <2>1. b + 1 \in Int /\ a \in Int
    BY <1>4, <1>5
  <2>2. Cardinality((b + 1)..a) = IF b + 1 > a THEN 0 ELSE a - (b + 1) + 1
    BY <2>1, FS_Interval
  <2> QED
    BY <1>4, <1>5, <2>2
<1> QED
  BY <1>9, <1>10

\* Rearranging sorts: no two quantiles cross any more, and every value is handed out
\* as often as it was predicted (metrics.py:54-71).
THEOREM RearrangedSorts ==
    ASSUME NEW f, Forecasts(f)
    PROVE  /\ \A p, q \in DOMAIN f : p <= q => Rearranged(f)[p] <= Rearranged(f)[q]
           /\ \A v : Cardinality({q \in DOMAIN f : f[q] = v})
                       = Cardinality({q \in DOMAIN f : Rearranged(f)[q] = v})
<1>1. ASSUME NEW p \in DOMAIN f, NEW q \in DOMAIN f, p <= q
      PROVE  Rearranged(f)[p] <= Rearranged(f)[q]
  <2>1. Rank(f, p) <= Rank(f, q)
    <3>1. \A x \in DOMAIN f : x \in Int /\ Rank(f, x) \in Int
      BY Counts DEF Forecasts
    <3>2. p < q => Rank(f, p) < Rank(f, q)
      BY Counts
    <3> QED
      BY <1>1, <3>1, <3>2
  <2>2. Candidates(f, q) \subseteq Candidates(f, p)
    <3>1. (\A v : AtMost(f, v) \in Int) /\ Rank(f, p) \in Int /\ Rank(f, q) \in Int
      BY Counts
    <3> QED
      BY <2>1, <3>1 DEF Candidates
  <2> QED
    BY <2>2, RearrangedIs
<1>2. ASSUME NEW v
      PROVE  Cardinality({q \in DOMAIN f : f[q] = v})
               = Cardinality({q \in DOMAIN f : Rearranged(f)[q] = v})
  <2>1. CASE v \in {f[p] : p \in DOMAIN f}
    BY <2>1, SameNumber
  <2>2. CASE v \notin {f[p] : p \in DOMAIN f}
    <3>1. {q \in DOMAIN f : f[q] = v} = {}
      BY <2>2
    <3>2. {q \in DOMAIN f : Rearranged(f)[q] = v} = {}
      BY <2>2, RearrangedIs DEF Candidates
    <3> QED
      BY <3>1, <3>2
  <2> QED
    BY <2>1, <2>2
<1> QED
  BY <1>1, <1>2

--------------------------------------------------------------------------------
(****************************************************************************)
(* Rearranging never hurts (core/metrics.py, enforce_monotonic_quantiles).  *)
(****************************************************************************)

\* How many of the quantiles in s are predicted v, and what the predictions of the
\* quantiles in s lose when d is demanded.
Tally(h, v, s) == SumFunctionOnSet([q \in s |-> IF h[q] = v THEN 1 ELSE 0], s)
LossOf(h, m, d, s) == SumFunctionOnSet([q \in s |-> Pinball(<<q, m>>, d, h[q])], s)

\* A pinball loss is an integer (metrics.py:19-27).
LEMMA PinballType ==
    ASSUME NEW n \in Int, NEW m \in Int, NEW d \in Int, NEW p \in Int
    PROVE  Pinball(<<n, m>>, d, p) \in Int
<1> DEFINE x == d - p
<1>1. x \in Int /\ n - m \in Int
  OBVIOUS
<1> HIDE DEF x
<1>2. n * x \in Int /\ (n - m) * x \in Int
  BY <1>1
<1>3. Pinball(<<n, m>>, d, p) = IF n * x >= (n - m) * x THEN n * x ELSE (n - m) * x
  BY DEF Pinball, x
<1> QED
  BY <1>2, <1>3

\* A tally is a count.
LEMMA TallyCounts ==
    ASSUME NEW s, IsFiniteSet(s), NEW h, NEW v
    PROVE  /\ Tally(h, v, s) = Cardinality({q \in s : h[q] = v})
           /\ Tally(h, v, s) \in Int
<1> DEFINE T == {q \in s : h[q] = v}
           f == [q \in s |-> IF h[q] = v THEN 1 ELSE 0]
<1>1. T \in SUBSET s
  OBVIOUS
<1>2. Cardinality(s) \in Nat /\ Cardinality(T) \in Nat
  BY <1>1, FS_Subset, FS_CardinalityType
<1>3. \A q \in s : f[q] = IF q \in T THEN 1 ELSE 0
  OBVIOUS
<1>4. Tally(h, v, s) = SumFunctionOnSet(f, s)
  BY DEF Tally
<1> HIDE DEF T, f
<1>5. SumFunctionOnSet(f, s) = 1 * Cardinality(T) + 0 * (Cardinality(s) - Cardinality(T))
  BY <1>1, <1>3, SumCounts
<1>6. Tally(h, v, s) = Cardinality(T)
  BY <1>2, <1>4, <1>5
<1> QED
  BY <1>2, <1>6 DEF T

\* The terms b are the terms a without the one of t and with another one for r.
Exchanged(a, b, s, t, r) ==
    /\ IsFiniteSet(s) /\ {t, r} \subseteq s
    /\ \A q \in s : a[q] \in Int
    /\ \A q \in s \ {t} : b[q] \in Int /\ (q # r => b[q] = a[q])

\* Then the sums differ by these terms.
LEMMA SumExchange ==
    ASSUME NEW s, NEW t, NEW r, NEW a, NEW b, Exchanged(a, b, s, t, r), NEW u, u = s \ {t}
    PROVE  /\ SumFunctionOnSet(a, s) \in Int /\ SumFunctionOnSet(b, u) \in Int
           /\ r = t => SumFunctionOnSet(a, s) = a[t] + SumFunctionOnSet(b, u)
           /\ r # t => SumFunctionOnSet(a, s) + b[r] = a[t] + a[r] + SumFunctionOnSet(b, u)
<1> USE DEF Exchanged
<1>1. IsFiniteSet(u) /\ u \subseteq s
  BY FS_Subset
<1>2. SumFunctionOnSet(a, s) \in Int /\ SumFunctionOnSet(b, u) \in Int /\ SumFunctionOnSet(a, u) \in Int
  BY <1>1, SumRecursion
<1>3. SumFunctionOnSet(a, s) = a[t] + SumFunctionOnSet(a, u)
  BY SumRemove
<1>4. ASSUME r = t PROVE SumFunctionOnSet(b, u) = SumFunctionOnSet(a, u)
  <2>1. \A q \in u : a[q] \in Int /\ a[q] = b[q]
    BY <1>1, <1>4
  <2> QED
    BY <1>1, <2>1, SumSame
<1>5. ASSUME r # t
      PROVE  SumFunctionOnSet(b, u) + a[r] = SumFunctionOnSet(a, u) + b[r]
  <2> DEFINE w == u \ {r}
  <2>1. r \in u /\ IsFiniteSet(w) /\ w \subseteq s /\ w \subseteq u
    BY <1>1, <1>5, FS_Subset
  <2>2. \A q \in w : a[q] \in Int /\ a[q] = b[q]
    BY <2>1
  <2>3. SumFunctionOnSet(a, u) = a[r] + SumFunctionOnSet(a, w)
    BY <1>1, <2>1, SumRemove
  <2>4. SumFunctionOnSet(b, u) = b[r] + SumFunctionOnSet(b, w)
    BY <1>1, <2>1, SumRemove
  <2>5. SumFunctionOnSet(a, w) = SumFunctionOnSet(b, w) /\ SumFunctionOnSet(a, w) \in Int
    <3> HIDE DEF w
    <3> QED
      BY <2>1, <2>2, SumSame, SumRecursion
  <2>6. a[r] \in Int /\ b[r] \in Int
    BY <2>1
  <2> HIDE DEF w
  <2> QED
    BY <2>3, <2>4, <2>5, <2>6
<1>6. a[t] \in Int /\ a[r] \in Int /\ (r # t => b[r] \in Int)
  OBVIOUS
<1>7. r = t => SumFunctionOnSet(a, s) = a[t] + SumFunctionOnSet(b, u)
  BY <1>3, <1>4
<1>8. ASSUME r # t
      PROVE  SumFunctionOnSet(a, s) + b[r] = a[t] + a[r] + SumFunctionOnSet(b, u)
  <2>1. SumFunctionOnSet(b, u) + a[r] = SumFunctionOnSet(a, u) + b[r]
    BY <1>5, <1>8
  <2>2. a[t] \in Int /\ a[r] \in Int /\ b[r] \in Int
    BY <1>6, <1>8
  <2>3. \A w, x, y, z, v, k \in Int : w = x + y /\ z + v = y + k => w + k = x + v + z
    OBVIOUS
  <2> QED
    BY <1>2, <1>3, <2>1, <2>2, <2>3
<1> QED
  BY <1>2, <1>7, <1>8

\* Handing the greatest prediction to the greatest quantile t, in exchange for what t
\* had: the others keep the rest of the predictions, and nobody loses.
LEMMA GiveGreatest ==
    ASSUME NEW m \in Nat, NEW d \in Int, NEW s \in SUBSET (0..m), IsFiniteSet(s),
           NEW g, \A q \in s : g[q] \in Int, \A p, q \in s : p <= q => g[p] <= g[q],
           NEW h \in [s -> Int], \A v \in Int : Tally(h, v, s) = Tally(g, v, s),
           NEW t \in s, \A q \in s : q <= t
    PROVE  \E k \in [s \ {t} -> Int] :
              /\ \A v \in Int : Tally(k, v, s \ {t}) = Tally(g, v, s \ {t})
              /\ LossOf(k, m, d, s \ {t}) + Pinball(<<t, m>>, d, g[t]) <= LossOf(h, m, d, s)
<1> DEFINE u == s \ {t}
           P(q, x) == Pinball(<<q, m>>, d, x)
           Is(x, v) == IF x = v THEN 1 ELSE 0
<1>1. IsFiniteSet(u) /\ u \subseteq s /\ t \in Int /\ \A q \in s : q \in 0..t
  BY FS_Subset
<1>2. \A f, v : (\E q \in s : f[q] = v) <=> Tally(f, v, s) # 0
  <2> SUFFICES ASSUME NEW f, NEW v PROVE (\E q \in s : f[q] = v) <=> Tally(f, v, s) # 0
    OBVIOUS
  <2> DEFINE T == {q \in s : f[q] = v}
  <2>1. IsFiniteSet(T) /\ Tally(f, v, s) = Cardinality(T)
    BY FS_Subset, TallyCounts
  <2>2. T # {} <=> Cardinality(T) # 0
    BY <2>1, FS_EmptySet
  <2> QED
    BY <2>1, <2>2
<1>3. PICK r \in s : h[r] = g[t]
  <2>1. Tally(h, g[t], s) # 0
    BY <1>2
  <2> QED
    BY <1>2, <2>1
<1>4. h[t] <= g[t] /\ h[t] \in Int /\ g[t] \in Int
  <2>1. h[t] \in Int /\ Tally(g, h[t], s) # 0
    BY <1>2
  <2>2. PICK p \in s : g[p] = h[t]
    BY <1>2, <2>1
  <2> QED
    BY <2>1, <2>2
<1> DEFINE k == [q \in u |-> IF q = r THEN h[t] ELSE h[q]]
<1>5. k \in [u -> Int] /\ \A q \in u : k[q] = IF q = r THEN h[t] ELSE h[q]
  BY <1>1, <1>4
<1> HIDE DEF k
<1>6. ASSUME NEW v \in Int PROVE Tally(k, v, u) = Tally(g, v, u)
  <2> DEFINE a == [q \in s |-> Is(h[q], v)]
             b == [q \in u |-> Is(k[q], v)]
             c == [q \in s |-> Is(g[q], v)]
             e == [q \in u |-> Is(g[q], v)]
  <2>1. /\ \A q \in s : a[q] \in Int /\ c[q] \in Int
        /\ \A q \in u : b[q] \in Int /\ e[q] \in Int
    OBVIOUS
  <2>2. /\ \A q \in u : q # r => b[q] = a[q] /\ e[q] = c[q]
        /\ r # t => b[r] = a[t]
        /\ a[r] = c[t] /\ (r # t => e[r] = c[r])
    BY <1>3, <1>5
  <2>3. /\ Tally(h, v, s) = SumFunctionOnSet(a, s) /\ Tally(k, v, u) = SumFunctionOnSet(b, u)
        /\ Tally(g, v, s) = SumFunctionOnSet(c, s) /\ Tally(g, v, u) = SumFunctionOnSet(e, u)
    BY DEF Tally
  <2>0. u = s \ {t}
    OBVIOUS
  <2> HIDE DEF a, b, c, e, u, Is
  <2>8. Exchanged(a, b, s, t, r)
    BY <2>0, <2>1, <2>2 DEF Exchanged
  <2>9. Exchanged(c, e, s, t, r)
    BY <2>0, <2>1, <2>2 DEF Exchanged
  <2>4. /\ SumFunctionOnSet(a, s) \in Int /\ SumFunctionOnSet(b, u) \in Int
        /\ r = t => SumFunctionOnSet(a, s) = a[t] + SumFunctionOnSet(b, u)
        /\ r # t => SumFunctionOnSet(a, s) + b[r] = a[t] + a[r] + SumFunctionOnSet(b, u)
    BY <2>0, <2>8, SumExchange
  <2>5. /\ SumFunctionOnSet(c, s) \in Int /\ SumFunctionOnSet(e, u) \in Int
        /\ r = t => SumFunctionOnSet(c, s) = c[t] + SumFunctionOnSet(e, u)
        /\ r # t => SumFunctionOnSet(c, s) + e[r] = c[t] + c[r] + SumFunctionOnSet(e, u)
    BY <2>0, <2>9, SumExchange
  <2>6. SumFunctionOnSet(a, s) = SumFunctionOnSet(c, s)
    BY <1>6, <2>3
  <2>7. a[t] \in Int /\ c[t] \in Int /\ a[r] \in Int /\ c[r] \in Int
    BY <2>1
  <2>10. SumFunctionOnSet(b, u) = SumFunctionOnSet(e, u)
    BY <2>2, <2>4, <2>5, <2>6, <2>7
  <2> QED
    BY <2>3, <2>10
<1>7. LossOf(k, m, d, u) + P(t, g[t]) <= LossOf(h, m, d, s)
  <2> DEFINE a == [q \in s |-> P(q, h[q])]
             b == [q \in u |-> P(q, k[q])]
  <2>1. /\ \A q \in s : \A x \in Int : P(q, x) \in Int
        /\ \A q \in s : a[q] \in Int
        /\ \A q \in u : b[q] \in Int
    <3>1. \A q \in s : \A x \in Int : P(q, x) \in Int
      BY PinballType
    <3> HIDE DEF P
    <3> QED
      BY <1>1, <1>5, <3>1
  <2>2. /\ \A q \in u : q # r => b[q] = a[q]
        /\ r # t => b[r] = P(r, h[t])
        /\ a[r] = P(r, g[t]) /\ a[t] = P(t, h[t])
    <3> HIDE DEF P
    <3> QED
      BY <1>3, <1>5
  <2>3. LossOf(h, m, d, s) = SumFunctionOnSet(a, s) /\ LossOf(k, m, d, u) = SumFunctionOnSet(b, u)
    BY DEF LossOf
  <2>4. P(r, h[t]) + P(t, g[t]) <= P(r, g[t]) + P(t, h[t])
    <3>1. t \in r..m /\ r \in 0..m
      BY <1>1
    <3>2. CASE h[t] < g[t]
      BY <1>4, <3>1, <3>2, UncrossingNeverHurts
    <3>3. CASE h[t] = g[t]
      <4>1. P(r, g[t]) \in Int /\ P(t, g[t]) \in Int
        BY <1>4, <2>1
      <4> HIDE DEF P
      <4> QED
        BY <3>3, <4>1
    <3> QED
      BY <1>4, <3>2, <3>3
  <2>5. /\ P(r, h[t]) \in Int /\ P(t, g[t]) \in Int /\ P(r, g[t]) \in Int /\ P(t, h[t]) \in Int
    BY <1>4, <2>1
  <2>0. u = s \ {t}
    OBVIOUS
  <2> HIDE DEF a, b, u, P
  <2>8. Exchanged(a, b, s, t, r)
    BY <2>0, <2>1, <2>2 DEF Exchanged
  <2>6. /\ SumFunctionOnSet(a, s) \in Int /\ SumFunctionOnSet(b, u) \in Int
        /\ r = t => SumFunctionOnSet(a, s) = a[t] + SumFunctionOnSet(b, u)
        /\ r # t => SumFunctionOnSet(a, s) + b[r] = a[t] + a[r] + SumFunctionOnSet(b, u)
    BY <2>0, <2>8, SumExchange
  <2>7. SumFunctionOnSet(b, u) + P(t, g[t]) <= SumFunctionOnSet(a, s)
    <3>1. CASE r = t
      BY <1>3, <2>2, <2>5, <2>6, <3>1
    <3>2. CASE r # t
      BY <2>2, <2>4, <2>5, <2>6, <3>2
    <3> QED
      BY <3>1, <3>2
  <2> QED
    BY <2>3, <2>7
<1> QED
  BY <1>5, <1>6, <1>7

\* Of all ways to hand out the same predictions, the sorted one loses least.
LEMMA SortedIsCheapest ==
    ASSUME NEW m \in Nat, NEW d \in Int, NEW E \in SUBSET (0..m), IsFiniteSet(E),
           NEW g, \A q \in E : g[q] \in Int, \A p, q \in E : p <= q => g[p] <= g[q],
           NEW f \in [E -> Int], \A v \in Int : Tally(f, v, E) = Tally(g, v, E)
    PROVE  LossOf(g, m, d, E) <= LossOf(f, m, d, E)
<1> DEFINE Like(h, s) == \A v \in Int : Tally(h, v, s) = Tally(g, v, s)
           Worse(h, s) == ~(LossOf(g, m, d, s) <= LossOf(h, m, d, s))
           Bad == {s \in SUBSET E : \E h \in [s -> Int] : Like(h, s) /\ Worse(h, s)}
<1>1. \A q \in E : \A x \in Int : Pinball(<<q, m>>, d, x) \in Int
  BY PinballType
<1>2. ASSUME NEW s \in SUBSET E, NEW h, \A q \in s : h[q] \in Int
      PROVE  LossOf(h, m, d, s) \in Int
  <2> DEFINE a == [q \in s |-> Pinball(<<q, m>>, d, h[q])]
  <2>1. IsFiniteSet(s) /\ \A q \in s : a[q] \in Int
    BY <1>1, <1>2, FS_Subset
  <2> HIDE DEF a
  <2>2. SumFunctionOnSet(a, s) \in Int
    BY <2>1, SumRecursion
  <2> QED
    BY <2>2 DEF LossOf, a
<1>3. ASSUME NEW s \in Bad PROVE \E t \in s : s \ {t} \in Bad
  <2>1. PICK h \in [s -> Int] : Like(h, s) /\ Worse(h, s)
    OBVIOUS
  <2>2. s \in SUBSET E /\ s \in SUBSET (0..m) /\ s \in SUBSET Int /\ IsFiniteSet(s)
    <3>1. s \in SUBSET E
      OBVIOUS
    <3>2. IsFiniteSet(s)
      BY <3>1, FS_Subset
    <3> HIDE DEF Bad
    <3> QED
      BY <3>1, <3>2
  <2>3. s # {}
    <3> SUFFICES ASSUME s = {} PROVE FALSE
      OBVIOUS
    <3>1. [q \in s |-> Pinball(<<q, m>>, d, g[q])] = [q \in s |-> Pinball(<<q, m>>, d, h[q])]
      OBVIOUS
    <3>2. LossOf(g, m, d, s) = LossOf(h, m, d, s)
      BY <3>1 DEF LossOf
    <3>3. LossOf(g, m, d, s) \in Int
      BY <1>2, <2>2
    <3> QED
      BY <2>1, <3>2, <3>3
  <2>4. PICK t \in s : \A q \in s : q <= t
    BY <2>2, <2>3, GreatestElement
  <2> DEFINE u == s \ {t}
  <2>5. PICK k \in [u -> Int] :
            /\ \A v \in Int : Tally(k, v, u) = Tally(g, v, u)
            /\ LossOf(k, m, d, u) + Pinball(<<t, m>>, d, g[t]) <= LossOf(h, m, d, s)
    BY <2>1, <2>2, <2>4, GiveGreatest
  <2>6. LossOf(g, m, d, s) = Pinball(<<t, m>>, d, g[t]) + LossOf(g, m, d, u)
    <3> DEFINE a == [q \in s |-> Pinball(<<q, m>>, d, g[q])]
               b == [q \in u |-> Pinball(<<q, m>>, d, g[q])]
    <3>1. (\A q \in s : a[q] \in Int) /\ a[t] = Pinball(<<t, m>>, d, g[t])
      BY <1>1, <2>2
    <3>2. \A q \in u : b[q] \in Int /\ b[q] = a[q]
      BY <1>1, <2>2
    <3>3. IsFiniteSet(u)
      BY <2>2, FS_Subset
    <3> HIDE DEF a, b
    <3>4. SumFunctionOnSet(a, s) = a[t] + SumFunctionOnSet(a, u)
      BY <2>2, <3>1, SumRemove
    <3> HIDE DEF u
    <3>5. SumFunctionOnSet(b, u) = SumFunctionOnSet(a, u)
      BY <3>2, <3>3, SumSame
    <3> QED
      BY <3>1, <3>4, <3>5 DEF LossOf, a, b
  <2>7. u \in SUBSET E /\ Worse(k, u)
    <3>1. u \in SUBSET E
      OBVIOUS
    <3>2. Pinball(<<t, m>>, d, g[t]) \in Int
      BY <1>1, <2>2
    <3>3. /\ LossOf(g, m, d, u) \in Int /\ LossOf(g, m, d, s) \in Int
          /\ LossOf(h, m, d, s) \in Int /\ LossOf(k, m, d, u) \in Int
      <4> HIDE DEF u
      <4>1. /\ \A q \in u : g[q] \in Int /\ k[q] \in Int
            /\ \A q \in s : g[q] \in Int /\ h[q] \in Int
        BY <2>2, <3>1
      <4> QED
        BY <1>2, <2>2, <3>1, <4>1
    <3> HIDE DEF u
    <3>4. ~(LossOf(g, m, d, s) <= LossOf(h, m, d, s))
      BY <2>1
    <3> QED
      BY <2>5, <2>6, <3>1, <3>2, <3>3, <3>4
  <2>8. Like(k, u)
    BY <2>5
  <2> HIDE DEF u, Like, Worse
  <2>9. u \in Bad
    BY <2>7, <2>8
  <2> QED
    BY <2>9 DEF u
<1>4. Bad \in SUBSET SUBSET E
  OBVIOUS
<1>5. Bad = {}
  <2> HIDE DEF Bad
  <2> QED
    BY <1>3, <1>4, FiniteDescent
<1>6. E \notin Bad
  BY <1>5
<1> QED
  BY <1>6

\* Rearranging never makes a forecast worse, whatever is then sold (metrics.py:54-71):
\* the pinball losses of all its quantiles add up to no more than before.
THEOREM RearrangingNeverHurts ==
    ASSUME NEW f, Forecasts(f), NEW m \in Nat, DOMAIN f \subseteq 0..m, NEW d \in Int
    PROVE  LossOf(Rearranged(f), m, d, DOMAIN f) <= LossOf(f, m, d, DOMAIN f)
<1> DEFINE E == DOMAIN f
           g == Rearranged(f)
           h == [q \in E |-> f[q]]
<1>1. E \in SUBSET (0..m) /\ IsFiniteSet(E) /\ h \in [E -> Int]
  BY DEF Forecasts
<1>2. \A q \in E : g[q] \in Int
  BY RearrangedIs
<1>3. \A p, q \in E : p <= q => g[p] <= g[q]
  BY RearrangedSorts
<1>4. ASSUME NEW v \in Int PROVE Tally(h, v, E) = Tally(g, v, E)
  <2>1. Tally(h, v, E) = Cardinality({q \in E : h[q] = v})
    BY <1>1, TallyCounts
  <2>2. Tally(g, v, E) = Cardinality({q \in E : g[q] = v})
    BY <1>1, TallyCounts
  <2>3. {q \in E : h[q] = v} = {q \in E : f[q] = v}
    OBVIOUS
  <2>4. Cardinality({q \in E : f[q] = v}) = Cardinality({q \in E : g[q] = v})
    BY RearrangedSorts
  <2> QED
    BY <2>1, <2>2, <2>3, <2>4
<1>5. LossOf(h, m, d, E) = LossOf(f, m, d, E)
  <2>1. [q \in E |-> Pinball(<<q, m>>, d, h[q])] = [q \in E |-> Pinball(<<q, m>>, d, f[q])]
    OBVIOUS
  <2> QED
    BY <2>1 DEF LossOf
<1> HIDE DEF E, g, h
<1>6. LossOf(g, m, d, E) <= LossOf(h, m, d, E)
  BY <1>1, <1>2, <1>3, <1>4, SortedIsCheapest
<1> QED
  BY <1>5, <1>6 DEF E, g

--------------------------------------------------------------------------------
(****************************************************************************)
(* Grading.                                                                 *)
(****************************************************************************)

\* The rows both decisions of which are graded alike, and of which the forecast is a
\* number.
WellGraded(e) ==
    {r \in Rows : /\ r.ml.order # NaN
                  /\ \A d \in {r.ml, r.baseline} :
                        d = Graded(e, d.order, r.demand, r.price)}

\* A row of simulate is forecast at the critical fractile only, once the
\* settings of the loop are known.
FractileForecast ==
    command = "simulate" =>
        /\ history = {} => raw = << >> /\ predictions = << >>
        /\ history # {} => distribution \in {"empirical", "normal", "poisson"}
        /\ DOMAIN raw \subseteq {Fractile}
        /\ \A q \in DOMAIN raw : raw[q] \in Int
        /\ predictions # << >> => predictions[Fractile] \in Int

\* The inductive invariant: what has been decided stays well graded, because
\* the economics do not change during a run.
GradingInv ==
    /\ economics \in CostConfigs
    /\ FractileForecast
    /\ graded \in Seq(WellGraded(economics))

\* Rearranging a single prediction leaves it as it is.
LEMMA SingleRearranged ==
    ASSUME NEW x \in Int, NEW f, DOMAIN f = {x}, f[x] \in Int
    PROVE  Rearranged(f)[x] = f[x]
<1>1. DOMAIN f = {x}
  OBVIOUS
<1>2. {f[p] : p \in DOMAIN f} = {f[x]}
  BY <1>1
<1>3. {p \in DOMAIN f : f[p] <= f[x]} = {x}
  BY <1>1
<1>4. {p \in DOMAIN f : p <= x} = {x}
  BY <1>1
<1>5. Cardinality({x}) = 1
  BY FS_Singleton
<1>6. AtMost(f, f[x]) = 1 /\ Rank(f, x) = 1
  BY <1>3, <1>4, <1>5 DEF AtMost, Rank
<1>7. {v \in {f[x]} : AtMost(f, v) >= Rank(f, x)} = {f[x]}
  BY <1>6
<1>8. Min({f[x]}) = f[x]
  BY DEF Min
<1>9. Rearranged(f)[x] = Min({v \in {f[p] : p \in DOMAIN f} : AtMost(f, v) >= Rank(f, x)})
  BY <1>1 DEF Rearranged
<1> QED
  BY <1>2, <1>7, <1>8, <1>9

\* A cost breakdown (newsvendor.py:84-89) consists of natural numbers.
LEMMA BreakdownType ==
    ASSUME NEW e \in Economies, NEW q \in Int, NEW d \in Int, NEW price \in Nat
    PROVE  /\ CostBreakdown(e, q, d, price).understock \in Nat
           /\ CostBreakdown(e, q, d, price).overstock \in Nat
<1>1. UnderUnits(q, d) \in Nat /\ OverUnits(q, d) \in Nat
  BY DEF UnderUnits, OverUnits
<1>2. Understock(e) \in Nat /\ Overstock(e) \in Nat
  BY CostsPositive
<1>3. \A x, y \in Nat : x * y \in Nat
  OBVIOUS
<1>4. price * Understock(e) \in Nat /\ price * Overstock(e) \in Nat
  BY <1>2, <1>3
<1>5. /\ price * Understock(e) * UnderUnits(q, d) \in Nat
      /\ price * Overstock(e) * OverUnits(q, d) \in Nat
  BY <1>1, <1>3, <1>4
<1> QED
  BY <1>5 DEF CostBreakdown

\* One graded order is a decision, and its cost the pinball loss times the price.
LEMMA GradedWell ==
    ASSUME economics \in CostConfigs, NEW q \in Int \cup {NaN},
           NEW demand \in Demands, NEW price \in Prices
    PROVE  /\ Graded(economics, q, demand, price) \in Decisions
           /\ Graded(economics, q, demand, price).order # NaN =>
                Graded(economics, q, demand, price).cost =
                  price * Pinball(CriticalFractile(economics), demand,
                                  Graded(economics, q, demand, price).order)
<1>1. economics \in Economies /\ demand \in Int /\ price \in Nat
  BY ForecastAssumption, GradingAssumption
<1>2. CASE q = NaN
  BY <1>2 DEF Graded, Decisions, Amounts
<1>3. CASE q # NaN
  <2> DEFINE costs == CostBreakdown(economics, q, demand, price)
  <2>1. q \in Int
    BY <1>3
  <2>2. costs.understock \in Nat /\ costs.overstock \in Nat
    BY <1>1, <2>1, BreakdownType
  <2>3. costs.understock + costs.overstock =
          price * Pinball(CriticalFractile(economics), demand, q)
    <3>1. RealizedCost(economics, q, demand, price) =
            price * Pinball(CriticalFractile(economics), demand, q)
      BY <1>1, <2>1, CostIsPinballLoss
    <3> QED
      BY <3>1 DEF RealizedCost
  <2>4. Graded(economics, q, demand, price) =
          [order |-> q, understock |-> costs.understock, overstock |-> costs.overstock,
           cost |-> costs.understock + costs.overstock]
    BY <1>3 DEF Graded
  <2> HIDE DEF costs
  <2>5. costs.understock + costs.overstock \in Nat
    BY <2>2
  <2> QED
    BY <2>1, <2>2, <2>3, <2>4, <2>5 DEF Decisions, Amounts
<1> QED
  BY <1>2, <1>3

\* Whatever the distribution, the baseline orders an integer or NaN.
LEMMA BaselineOrdersType ==
    ASSUME distribution \in {"empirical", "normal", "poisson"}
    PROVE  BaselineOrders \subseteq Int \cup {NaN}
<1>1. EmpiricalOrders \subseteq Int
  BY GradingAssumption DEF EmpiricalOrders
<1>2. NormalOrders \subseteq Int \cup {NaN}
  BY GradingAssumption DEF NormalOrders
<1>3. PoissonOrders \subseteq Int
  <2>1. Orders \subseteq Int
    BY GradingAssumption
  <2>2. CASE history = {0}
    <3>1. PoissonOrders = {0}
      BY <2>2 DEF PoissonOrders
    <3> QED
      BY <3>1
  <2>3. CASE history # {0}
    <3>1. PoissonOrders = {q \in Orders : q >= 0}
      BY <2>3 DEF PoissonOrders
    <3> QED
      BY <2>1, <3>1
  <2> QED
    BY <2>2, <2>3
<1> QED
  BY <1>1, <1>2, <1>3 DEF BaselineOrders

\* A run starts with nothing graded.
LEMMA GradingInit == Init => GradingInv
<1> SUFFICES ASSUME Init PROVE GradingInv
  OBVIOUS
<1>1. economics \in CostConfigs
  BY DEF Init, ForecastInit
<1>2. graded = << >>
  BY DEF Init
<1>3. << >> \in Seq(WellGraded(economics))
  OBVIOUS
<1>4. FractileForecast
  <2>1. raw = << >> /\ predictions = << >> /\ history = {}
    BY DEF Init, ForecastInit
  <2>2. DOMAIN raw = {}
    BY <2>1
  <2> QED
    BY <2>1, <2>2 DEF FractileForecast
<1> QED
  BY <1>1, <1>2, <1>3, <1>4 DEF GradingInv

\* The critical fractile is a level on the common grid.
LEMMA FractileType == ASSUME economics \in CostConfigs PROVE Fractile \in Int
<1>1. CriticalFractile(economics)[1] \in Int
  <2>1. economics \in Economies
    BY ForecastAssumption
  <2>2. Understock(economics) \in Int
    BY <2>1, CostsPositive
  <2> QED
    BY <2>2 DEF CriticalFractile
<1>2. Parts \in Int
  BY ForecastAssumption
<1> QED
  BY <1>1, <1>2 DEF Fractile

\* Forecasting a row keeps the forecast at the critical fractile, an integer.
LEMMA ForecastStep ==
    ASSUME GradingInv, Forecast
    PROVE  GradingInv'
<1>1. UNCHANGED <<economics, command, distribution, history, graded>>
  BY DEF Forecast, PredictQuantile, Predict, settingVars
<1>2. Fractile' = Fractile
  BY <1>1 DEF Fractile
<1>3. Fractile \in Int
  BY FractileType DEF GradingInv
<1>4. FractileForecast'
  <2> SUFFICES ASSUME command = "simulate" PROVE FractileForecast'
    BY <1>1 DEF FractileForecast
  <2>1. /\ history # {} /\ distribution \in {"empirical", "normal", "poisson"}
        /\ DOMAIN raw \subseteq {Fractile}
        /\ \A q \in DOMAIN raw : raw[q] \in Int
        /\ predictions # << >> => predictions[Fractile] \in Int
    BY DEF GradingInv, FractileForecast, Forecast
  <2>2. Quantiles = {Fractile}
    BY DEF Quantiles
  <2>3. CASE PredictQuantile
    <3>1. Quantiles \ DOMAIN raw = {Fractile}
      BY <2>2, <2>3 DEF PredictQuantile
    <3>2. Min({Fractile}) = Fractile
      BY <1>3 DEF Min
    <3>3. PICK prediction \in Predictions :
            raw' = [p \in DOMAIN raw \cup {Fractile} |->
                        IF p = Fractile THEN prediction ELSE raw[p]]
      BY <2>3, <3>1, <3>2 DEF PredictQuantile
    <3>4. prediction \in Int
      BY ForecastAssumption
    <3>5. DOMAIN raw' \subseteq {Fractile} /\ \A q \in DOMAIN raw' : raw'[q] \in Int
      BY <2>1, <3>3, <3>4
    <3>6. predictions' = predictions
      BY <2>3 DEF PredictQuantile
    <3> QED
      BY <1>1, <1>2, <2>1, <3>5, <3>6 DEF FractileForecast
  <2>4. CASE Predict
    <3>1. DOMAIN raw = {Fractile} /\ raw' = raw /\ predictions' = Rearranged(raw)
      BY <2>2, <2>4 DEF Predict
    <3>2. raw[Fractile] \in Int
      BY <2>1, <3>1
    <3>4. Rearranged(raw)[Fractile] = raw[Fractile]
      BY <1>3, <3>1, <3>2, SingleRearranged
    <3> QED
      BY <1>1, <1>2, <2>1, <3>1, <3>2, <3>4 DEF FractileForecast
  <2> QED
    BY <2>3, <2>4 DEF Forecast
<1>5. graded' \in Seq(WellGraded(economics))' /\ economics' \in CostConfigs
  BY <1>1 DEF GradingInv, WellGraded
<1> QED
  BY <1>4, <1>5 DEF GradingInv

\* Deciding a row grades both orders well.
LEMMA DecideRowStep ==
    ASSUME GradingInv, DecideRow
    PROVE  GradingInv'
<1>1. PICK demand \in Demands, price \in Prices, b \in BaselineOrders :
        graded' = Append(graded, [demand |-> demand, price |-> price,
                                  ml |-> Graded(economics, predictions[Fractile], demand, price),
                                  baseline |-> Graded(economics, b, demand, price)])
  BY DEF DecideRow
<1> DEFINE q == predictions[Fractile]
           row == [demand |-> demand, price |-> price,
                   ml |-> Graded(economics, q, demand, price),
                   baseline |-> Graded(economics, b, demand, price)]
<1>2. q \in Int /\ b \in Int \cup {NaN}
  <2>1. q \in Int /\ distribution \in {"empirical", "normal", "poisson"}
    BY DEF GradingInv, FractileForecast, DecideRow
  <2>2. BaselineOrders \subseteq Int \cup {NaN}
    BY <2>1, BaselineOrdersType
  <2> QED
    BY <2>1, <2>2
<1>3. row \in WellGraded(economics)
  <2> HIDE DEF q
  <2>1. economics \in CostConfigs
    BY DEF GradingInv
  <2>2. /\ Graded(economics, q, demand, price) \in Decisions
        /\ Graded(economics, b, demand, price) \in Decisions
    BY <1>2, <2>1, GradedWell
  <2>3. \A x : Graded(economics, x, demand, price).order = x
    BY DEF Graded
  <2>4. q # NaN
    BY <1>2, GradingAssumption
  <2>5. row \in Rows
    BY <2>2 DEF Rows
  <2> QED
    BY <2>3, <2>4, <2>5 DEF WellGraded
<1>4. UNCHANGED <<economics, command, distribution, history>>
  BY DEF DecideRow, settingVars
<1>5. graded' \in Seq(WellGraded(economics))
  <2>1. graded \in Seq(WellGraded(economics))
    BY DEF GradingInv
  <2> HIDE DEF row
  <2>2. Append(graded, row) \in Seq(WellGraded(economics))
    BY <1>3, <2>1
  <2> QED
    BY <1>1, <2>2 DEF row
<1>6. WellGraded(economics)' = WellGraded(economics)
  BY <1>4 DEF WellGraded
<1>7. FractileForecast'
  <2>1. raw' = << >> /\ predictions' = << >>
    BY DEF DecideRow
  <2>2. DOMAIN raw' = {}
    BY <2>1
  <2> QED
    BY <1>4, <2>1, <2>2 DEF GradingInv, FractileForecast
<1>8. economics' \in CostConfigs
  BY <1>4 DEF GradingInv
<1> QED
  BY <1>5, <1>6, <1>7, <1>8 DEF GradingInv

\* Every step keeps what is graded well graded.
LEMMA GradingNext == GradingInv /\ [Next]_vars => GradingInv'
<1> SUFFICES ASSUME GradingInv, [Next]_vars PROVE GradingInv'
  OBVIOUS
<1>1. CASE Prepare
  <2>1. /\ UNCHANGED <<economics, command, raw, predictions, graded>>
        /\ distribution' \in {"empirical", "normal", "poisson"}
    BY <1>1, GradingAssumption DEF Prepare, forecastVars
  <2>2. FractileForecast'
    <3>1. Fractile' = Fractile
      BY <2>1 DEF Fractile
    <3>2. raw = << >> /\ predictions = << >> /\ history' # {}
      BY <1>1 DEF Prepare, GradingInv, FractileForecast
    <3>3. DOMAIN raw = {}
      BY <3>2
    <3> QED
      BY <2>1, <3>1, <3>2, <3>3 DEF FractileForecast
  <2> QED
    BY <2>1, <2>2 DEF GradingInv, WellGraded
<1>2. CASE Recommend \/ Compare \/ UNCHANGED vars
  <2>1. UNCHANGED <<economics, command, raw, predictions, distribution, history, graded>>
    BY <1>2 DEF Recommend, Decide, Compare, vars, forecastVars, settingVars
  <2> QED
    BY <2>1 DEF GradingInv, FractileForecast, Fractile, WellGraded
<1> QED
  BY <1>1, <1>2, ForecastStep, DecideRowStep DEF Next

\* What is well graded is graded by the pinball loss.
LEMMA GradedWellEnough == GradingInv => GradedByPinball
<1> SUFFICES ASSUME GradingInv, NEW i \in DOMAIN graded,
                    NEW d \in {graded[i].ml, graded[i].baseline}, d.order # NaN
             PROVE  d.cost = graded[i].price
                      * Pinball(CriticalFractile(economics), graded[i].demand, d.order)
  BY DEF GradedByPinball
<1> DEFINE row == graded[i]
<1>1. row \in WellGraded(economics) /\ economics \in CostConfigs
  BY DEF GradingInv
<1>2. /\ row.demand \in Demands /\ row.price \in Prices /\ d.order \in Int \cup {NaN}
      /\ d = Graded(economics, d.order, row.demand, row.price)
  BY <1>1 DEF WellGraded, Rows, Decisions
<1> HIDE DEF row
<1> QED
  BY <1>1, <1>2, GradedWell DEF row

\* GradedByPinball for every configuration and any number of rows
\* (replay.py:241-265): both policies are graded by the loss the quantile model
\* is trained on.
THEOREM GradedByPinballThm == Spec => []GradedByPinball
BY GradedWellEnough, GradingInit, GradingNext, PTL DEF Spec
================================================================================
