---------------------------- MODULE NewsvendorProofs ----------------------------
(****************************************************************************)
(* Facts about sums over finite sets, by induction over their subsets, and  *)
(* about the newsvendor economics, which hold for every cost configuration  *)
(* that loads, every order, demand and price.                               *)
(****************************************************************************)
EXTENDS Newsvendor, Functions, FiniteSetTheorems, WellFoundedInduction, TLAPS

--------------------------------------------------------------------------------
(****************************************************************************)
(* Induction.  The prover cannot instantiate the induction theorems of the  *)
(* library, whose parameter is a predicate; it can instantiate a set.       *)
(****************************************************************************)

\* The natural numbers are well-founded.
LEMMA NatWellFounded == IsWellFoundedOn({ss \in Nat \X Nat : ss[1] < ss[2]}, Nat)
BY NatLessThanWellFounded DEF OpToRel

\* A non-empty set of natural numbers has a least element.
LEMMA LeastNat ==
    ASSUME NEW T \in SUBSET Nat, T # {}
    PROVE  \E t \in T : \A u \in T : t <= u
<1>1. PICK t \in T : \A u \in T : ~(<<u, t>> \in {ss \in Nat \X Nat : ss[1] < ss[2]})
  BY NatWellFounded, WFMin, Zenon
<1>2. \A u, w \in Nat : ~(<<u, w>> \in {ss \in Nat \X Nat : ss[1] < ss[2]}) => w <= u
  OBVIOUS
<1> QED
  BY <1>1, <1>2

\* Induction over the subsets of a finite set, as infinite descent: if from each bad
\* subset one element can be taken so that what is left is bad, too, there is none.
LEMMA FiniteDescent ==
    ASSUME NEW D, IsFiniteSet(D), NEW Bad \in SUBSET SUBSET D,
           \A s \in Bad : \E x \in s : s \ {x} \in Bad
    PROVE  Bad = {}
<1> SUFFICES ASSUME Bad # {} PROVE FALSE
  OBVIOUS
<1> DEFINE T == {Cardinality(s) : s \in Bad}
<1>1. \A s \in SUBSET D : IsFiniteSet(s) /\ Cardinality(s) \in Nat
  BY FS_Subset, FS_CardinalityType
<1>2. PICK t \in T : \A u \in T : t <= u
  <2>1. T \in SUBSET Nat /\ T # {}
    BY <1>1
  <2> HIDE DEF T
  <2> QED
    BY <2>1, LeastNat
<1>3. PICK s \in Bad : t = Cardinality(s)
  OBVIOUS
<1>4. PICK x \in s : s \ {x} \in Bad
  OBVIOUS
<1>5. Cardinality(s \ {x}) = Cardinality(s) - 1
  BY <1>1, FS_RemoveElement
<1>6. t <= Cardinality(s \ {x})
  BY <1>2, <1>4
<1> QED
  BY <1>1, <1>3, <1>5, <1>6

--------------------------------------------------------------------------------
(****************************************************************************)
(* Sums.  SumFunctionOnSet is a fold: it chooses a recursive function over  *)
(* the subsets of the indices, and that there is one must be proved.        *)
(****************************************************************************)

\* The element a fold takes first, and the others.
Pick(s) == CHOOSE x \in s : TRUE
Rest(s) == s \ {Pick(s)}

SumStep(g, f, s) == IF s = {} THEN 0 ELSE f[Pick(s)] + g[Rest(s)]

\* The sums over the subsets of D.
IsSumTable(g, f, D) == g = [s \in SUBSET D |-> SumStep(g, f, s)]

\* What a fold is by definition.
LEMMA SumUnfolds ==
    ASSUME NEW f, NEW D
    PROVE  SumFunctionOnSet(f, D)
             = (CHOOSE g : IsSumTable(g, f, D))[D]
BY DEF SumFunctionOnSet, FoldFunctionOnSet, MapThenFoldSet, IsSumTable, SumStep, Rest, Pick

\* The function the fold chooses exists: it can be computed for the subsets of up to n
\* elements, for any n.
LEMMA SumTableExists ==
    ASSUME NEW D, IsFiniteSet(D), NEW f, \A x \in D : f[x] \in Int
    PROVE  \E g \in [SUBSET D -> Int] : IsSumTable(g, f, D)
<1> DEFINE UpTo(n, g) == \A s \in SUBSET D : Cardinality(s) <= n => g[s] = SumStep(g, f, s)
           T == {n \in Nat : ~\E g \in [SUBSET D -> Int] : UpTo(n, g)}
<1>1. \A s \in SUBSET D : /\ IsFiniteSet(s) /\ Cardinality(s) \in Nat
                          /\ Cardinality(s) <= Cardinality(D)
  BY FS_Subset, FS_CardinalityType
<1>2. \A s \in SUBSET D : s # {} => /\ Pick(s) \in s /\ Rest(s) \in SUBSET D
                                    /\ Cardinality(Rest(s)) = Cardinality(s) - 1
  BY <1>1, FS_RemoveElement DEF Pick, Rest
<1>3. ASSUME NEW g \in [SUBSET D -> Int], NEW s \in SUBSET D PROVE SumStep(g, f, s) \in Int
  BY <1>2 DEF SumStep
<1>4. 0 \notin T
  <2> DEFINE g == [s \in SUBSET D |-> 0]
  <2>1. \A s \in SUBSET D : Cardinality(s) <= 0 => s = {}
    BY <1>1, FS_EmptySet
  <2>2. UpTo(0, g)
    BY <2>1 DEF SumStep
  <2>3. g \in [SUBSET D -> Int]
    OBVIOUS
  <2> HIDE DEF g, UpTo
  <2> QED
    BY <2>2, <2>3
<1>5. ASSUME NEW n \in Nat, n \notin T PROVE n + 1 \notin T
  <2>1. PICK g \in [SUBSET D -> Int] : UpTo(n, g)
    BY <1>5
  <2> DEFINE h == [s \in SUBSET D |-> SumStep(g, f, s)]
  <2>2. h \in [SUBSET D -> Int]
    BY <1>3
  <2>3. ASSUME NEW s \in SUBSET D, Cardinality(s) <= n + 1 PROVE h[s] = SumStep(h, f, s)
    <3>1. CASE s = {}
      BY <3>1 DEF SumStep
    <3>2. CASE s # {}
      <4>1. Cardinality(Rest(s)) <= n /\ Rest(s) \in SUBSET D
        BY <1>1, <1>2, <2>3, <3>2
      <4>2. g[Rest(s)] = SumStep(g, f, Rest(s))
        BY <2>1, <4>1
      <4>3. h[Rest(s)] = g[Rest(s)]
        BY <4>1, <4>2
      <4> QED
        BY <3>2, <4>3 DEF SumStep
    <3> QED
      BY <3>1, <3>2
  <2> HIDE DEF h
  <2>4. UpTo(n + 1, h)
    BY <2>3
  <2> HIDE DEF UpTo
  <2> QED
    BY <2>2, <2>4
<1>6. T = {}
  <2> SUFFICES ASSUME T # {} PROVE FALSE
    OBVIOUS
  <2>1. PICK t \in T : \A u \in T : t <= u
    BY LeastNat
  <2> HIDE DEF T
  <2>2. t \in Nat /\ t # 0 /\ t - 1 \in Nat /\ (t - 1) + 1 = t /\ ~(t <= t - 1)
    <3>1. t \in Nat
      BY <2>1 DEF T
    <3> QED
      BY <1>4, <2>1, <3>1
  <2> QED
    BY <1>5, <2>1, <2>2
<1>7. PICK g \in [SUBSET D -> Int] : UpTo(Cardinality(D), g)
  BY <1>1, <1>6
<1>8. g = [s \in SUBSET D |-> SumStep(g, f, s)]
  BY <1>1, <1>7
<1> QED
  BY <1>8 DEF IsSumTable

\* The sum over no index is 0, and over others that of the first index and the rest.
LEMMA SumRecursion ==
    ASSUME NEW D, IsFiniteSet(D), NEW f, \A x \in D : f[x] \in Int
    PROVE  /\ SumFunctionOnSet(f, {}) = 0
           /\ D # {} => SumFunctionOnSet(f, D)
                          = f[Pick(D)] + SumFunctionOnSet(f, Rest(D))
           /\ SumFunctionOnSet(f, D) \in Int
<1>1. ASSUME NEW E, IsFiniteSet(E), \A x \in E : f[x] \in Int
      PROVE  \E g \in [SUBSET E -> Int] : /\ IsSumTable(g, f, E)
                                         /\ SumFunctionOnSet(f, E) = g[E]
  <2>1. \E h \in [SUBSET E -> Int] : IsSumTable(h, f, E)
    <3>1. IsFiniteSet(E) /\ \A x \in E : f[x] \in Int
      BY <1>1
    <3> QED
      BY <3>1, SumTableExists
  <2> DEFINE g == CHOOSE h : IsSumTable(h, f, E)
  <2>2. IsSumTable(g, f, E)
    BY <2>1
  <2>3. SumFunctionOnSet(f, E) = g[E]
    BY SumUnfolds
  <2> HIDE DEF g
  <2>4. \A s \in SUBSET E : s # {} => Pick(s) \in s /\ Rest(s) \in SUBSET E
    BY DEF Pick, Rest
  <2> DEFINE Bad == {s \in SUBSET E : g[s] \notin Int}
  <2>5. \A s \in Bad : \E x \in s : s \ {x} \in Bad
    <3> SUFFICES ASSUME NEW s \in Bad PROVE \E x \in s : s \ {x} \in Bad
      OBVIOUS
    <3>1. g[s] = SumStep(g, f, s)
      BY <2>2 DEF IsSumTable
    <3>2. s # {}
      BY <3>1 DEF SumStep
    <3>3. g[s] = f[Pick(s)] + g[Rest(s)] /\ Pick(s) \in s
      BY <2>4, <3>1, <3>2 DEF SumStep
    <3>4. g[Rest(s)] \notin Int
      BY <1>1, <3>3
    <3> QED
      BY <2>4, <3>2, <3>4 DEF Rest
  <2>6. Bad = {}
    <3>1. Bad \in SUBSET SUBSET E
      OBVIOUS
    <3> HIDE DEF Bad
    <3> QED
      BY <1>1, <2>5, <3>1, FiniteDescent
  <2>7. g \in [SUBSET E -> Int]
    BY <2>2, <2>6 DEF IsSumTable
  <2> QED
    BY <2>2, <2>3, <2>7
<1>2. ASSUME NEW E \in SUBSET D, NEW g, NEW h,
             IsSumTable(g, f, D), IsSumTable(h, f, E)
      PROVE  g[E] = h[E]
  <2> DEFINE Bad == {s \in SUBSET E : g[s] # h[s]}
  <2>1. \A s \in Bad : \E x \in s : s \ {x} \in Bad
    <3> SUFFICES ASSUME NEW s \in Bad PROVE \E x \in s : s \ {x} \in Bad
      OBVIOUS
    <3>1. g[s] = SumStep(g, f, s) /\ h[s] = SumStep(h, f, s)
      BY <1>2 DEF IsSumTable
    <3>2. s # {} /\ g[Rest(s)] # h[Rest(s)]
      BY <3>1 DEF SumStep
    <3>3. Pick(s) \in s /\ Rest(s) \in SUBSET E
      BY <3>2 DEF Pick, Rest
    <3> QED
      BY <3>2, <3>3 DEF Rest
  <2>2. IsFiniteSet(E)
    BY FS_Subset
  <2>3. Bad = {}
    <3>1. Bad \in SUBSET SUBSET E
      OBVIOUS
    <3> HIDE DEF Bad
    <3> QED
      BY <2>1, <2>2, <3>1, FiniteDescent
  <2> QED
    BY <2>3
<1>3. PICK g \in [SUBSET D -> Int] : /\ IsSumTable(g, f, D)
                                    /\ SumFunctionOnSet(f, D) = g[D]
  BY <1>1
<1>4. ASSUME NEW E \in SUBSET D PROVE SumFunctionOnSet(f, E) = g[E]
  <2>1. IsFiniteSet(E) /\ \A x \in E : f[x] \in Int
    BY FS_Subset
  <2>2. PICK h \in [SUBSET E -> Int] : /\ IsSumTable(h, f, E)
                                      /\ SumFunctionOnSet(f, E) = h[E]
    BY <1>1, <2>1
  <2> QED
    BY <1>2, <1>3, <2>2
<1>5. g[{}] = 0
  BY <1>3 DEF IsSumTable, SumStep
<1>6. D # {} => g[D] = f[Pick(D)] + g[Rest(D)]
  BY <1>3 DEF IsSumTable, SumStep
<1>7. Rest(D) \in SUBSET D /\ {} \in SUBSET D /\ D \in SUBSET D
  BY DEF Rest
<1> QED
  BY <1>3, <1>4, <1>5, <1>6, <1>7

\* The order of summation does not matter: any index can be taken first.
LEMMA SumRemove ==
    ASSUME NEW D, IsFiniteSet(D), NEW f, \A x \in D : f[x] \in Int, NEW y \in D
    PROVE  SumFunctionOnSet(f, D) = f[y] + SumFunctionOnSet(f, D \ {y})
<1> DEFINE S(s) == SumFunctionOnSet(f, s)
           Bad == {s \in SUBSET D : \E x \in s : S(s) # f[x] + S(s \ {x})}
<1>1. \A s \in SUBSET D : IsFiniteSet(s) /\ \A x \in s : f[x] \in Int
  BY FS_Subset
<1>2. \A s \in SUBSET D : S(s) \in Int /\ (s # {} => S(s) = f[Pick(s)] + S(Rest(s)))
  BY <1>1, SumRecursion
<1> HIDE DEF S
<1>3. ASSUME NEW s \in Bad PROVE \E x \in s : s \ {x} \in Bad
  <2>1. PICK x \in s : S(s) # f[x] + S(s \ {x})
    OBVIOUS
  <2> DEFINE c == Pick(s)
  <2>2. c \in s /\ S(s) = f[c] + S(s \ {c})
    BY <1>2 DEF Pick, Rest
  <2> HIDE DEF c
  <2>3. x # c
    BY <2>1, <2>2
  <2> SUFFICES ASSUME s \ {c} \notin Bad, s \ {x} \notin Bad PROVE FALSE
    BY <2>2
  <2>4. S(s \ {c}) = f[x] + S((s \ {c}) \ {x})
    BY <2>2, <2>3
  <2>5. S(s \ {x}) = f[c] + S((s \ {x}) \ {c})
    BY <2>2, <2>3
  <2>6. (s \ {c}) \ {x} = (s \ {x}) \ {c} /\ (s \ {x}) \ {c} \in SUBSET D
    OBVIOUS
  <2>7. f[x] \in Int /\ f[c] \in Int /\ S((s \ {x}) \ {c}) \in Int
    BY <1>2, <2>2, <2>6
  <2> DEFINE k == S((s \ {x}) \ {c})
  <2>8. S(s) = f[c] + (f[x] + k) /\ S(s) # f[x] + (f[c] + k) /\ k \in Int
    BY <2>1, <2>2, <2>4, <2>5, <2>6, <2>7
  <2> HIDE DEF k, Bad
  <2> QED
    BY <2>7, <2>8
<1>4. Bad = {}
  <2>1. Bad \in SUBSET SUBSET D
    OBVIOUS
  <2> HIDE DEF Bad
  <2> QED
    BY <1>3, <2>1, FiniteDescent
<1>5. D \in SUBSET D
  OBVIOUS
<1> QED
  BY <1>4, <1>5 DEF S

\* Sums of naturals are natural numbers.
LEMMA SumNat ==
    ASSUME NEW D, IsFiniteSet(D), NEW f, \A x \in D : f[x] \in Nat
    PROVE  SumFunctionOnSet(f, D) \in Nat
<1> DEFINE S(s) == SumFunctionOnSet(f, s)
           Bad == {s \in SUBSET D : S(s) \notin Nat}
<1>1. \A s \in SUBSET D : IsFiniteSet(s) /\ \A x \in s : f[x] \in Int
  BY FS_Subset
<1>2. S({}) = 0 /\ \A s \in SUBSET D : s # {} => S(s) = f[Pick(s)] + S(Rest(s))
  <2>1. \A s \in SUBSET D : S({}) = 0 /\ (s # {} => S(s) = f[Pick(s)] + S(Rest(s)))
    BY <1>1, SumRecursion
  <2> HIDE DEF S
  <2> QED
    BY <2>1
<1> HIDE DEF S
<1>3. ASSUME NEW s \in Bad PROVE \E x \in s : s \ {x} \in Bad
  <2>1. s # {}
    BY <1>2
  <2>2. Pick(s) \in s /\ S(s) = f[Pick(s)] + S(s \ {Pick(s)})
    BY <1>2, <2>1 DEF Pick, Rest
  <2>3. f[Pick(s)] \in Nat
    BY <2>2
  <2>4. S(s \ {Pick(s)}) \notin Nat
    BY <2>2, <2>3
  <2> QED
    BY <2>2, <2>4
<1>4. Bad = {}
  <2>1. Bad \in SUBSET SUBSET D
    OBVIOUS
  <2> HIDE DEF Bad
  <2> QED
    BY <1>3, <2>1, FiniteDescent
<1> QED
  BY <1>4 DEF S

\* A sum of larger terms is larger.
LEMMA SumMono ==
    ASSUME NEW D, IsFiniteSet(D), NEW f, NEW g,
           \A x \in D : f[x] \in Int /\ g[x] \in Int /\ f[x] <= g[x]
    PROVE  SumFunctionOnSet(f, D) <= SumFunctionOnSet(g, D)
<1> DEFINE F(s) == SumFunctionOnSet(f, s)
           G(s) == SumFunctionOnSet(g, s)
           Bad == {s \in SUBSET D : ~(F(s) <= G(s))}
<1>1. \A s \in SUBSET D : IsFiniteSet(s) /\ \A x \in s : f[x] \in Int /\ g[x] \in Int
  BY FS_Subset
<1>2. \A s \in SUBSET D : /\ F({}) = 0 /\ F(s) \in Int
                          /\ s # {} => F(s) = f[Pick(s)] + F(Rest(s))
  BY <1>1, SumRecursion
<1>3. \A s \in SUBSET D : /\ G({}) = 0 /\ G(s) \in Int
                          /\ s # {} => G(s) = g[Pick(s)] + G(Rest(s))
  BY <1>1, SumRecursion
<1> HIDE DEF F, G
<1>4. ASSUME NEW s \in Bad PROVE \E x \in s : s \ {x} \in Bad
  <2>1. s # {}
    BY <1>2, <1>3
  <2> DEFINE x == Pick(s)
  <2>2. x \in s /\ F(s) = f[x] + F(s \ {x}) /\ G(s) = g[x] + G(s \ {x})
    BY <1>2, <1>3, <2>1 DEF Pick, Rest
  <2> HIDE DEF x
  <2>3. /\ f[x] \in Int /\ g[x] \in Int /\ f[x] <= g[x]
        /\ F(s \ {x}) \in Int /\ G(s \ {x}) \in Int
    BY <1>2, <1>3, <2>2
  <2>4. ~(F(s \ {x}) <= G(s \ {x}))
    BY <2>2, <2>3
  <2> QED
    BY <2>2, <2>4
<1>5. Bad = {}
  <2>1. Bad \in SUBSET SUBSET D
    OBVIOUS
  <2> HIDE DEF Bad
  <2> QED
    BY <1>4, <2>1, FiniteDescent
<1> QED
  BY <1>5 DEF F, G

\* Only the terms matter.
LEMMA SumSame ==
    ASSUME NEW D, IsFiniteSet(D), NEW f, NEW g, \A x \in D : f[x] \in Int /\ f[x] = g[x]
    PROVE  SumFunctionOnSet(f, D) = SumFunctionOnSet(g, D)
<1>1. \A x \in D : /\ f[x] \in Int /\ g[x] \in Int /\ f[x] <= g[x] /\ g[x] <= f[x]
  OBVIOUS
<1>2. SumFunctionOnSet(f, D) \in Int /\ SumFunctionOnSet(g, D) \in Int
  BY <1>1, SumRecursion
<1>3. SumFunctionOnSet(f, D) <= SumFunctionOnSet(g, D)
  BY <1>1, SumMono
<1>4. SumFunctionOnSet(g, D) <= SumFunctionOnSet(f, D)
  BY <1>1, SumMono
<1> QED
  BY <1>2, <1>3, <1>4

\* A linear combination of terms adds up to that of their sums.
LEMMA SumLinear ==
    ASSUME NEW D, IsFiniteSet(D), NEW f, NEW g, NEW h, NEW a \in Int, NEW b \in Int,
           \A x \in D : f[x] \in Int /\ g[x] \in Int /\ h[x] = a * f[x] + b * g[x]
    PROVE  SumFunctionOnSet(h, D) = a * SumFunctionOnSet(f, D) + b * SumFunctionOnSet(g, D)
<1> DEFINE F(s) == SumFunctionOnSet(f, s)
           G(s) == SumFunctionOnSet(g, s)
           H(s) == SumFunctionOnSet(h, s)
           Bad == {s \in SUBSET D : H(s) # a * F(s) + b * G(s)}
<1>0. \A x, y \in Int : a * x + b * y \in Int
  OBVIOUS
<1>1. \A s \in SUBSET D : /\ IsFiniteSet(s)
                          /\ \A x \in s : f[x] \in Int /\ g[x] \in Int /\ h[x] \in Int
  BY <1>0, FS_Subset
<1>2. \A s \in SUBSET D : /\ F({}) = 0 /\ F(s) \in Int
                          /\ s # {} => F(s) = f[Pick(s)] + F(Rest(s))
  BY <1>1, SumRecursion
<1>3. \A s \in SUBSET D : /\ G({}) = 0 /\ G(s) \in Int
                          /\ s # {} => G(s) = g[Pick(s)] + G(Rest(s))
  BY <1>1, SumRecursion
<1>4. \A s \in SUBSET D : /\ H({}) = 0 /\ H(s) \in Int
                          /\ s # {} => H(s) = h[Pick(s)] + H(Rest(s))
  BY <1>1, SumRecursion
<1> HIDE DEF F, G, H
<1>5. ASSUME NEW s \in Bad PROVE \E x \in s : s \ {x} \in Bad
  <2>1. s # {}
    <3>1. a * 0 + b * 0 = 0
      OBVIOUS
    <3> QED
      BY <1>2, <1>3, <1>4, <3>1
  <2> DEFINE x == Pick(s)  r == s \ {x}
  <2>2. /\ x \in s /\ F(s) = f[x] + F(r) /\ G(s) = g[x] + G(r) /\ H(s) = h[x] + H(r)
    BY <1>2, <1>3, <1>4, <2>1 DEF Pick, Rest
  <2>3. r \in SUBSET D
    OBVIOUS
  <2> HIDE DEF x, r
  <2>4. /\ f[x] \in Int /\ g[x] \in Int /\ h[x] = a * f[x] + b * g[x]
        /\ F(r) \in Int /\ G(r) \in Int
    BY <1>2, <1>3, <2>2, <2>3
  <2>5. \A u, v, w, z \in Int : a * (u + v) + b * (w + z) = (a * u + b * w) + (a * v + b * z)
    OBVIOUS
  <2>6. H(r) # a * F(r) + b * G(r)
    BY <2>2, <2>4, <2>5
  <2> QED
    BY <2>2, <2>3, <2>6 DEF r
<1>6. Bad = {}
  <2>1. Bad \in SUBSET SUBSET D
    OBVIOUS
  <2> HIDE DEF Bad
  <2> QED
    BY <1>5, <2>1, FiniteDescent
<1> QED
  BY <1>6 DEF F, G, H

\* Summing one thing where a condition holds and another elsewhere is counting.
LEMMA SumCounts ==
    ASSUME NEW D, IsFiniteSet(D), NEW T \in SUBSET D, NEW a \in Int, NEW b \in Int, NEW f,
           \A x \in D : f[x] = IF x \in T THEN a ELSE b
    PROVE  SumFunctionOnSet(f, D) = a * Cardinality(T) + b * (Cardinality(D) - Cardinality(T))
<1> DEFINE F(s) == SumFunctionOnSet(f, s)
           In(s) == Cardinality(s \cap T)
           All(s) == Cardinality(s)
           Bad == {s \in SUBSET D : F(s) # a * In(s) + b * (All(s) - In(s))}
<1>1. \A s \in SUBSET D : IsFiniteSet(s) /\ \A x \in s : f[x] \in Int
  BY FS_Subset
<1>2. \A s \in SUBSET D : /\ F({}) = 0 /\ F(s) \in Int
                          /\ s # {} => F(s) = f[Pick(s)] + F(Rest(s))
  BY <1>1, SumRecursion
<1>3. \A s \in SUBSET D : In(s) \in Nat /\ All(s) \in Nat /\ IsFiniteSet(s \cap T)
  BY <1>1, FS_Intersection, FS_CardinalityType
<1>4. \A s \in SUBSET D : \A x \in s :
        /\ All(s \ {x}) = All(s) - 1
        /\ In(s \ {x}) = IF x \in T THEN In(s) - 1 ELSE In(s)
  <2> SUFFICES ASSUME NEW s \in SUBSET D, NEW x \in s
               PROVE  /\ All(s \ {x}) = All(s) - 1
                      /\ In(s \ {x}) = IF x \in T THEN In(s) - 1 ELSE In(s)
    OBVIOUS
  <2>1. (s \ {x}) \cap T = (s \cap T) \ {x} /\ (x \in s \cap T <=> x \in T)
    OBVIOUS
  <2>2. Cardinality(s \ {x}) = Cardinality(s) - 1
    BY <1>1, FS_RemoveElement
  <2>3. Cardinality((s \cap T) \ {x})
          = IF x \in s \cap T THEN Cardinality(s \cap T) - 1 ELSE Cardinality(s \cap T)
    BY <1>3, FS_RemoveElement
  <2> QED
    BY <2>1, <2>2, <2>3
<1>5. In({}) = 0 /\ All({}) = 0
  <2>1. {} \cap T = {}
    OBVIOUS
  <2> QED
    BY <2>1, FS_EmptySet
<1> HIDE DEF F, In, All
<1>6. ASSUME NEW s \in Bad PROVE \E x \in s : s \ {x} \in Bad
  <2>1. s # {}
    <3>1. a * 0 + b * (0 - 0) = 0
      OBVIOUS
    <3> QED
      BY <1>2, <1>5, <3>1
  <2> DEFINE x == Pick(s)  r == s \ {x}
  <2>2. /\ x \in s /\ F(s) = f[x] + F(r)
    BY <1>2, <2>1 DEF Pick, Rest
  <2>3. r \in SUBSET D
    OBVIOUS
  <2>4. All(r) = All(s) - 1 /\ In(r) = IF x \in T THEN In(s) - 1 ELSE In(s)
    BY <1>4, <2>2
  <2> HIDE DEF x
  <2>5. f[x] = (IF x \in T THEN a ELSE b) /\ F(r) \in Int /\ In(s) \in Int /\ All(s) \in Int
    <3>1. x \in D /\ s \in SUBSET D
      BY <2>2
    <3> HIDE DEF r, Bad
    <3>2. f[x] = IF x \in T THEN a ELSE b
      BY <3>1
    <3>3. F(r) \in Int
      BY <1>2, <2>3
    <3>4. In(s) \in Nat /\ All(s) \in Nat
      BY <1>3, <3>1
    <3> QED
      BY <3>2, <3>3, <3>4
  <2> HIDE DEF r
  <2>6. ASSUME F(r) = a * In(r) + b * (All(r) - In(r)) PROVE FALSE
    <3> DEFINE i == In(s)  n == All(s)
    <3>0. i \in Int /\ n \in Int /\ F(s) # a * i + b * (n - i)
      BY <2>5
    <3>1. CASE x \in T
      <4>1. F(s) = a + (a * (i - 1) + b * ((n - 1) - (i - 1)))
        BY <2>2, <2>4, <2>5, <2>6, <3>1
      <4> HIDE DEF i, n
      <4>2. a + (a * (i - 1) + b * ((n - 1) - (i - 1))) = a * i + b * (n - i)
        BY <3>0
      <4> QED
        BY <3>0, <4>1, <4>2
    <3>2. CASE x \notin T
      <4>1. F(s) = b + (a * i + b * ((n - 1) - i))
        BY <2>2, <2>4, <2>5, <2>6, <3>2
      <4> HIDE DEF i, n
      <4>2. b + (a * i + b * ((n - 1) - i)) = a * i + b * (n - i)
        BY <3>0
      <4> QED
        BY <3>0, <4>1, <4>2
    <3> QED
      BY <3>1, <3>2
  <2>7. r \in Bad
    BY <2>3, <2>6
  <2> QED
    BY <2>2, <2>7 DEF r
<1>7. Bad = {}
  <2>1. Bad \in SUBSET SUBSET D
    OBVIOUS
  <2> HIDE DEF Bad
  <2> QED
    BY <1>6, <2>1, FiniteDescent
<1>8. D \in SUBSET D /\ D \cap T = T
  OBVIOUS
<1>9. F(D) = a * In(D) + b * (All(D) - In(D))
  BY <1>7, <1>8
<1> QED
  BY <1>8, <1>9 DEF F, In, All

\* Renaming the indices one to one changes nothing.
LEMMA SumRenamed ==
    ASSUME NEW D, NEW E, IsFiniteSet(E), NEW p \in Bijection(E, D),
           NEW f, \A y \in D : f[y] \in Int, NEW h, \A x \in E : h[x] = f[p[x]]
    PROVE  SumFunctionOnSet(h, E) = SumFunctionOnSet(f, D)
<1> DEFINE Im(s) == {p[x] : x \in s}
           F(s) == SumFunctionOnSet(f, s)
           H(s) == SumFunctionOnSet(h, s)
           Bad == {s \in SUBSET E : H(s) # F(Im(s))}
<1>1. /\ p \in [E -> D] /\ \A x, y \in E : p[x] = p[y] => x = y
      /\ \A y \in D : \E x \in E : p[x] = y
  BY DEF Bijection, Injection, Surjection, IsInjective
<1>2. IsFiniteSet(D)
  BY FS_Surjection DEF Bijection
<1>3. \A s \in SUBSET E : IsFiniteSet(s) /\ \A x \in s : h[x] \in Int
  BY <1>1, FS_Subset
<1>4. \A s \in SUBSET E : /\ H({}) = 0 /\ H(s) \in Int
                          /\ s # {} => H(s) = h[Pick(s)] + H(Rest(s))
  BY <1>3, SumRecursion
<1>5. \A t \in SUBSET D : IsFiniteSet(t) /\ \A y \in t : f[y] \in Int
  BY <1>2, FS_Subset
<1>6. \A t \in SUBSET D : \A y \in t : F(t) = f[y] + F(t \ {y})
  BY <1>5, SumRemove
<1>7. F({}) = 0 /\ \A t \in SUBSET D : F(t) \in Int
  BY <1>5, FS_EmptySet, SumRecursion
<1> HIDE DEF F, H
<1>8. ASSUME NEW s \in Bad PROVE \E x \in s : s \ {x} \in Bad
  <2>1. s # {}
    <3>1. Im({}) = {}
      OBVIOUS
    <3> QED
      BY <1>4, <1>7, <3>1
  <2> DEFINE x == Pick(s)  r == s \ {x}
  <2>2. x \in s /\ H(s) = h[x] + H(r)
    BY <1>4, <2>1 DEF Pick, Rest
  <2> HIDE DEF x
  <2>3. Im(s) \in SUBSET D /\ p[x] \in Im(s) /\ Im(r) = Im(s) \ {p[x]}
    BY <1>1, <2>2
  <2>4. F(Im(s)) = f[p[x]] + F(Im(r))
    BY <1>6, <2>3
  <2>5. h[x] = f[p[x]]
    BY <2>2
  <2>6. H(r) # F(Im(r))
    <3> HIDE DEF Im, r
    <3> QED
      BY <2>2, <2>4, <2>5
  <2>7. r \in Bad
    BY <2>6
  <2> QED
    BY <2>2, <2>7
<1>9. Bad = {}
  <2>1. Bad \in SUBSET SUBSET E
    OBVIOUS
  <2> HIDE DEF Bad
  <2> QED
    BY <1>8, <2>1, FiniteDescent
<1>10. E \in SUBSET E /\ Im(E) = D
  BY <1>1
<1> HIDE DEF Im
<1> QED
  BY <1>9, <1>10 DEF F, H

--------------------------------------------------------------------------------
(****************************************************************************)
(* The economics of one order.                                              *)
(****************************************************************************)

\* The costs of a configuration that loads with finite ratios are positive, so that
\* the two ValueErrors of critical_fractile (newsvendor.py:32-35) are not raised.
LEMMA CostsPositive ==
    ASSUME NEW e \in Economies
    PROVE  Understock(e) \in Nat \ {0} /\ Overstock(e) \in Nat \ {0}
BY ScaleAssumption DEF Economies, Understock, Overstock

\* Per unit of price, the realized cost is Cu for each unit missing or Co for
\* each unit left over.
LEMMA UnitCost ==
    ASSUME NEW e \in Economies, NEW q \in Int, NEW d \in Int, NEW price \in Nat
    PROVE  RealizedCost(e, q, d, price) =
             price * (IF d > q THEN Understock(e) * (d - q) ELSE Overstock(e) * (q - d))
<1> DEFINE Cu == Understock(e)
           Co == Overstock(e)
<1>1. Cu \in Nat /\ Co \in Nat
  BY CostsPositive
<1>2. RealizedCost(e, q, d, price) = price * Cu * UnderUnits(q, d) + price * Co * OverUnits(q, d)
  BY DEF RealizedCost, CostBreakdown
<1> HIDE DEF Cu, Co
<1>3. CASE d > q
  <2>1. UnderUnits(q, d) = d - q /\ OverUnits(q, d) = 0
    BY <1>3 DEF UnderUnits, OverUnits
  <2> QED
    BY <1>1, <1>2, <1>3, <2>1 DEF Cu, Co
<1>4. CASE ~(d > q)
  <2>1. UnderUnits(q, d) = 0 /\ OverUnits(q, d) = q - d
    BY <1>4 DEF UnderUnits, OverUnits
  <2> QED
    BY <1>1, <1>2, <1>4, <2>1 DEF Cu, Co
<1> QED
  BY <1>3, <1>4

\* The pinball loss at the critical fractile, by the same cases.
LEMMA FractileLoss ==
    ASSUME NEW e \in Economies, NEW q \in Int, NEW d \in Int
    PROVE  Pinball(CriticalFractile(e), d, q) =
             (IF d > q THEN Understock(e) * (d - q) ELSE Overstock(e) * (q - d))
<1> DEFINE Cu == Understock(e)
           Co == Overstock(e)
           diff == d - q
<1>1. Cu \in Nat \ {0} /\ Co \in Nat \ {0} /\ diff \in Int
  BY CostsPositive
<1>2. Pinball(CriticalFractile(e), d, q) =
        IF Cu * diff >= (Cu - (Cu + Co)) * diff THEN Cu * diff ELSE (Cu - (Cu + Co)) * diff
  BY DEF Pinball, CriticalFractile
<1>3. (diff > 0 <=> d > q) /\ 0 - diff = q - d
  OBVIOUS
<1> HIDE DEF Cu, Co, diff
<1>4. (Cu - (Cu + Co)) * diff = Co * (0 - diff)
  BY <1>1
<1>5. CASE diff > 0
  <2>1. Cu * diff > 0 /\ Co * diff > 0 /\ Co * (0 - diff) = 0 - (Co * diff)
    BY <1>1, <1>5
  <2>2. Cu * diff >= Co * (0 - diff)
    BY <1>1, <2>1
  <2> QED
    BY <1>2, <1>3, <1>4, <1>5, <2>2 DEF Cu, Co, diff
<1>6. CASE ~(diff > 0)
  <2>1. Cu * (0 - diff) >= 0 /\ Co * (0 - diff) >= 0 /\ Cu * diff = 0 - (Cu * (0 - diff))
    BY <1>1, <1>6
  <2>2. Cu * diff >= Co * (0 - diff) => Cu * diff = Co * (0 - diff)
    BY <1>1, <2>1
  <2> QED
    BY <1>2, <1>3, <1>4, <1>6, <2>2 DEF Cu, Co, diff
<1> QED
  BY <1>5, <1>6

\* Why a model trained with the pinball loss at the critical fractile is the
\* optimizer (docs/adr/012): what an order costs (newsvendor.py:59-118) is,
\* up to the price, exactly the loss it is trained on (metrics.py:12-24).
THEOREM CostIsPinballLoss ==
    ASSUME NEW e \in Economies, NEW q \in Int, NEW d \in Int, NEW price \in Nat
    PROVE  RealizedCost(e, q, d, price) = price * Pinball(CriticalFractile(e), d, q)
<1>1. RealizedCost(e, q, d, price) =
        price * (IF d > q THEN Understock(e) * (d - q) ELSE Overstock(e) * (q - d))
  BY UnitCost
<1>2. Pinball(CriticalFractile(e), d, q) =
        (IF d > q THEN Understock(e) * (d - q) ELSE Overstock(e) * (q - d))
  BY FractileLoss
<1> QED
  BY <1>1, <1>2

\* At most one of the two causes costs anything (newsvendor.py:71), and none
\* does when the order meets the demand.
THEOREM AtMostOneCause ==
    ASSUME NEW e \in Economies, NEW q \in Int, NEW d \in Int, NEW price \in Nat
    PROVE  LET cost == CostBreakdown(e, q, d, price)
           IN  /\ cost.understock = 0 \/ cost.overstock = 0
               /\ q = d => cost.understock = 0 /\ cost.overstock = 0
<1>1. price * Understock(e) \in Int /\ price * Overstock(e) \in Int
  <2>1. Understock(e) \in Int /\ Overstock(e) \in Int
    BY CostsPositive
  <2> QED
    BY <2>1
<1>2. \A k \in Int : k * 0 = 0
  OBVIOUS
<1>3. UnderUnits(q, d) = 0 \/ OverUnits(q, d) = 0
  BY DEF UnderUnits, OverUnits
<1>4. q = d => UnderUnits(q, d) = 0 /\ OverUnits(q, d) = 0
  BY DEF UnderUnits, OverUnits
<1> QED
  BY <1>1, <1>2, <1>3, <1>4 DEF CostBreakdown

\* Sorting two crossed predictions never makes the forecast worse: for every
\* outcome, the losses of the two quantiles add up to no more afterwards
\* (enforce_monotonic_quantiles for the pair of quantiles recommend fits).
THEOREM UncrossingNeverHurts ==
    ASSUME NEW m \in Nat, NEW low \in 0..m, NEW high \in low..m,
           NEW a \in Int, NEW b \in Int, b < a, NEW d \in Int
    PROVE  Pinball(<<low, m>>, d, b) + Pinball(<<high, m>>, d, a)
             <= Pinball(<<low, m>>, d, a) + Pinball(<<high, m>>, d, b)
<1> DEFINE Short(p) == IF p > d THEN m * (p - d) ELSE 0
<1>1. ASSUME NEW n \in 0..m, NEW p \in Int
      PROVE  Pinball(<<n, m>>, d, p) = n * (d - p) + Short(p)
  <2> DEFINE x == d - p
  <2>1. x \in Int /\ n \in Int
    OBVIOUS
  <2>2. Pinball(<<n, m>>, d, p) = IF n * x >= (n - m) * x THEN n * x ELSE (n - m) * x
    BY DEF Pinball
  <2>3. (p > d <=> x < 0) /\ p - d = 0 - x
    OBVIOUS
  <2>4. Short(p) = IF x < 0 THEN m * (0 - x) ELSE 0
    BY <2>3
  <2> HIDE DEF x, Short
  <2>5. (n - m) * x = n * x + m * (0 - x)
    BY <2>1
  <2>6. CASE x < 0
    <3>1. m * (0 - x) >= 0
      BY <2>1, <2>6
    <3> QED
      BY <2>1, <2>2, <2>4, <2>5, <2>6, <3>1 DEF x
  <2>7. CASE ~(x < 0)
    <3>1. m * (0 - x) <= 0
      <4>1. m * x >= 0
        BY <2>1, <2>7
      <4> QED
        BY <2>1, <4>1
    <3> QED
      BY <2>1, <2>2, <2>4, <2>5, <2>7, <3>1 DEF x
  <2> QED
    BY <2>6, <2>7
<1>2. Short(a) \in Int /\ Short(b) \in Int
  OBVIOUS
<1>3. low \in 0..m /\ high \in 0..m /\ high - low \in Nat /\ a - b \in Nat
  OBVIOUS
<1> HIDE DEF Short
<1>4. /\ Pinball(<<low, m>>, d, a) = low * (d - a) + Short(a)
      /\ Pinball(<<low, m>>, d, b) = low * (d - b) + Short(b)
      /\ Pinball(<<high, m>>, d, a) = high * (d - a) + Short(a)
      /\ Pinball(<<high, m>>, d, b) = high * (d - b) + Short(b)
  BY <1>1, <1>3
<1>5. (high - low) * (a - b) >= 0
  BY <1>3
<1>6. (low * (d - a) + high * (d - b)) - (low * (d - b) + high * (d - a)) = (high - low) * (a - b)
  BY <1>3
<1> QED
  BY <1>2, <1>3, <1>4, <1>5, <1>6

\* Multiplying by a natural number keeps the order.
LEMMA TimesMono ==
    ASSUME NEW c \in Nat, NEW x \in Int, NEW y \in Int, x <= y
    PROVE  c * x <= c * y /\ c * x \in Int /\ c * y \in Int
<1>1. c * (y - x) >= 0
  <2>1. y - x \in Nat
    OBVIOUS
  <2> QED
    BY <2>1
<1>2. c * (y - x) = c * y - c * x /\ c * x \in Int /\ c * y \in Int
  OBVIOUS
<1> QED
  BY <1>1, <1>2

\* An order between the demand and another order costs no more than that one.
LEMMA CloserCostsLess ==
    ASSUME NEW e \in Economies, NEW d \in Int, NEW a \in Int, NEW b \in Int, NEW price \in Nat,
           (d <= a /\ a <= b) \/ (b <= a /\ a <= d)
    PROVE  RealizedCost(e, a, d, price) <= RealizedCost(e, b, d, price)
<1> DEFINE Cu == Understock(e)
           Co == Overstock(e)
           Unit(q) == IF d > q THEN Cu * (d - q) ELSE Co * (q - d)
<1>1. Cu \in Nat /\ Co \in Nat
  BY CostsPositive
<1>2. /\ RealizedCost(e, a, d, price) = price * Unit(a)
      /\ RealizedCost(e, b, d, price) = price * Unit(b)
  BY UnitCost
<1> HIDE DEF Cu, Co
<1>3. Unit(a) <= Unit(b) /\ Unit(a) \in Int /\ Unit(b) \in Int
  <2>1. CASE d <= a /\ a <= b
    <3>1. Co * (a - d) <= Co * (b - d) /\ Co * (a - d) \in Int /\ Co * (b - d) \in Int
      BY <1>1, <2>1, TimesMono
    <3>2. ~(d > a) /\ ~(d > b)
      BY <2>1
    <3> QED
      BY <3>1, <3>2
  <2>2. CASE ~(d <= a /\ a <= b)
    <3>1. b <= a /\ a <= d /\ d - a <= d - b /\ d - a \in Int /\ d - b \in Int
      BY <2>2
    <3>2. Cu * (d - a) <= Cu * (d - b) /\ Cu * (d - a) \in Int /\ Cu * (d - b) \in Int
      BY <1>1, <3>1, TimesMono
    <3>3. d = a => a - d = 0 /\ d - a = 0 /\ Co * (a - d) = 0 /\ Cu * (d - a) = 0
      BY <1>1
    <3>4. d = b => d = a /\ Unit(a) = Unit(b)
      BY <3>1
    <3>5. d > b \/ d = b
      BY <3>1
    <3>6. Unit(a) = Cu * (d - a)
      BY <3>1, <3>3
    <3>7. d > b => Unit(b) = Cu * (d - b)
      OBVIOUS
    <3> QED
      BY <3>2, <3>4, <3>5, <3>6, <3>7
  <2> QED
    BY <2>1, <2>2
<1> HIDE DEF Unit
<1> QED
  BY <1>2, <1>3, TimesMono

\* The cost of an order grows at least as the slope at another order says: Co per unit
\* where that order covers the demand, -Cu where it does not.
LEMMA CostSlope ==
    ASSUME NEW e \in Economies, NEW q \in Int, NEW o \in Int, NEW d \in Int,
           NEW covered \in BOOLEAN, covered => d <= q, ~covered => q <= d
    PROVE  RealizedCost(e, q, d, 1)
             + (o - q) * (IF covered THEN Overstock(e) ELSE 0 - Understock(e))
             <= RealizedCost(e, o, d, 1)
<1> DEFINE Cu == Understock(e)
           Co == Overstock(e)
<1>1. Cu \in Nat /\ Co \in Nat
  BY CostsPositive
<1>2. /\ RealizedCost(e, q, d, 1) = 1 * (IF d > q THEN Cu * (d - q) ELSE Co * (q - d))
      /\ RealizedCost(e, o, d, 1) = 1 * (IF d > o THEN Cu * (d - o) ELSE Co * (o - d))
  BY UnitCost
<1> HIDE DEF Cu, Co
<1>3. \A c, x \in Nat : c * x \in Nat /\ 1 * (c * x) = c * x
  OBVIOUS
<1>4. CASE covered
  <2>1. q - d \in Nat /\ ~(d > q)
    BY <1>4
  <2>2. RealizedCost(e, q, d, 1) = Co * (q - d)
    BY <1>1, <1>2, <1>3, <2>1
  <2>3. Co * (q - d) + (o - q) * Co = Co * (o - d)
    BY <1>1
  <2>4. CASE d > o
    <3>1. d - o \in Nat /\ 0 - (o - d) = d - o
      BY <2>4
    <3>2. Cu * (d - o) >= 0 /\ Co * (d - o) >= 0 /\ Co * (o - d) = 0 - (Co * (d - o))
      BY <1>1, <3>1
    <3>3. RealizedCost(e, o, d, 1) = Cu * (d - o)
      BY <1>1, <1>2, <1>3, <2>4, <3>1
    <3>4. Co * (o - d) <= Cu * (d - o)
      BY <1>1, <3>2
    <3> QED
      BY <1>4, <2>2, <2>3, <3>3, <3>4 DEF Cu, Co
  <2>5. CASE ~(d > o)
    <3>1. RealizedCost(e, o, d, 1) = Co * (o - d)
      BY <1>1, <1>2, <1>3, <2>5
    <3>2. Co * (o - d) \in Int
      BY <1>1
    <3> QED
      BY <1>4, <2>2, <2>3, <3>1, <3>2 DEF Cu, Co
  <2> QED
    BY <2>4, <2>5
<1>5. CASE ~covered
  <2>1. d - q \in Nat
    BY <1>5
  <2>2. RealizedCost(e, q, d, 1) = Cu * (d - q)
    <3>1. CASE d > q
      BY <1>1, <1>2, <1>3, <2>1, <3>1
    <3>2. CASE ~(d > q)
      <4>1. d = q /\ q - d = 0 /\ d - q = 0
        BY <2>1, <3>2
      <4>2. Cu * 0 = 0 /\ 1 * (Co * 0) = 0
        BY <1>1
      <4> QED
        BY <1>2, <3>2, <4>1, <4>2
    <3> QED
      BY <3>1, <3>2
  <2>3. Cu * (d - q) + (o - q) * (0 - Cu) = Cu * (d - o)
    BY <1>1
  <2>4. CASE d > o
    <3>1. RealizedCost(e, o, d, 1) = Cu * (d - o)
      BY <1>1, <1>2, <1>3, <2>4
    <3>2. Cu * (d - o) \in Int
      BY <1>1
    <3> QED
      BY <1>5, <2>2, <2>3, <3>1, <3>2 DEF Cu, Co
  <2>5. CASE ~(d > o)
    <3>1. o - d \in Nat /\ 0 - (d - o) = o - d
      BY <2>5
    <3>2. Co * (o - d) >= 0 /\ Cu * (o - d) >= 0 /\ Cu * (d - o) = 0 - (Cu * (o - d))
      BY <1>1, <3>1
    <3>3. RealizedCost(e, o, d, 1) = Co * (o - d)
      BY <1>1, <1>2, <1>3, <2>5, <3>1
    <3>4. Cu * (d - o) <= Co * (o - d)
      BY <1>1, <3>2
    <3> QED
      BY <1>5, <2>2, <2>3, <3>3, <3>4 DEF Cu, Co
  <2> QED
    BY <2>4, <2>5
<1> QED
  BY <1>4, <1>5

\* "The optimal order quantity under asymmetric over/understock costs is the demand
\* quantile at the critical fractile" (newsvendor.py:3-6), for any finite sample of
\* demands: an order that is a quantile of the sample at the critical fractile costs
\* no more over the sample than any other.
THEOREM QuantileIsOptimal ==
    ASSUME NEW e \in Economies, NEW D, IsFiniteSet(D), NEW s, \A i \in D : s[i] \in Int,
           NEW q \in Int, NEW o \in Int,
           Cardinality({i \in D : s[i] < q}) * CriticalFractile(e)[2]
             <= CriticalFractile(e)[1] * Cardinality(D),
           CriticalFractile(e)[1] * Cardinality(D)
             <= Cardinality({i \in D : s[i] <= q}) * CriticalFractile(e)[2]
    PROVE  SumFunctionOnSet([i \in D |-> RealizedCost(e, q, s[i], 1)], D)
             <= SumFunctionOnSet([i \in D |-> RealizedCost(e, o, s[i], 1)], D)
<1> DEFINE Cu == Understock(e)
           Co == Overstock(e)
           N == Cardinality(D)
           Covered == IF o >= q THEN {i \in D : s[i] <= q} ELSE {i \in D : s[i] < q}
           C == Cardinality(Covered)
           here == [i \in D |-> RealizedCost(e, q, s[i], 1)]
           there == [i \in D |-> RealizedCost(e, o, s[i], 1)]
           slope == [i \in D |-> IF i \in Covered THEN Co ELSE 0 - Cu]
           bound == [i \in D |-> 1 * here[i] + (o - q) * slope[i]]
           S(f) == SumFunctionOnSet(f, D)
<1>1. Cu \in Nat /\ Co \in Nat /\ CriticalFractile(e) = <<Cu, Cu + Co>>
  BY CostsPositive DEF CriticalFractile
<1>2. N \in Nat /\ C \in Nat /\ Covered \in SUBSET D
  <2>1. Covered \in SUBSET D
    OBVIOUS
  <2> HIDE DEF Covered
  <2> QED
    BY <2>1, FS_Subset, FS_CardinalityType
<1>3. (o - q) * ((Cu + Co) * C - Cu * N) >= 0
  <2> DEFINE k == (Cu + Co) * C - Cu * N
  <2>1. C * (Cu + Co) = (Cu + Co) * C
    BY <1>1, <1>2
  <2>2. CASE o >= q
    <3>1. C = Cardinality({i \in D : s[i] <= q})
      BY <2>2
    <3>2. Cu * N <= C * (Cu + Co)
      BY <1>1, <3>1
    <3> HIDE DEF C, N, Cu, Co
    <3>3. Cu * N \in Int /\ (Cu + Co) * C \in Int
      BY <1>1, <1>2
    <3>4. k \in Nat /\ o - q \in Nat
      BY <2>1, <2>2, <3>2, <3>3
    <3> HIDE DEF k
    <3>5. (o - q) * k >= 0
      BY <3>4
    <3> QED
      BY <3>5 DEF k
  <2>3. CASE ~(o >= q)
    <3>1. C = Cardinality({i \in D : s[i] < q})
      BY <2>3
    <3>2. C * (Cu + Co) <= Cu * N
      BY <1>1, <3>1
    <3> HIDE DEF C, N, Cu, Co
    <3>3. Cu * N \in Int /\ (Cu + Co) * C \in Int
      BY <1>1, <1>2
    <3>4. k \in Int /\ 0 - k \in Nat /\ q - o \in Nat
      BY <2>1, <2>3, <3>2, <3>3
    <3> HIDE DEF k
    <3>5. (q - o) * (0 - k) >= 0 /\ (q - o) * (0 - k) = (o - q) * k
      BY <3>4
    <3> QED
      BY <3>5 DEF k
  <2> QED
    BY <2>2, <2>3
<1>4. S(slope) = Co * C + (0 - Cu) * (N - C)
  <2>1. \A i \in D : slope[i] = IF i \in Covered THEN Co ELSE 0 - Cu
    OBVIOUS
  <2>2. Co \in Int /\ 0 - Cu \in Int
    BY <1>1
  <2>3. Covered \in SUBSET D
    BY <1>2
  <2> HIDE DEF Covered, Cu, Co, slope
  <2>4. ASSUME NEW a \in Int, NEW b \in Int, \A i \in D : slope[i] = IF i \in Covered THEN a ELSE b
        PROVE  SumFunctionOnSet(slope, D)
                 = a * Cardinality(Covered) + b * (Cardinality(D) - Cardinality(Covered))
    BY <2>3, <2>4, SumCounts
  <2> QED
    BY <2>1, <2>2, <2>4
<1>5. \A i \in D : here[i] \in Int /\ there[i] \in Int /\ slope[i] \in Int
  <2> SUFFICES ASSUME NEW i \in D PROVE here[i] \in Int /\ there[i] \in Int /\ slope[i] \in Int
    OBVIOUS
  <2>1. \A x, c \in Int : c * x \in Int /\ 1 * (c * x) \in Int
    OBVIOUS
  <2>2. \A p \in Int : RealizedCost(e, p, s[i], 1)
                        = 1 * (IF s[i] > p THEN Cu * (s[i] - p) ELSE Co * (p - s[i]))
    BY UnitCost
  <2> HIDE DEF Cu, Co
  <2>3. \A p \in Int : RealizedCost(e, p, s[i], 1) \in Int
    BY <1>1, <2>1, <2>2
  <2> QED
    BY <1>1, <2>3
<1>6. S(bound) = 1 * S(here) + (o - q) * S(slope)
  <2>1. \A i \in D : bound[i] = 1 * here[i] + (o - q) * slope[i]
    OBVIOUS
  <2>2. o - q \in Int /\ 1 \in Int
    OBVIOUS
  <2> HIDE DEF bound, here, slope
  <2> QED
    BY <1>5, <2>1, <2>2, SumLinear
<1>7. S(bound) <= S(there)
  <2>1. ASSUME NEW i \in D PROVE bound[i] \in Int /\ bound[i] <= there[i]
    <3>1. i \in Covered => s[i] <= q
      OBVIOUS
    <3>2. i \notin Covered => q <= s[i]
      OBVIOUS
    <3>3. (i \in Covered) \in BOOLEAN
      OBVIOUS
    <3> HIDE DEF Covered
    <3>4. RealizedCost(e, q, s[i], 1) + (o - q) * (IF i \in Covered THEN Co ELSE 0 - Cu)
             <= RealizedCost(e, o, s[i], 1)
      BY <3>1, <3>2, <3>3, CostSlope
    <3>5. here[i] + (o - q) * slope[i] <= there[i]
      BY <3>4
    <3>6. bound[i] = 1 * here[i] + (o - q) * slope[i]
      OBVIOUS
    <3>7. here[i] \in Int /\ slope[i] \in Int
      BY <1>5
    <3> HIDE DEF here, there, slope, bound
    <3>8. (o - q) * slope[i] \in Int
      BY <3>7
    <3> QED
      BY <3>5, <3>6, <3>7, <3>8
  <2> HIDE DEF bound, there
  <2> QED
    BY <1>5, <2>1, SumMono
<1>8. S(here) \in Int /\ S(there) \in Int
  <2> HIDE DEF here, there
  <2> QED
    BY <1>5, SumRecursion
<1> HIDE DEF S, here, there, slope, bound, C, N, Cu, Co
<1>9. Co * C + (0 - Cu) * (N - C) = (Cu + Co) * C - Cu * N
  BY <1>1, <1>2
<1>10. S(bound) = S(here) + (o - q) * ((Cu + Co) * C - Cu * N)
  BY <1>4, <1>6, <1>8, <1>9
<1>11. S(here) <= S(there)
  <2> DEFINE z == (o - q) * ((Cu + Co) * C - Cu * N)
  <2>1. z \in Int
    BY <1>1, <1>2
  <2>2. z >= 0 /\ S(bound) = S(here) + z
    BY <1>3, <1>10
  <2> HIDE DEF z
  <2> QED
    BY <1>7, <1>8, <2>1, <2>2
<1> QED
  BY <1>11 DEF S, here, there
================================================================================
