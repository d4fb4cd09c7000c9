------------------------------ MODULE SharedFacts ------------------------------
(***************************************************************************)
(* What the proofs of several components rest on, for every value of the   *)
(* constants: division and extrema of naturals, sums over finite sets, and *)
(* the operators of CircularCache and StateCache.                          *)
(***************************************************************************)
EXTENDS StateCache, Integers, FiniteSetTheorems, SequenceTheorems, TLAPS

------------------------------------------------------------------------------
(* Naturals.                                                                *)

\* What is needed of the division of the clock into seconds.
LEMMA DivBounds ==
  ASSUME NEW a \in Nat, NEW s \in Nat \ {0}
  PROVE  /\ a \div s \in Nat
         /\ s * (a \div s) <= a
         /\ a < s * (a \div s) + s
BY SMT

\* Windows a second apart are counted apart.
LEMMA DivAdvances ==
  ASSUME NEW a \in Nat, NEW b \in Nat, NEW s \in Nat \ {0}, b >= a + s
  PROVE  a \div s + 1 <= b \div s
<1> DEFINE p == a \div s
           q == b \div s
<1>1. /\ p \in Nat /\ s * p <= a
      /\ q \in Nat /\ b < s * q + s
  BY DivBounds
<1> HIDE DEF p, q
<1>2. s * p < s * q
  BY <1>1
<1>3. CASE q <= p
  <2>1. s * q <= s * p
    BY <1>1, <1>3
  <2> QED
    BY <1>1, <1>2, <2>1
<1>4. CASE p < q
  BY <1>1, <1>4 DEF p, q
<1> QED
  BY <1>1, <1>3, <1>4

LEMMA DivMonotone ==
  ASSUME NEW a \in Nat, NEW b \in Nat, NEW s \in Nat \ {0}, a <= b
  PROVE  a \div s <= b \div s
<1> DEFINE p == a \div s
           q == b \div s
<1>1. /\ p \in Nat /\ s * p <= a
      /\ q \in Nat /\ b < s * q + s
  BY DivBounds
<1> HIDE DEF p, q
<1>2. s * p < s * q + s
  BY <1>1
<1>3. CASE q + 1 <= p
  <2>1. s * (q + 1) <= s * p
    BY <1>1, <1>3
  <2>2. s * (q + 1) = s * q + s
    BY <1>1
  <2> QED
    BY <1>1, <1>2, <2>1, <2>2
<1>4. CASE p <= q
  BY <1>4 DEF p, q
<1> QED
  BY <1>1, <1>3, <1>4

\* A budget of n for each of p + 1 windows is within that of q + 1, if p <= q.
LEMMA BudgetGrows ==
  ASSUME NEW n \in Nat, NEW p \in Nat, NEW q \in Nat, p <= q
  PROVE  n * p <= n * q /\ n * p \in Nat /\ n * (p + 1) = n * p + n
BY SMT

------------------------------------------------------------------------------
(* Extrema.                                                                 *)

LessOnNat == {p \in Nat \X Nat : p[1] < p[2]}

\* There is no falling sequence of naturals without end.
LEMMA LessIsWellFounded == IsWellFoundedOn(LessOnNat, Nat)
<1>1. LessOnNat = OpToRel(<, Nat)
  BY SMT DEF LessOnNat, OpToRel
<1> QED
  BY <1>1, NatLessThanWellFounded

LEMMA LeastNatural ==
  ASSUME NEW S, S \subseteq Nat, S # {}
  PROVE  \E m \in S : \A n \in S : m <= n
<1>1. PICK m \in S : \A n \in S : << n, m >> \notin LessOnNat
  <2>1. \E m \in S : \A n \in S : ~ (<< n, m >> \in LessOnNat)
    BY LessIsWellFounded, WFMin
  <2> QED
    BY <2>1
<1>2. \A n \in S : ~ (n < m)
  BY <1>1 DEF LessOnNat
<1> QED
  BY <1>2

\* Induction over the naturals, for a set of them.
LEMMA NaturalInduction ==
  ASSUME NEW S, S \subseteq Nat, 0 \in S, \A n \in Nat : n \in S => n + 1 \in S
  PROVE  S = Nat
<1> SUFFICES ASSUME Nat \ S # {} PROVE FALSE
  OBVIOUS
<1>1. PICK m \in Nat \ S : \A n \in Nat \ S : m <= n
  BY LeastNatural
<1>2. m - 1 \in Nat /\ m - 1 < m /\ (m - 1) + 1 = m
  BY <1>1
<1> QED
  BY <1>1, <1>2

\* A finite set has a member of the largest, and one of the smallest, value.
LEMMA HighestMember ==
  ASSUME NEW K, IsFiniteSet(K), K # {}, NEW f \in [K -> Int]
  PROVE  \E m \in K : \A k \in K : f[k] <= f[m]
<1> DEFINE Has(S) == \E m \in S : \A k \in S : f[k] <= f[m]
           T == {S \in FiniteSubsetsOf(K) : S # {} /\ ~ Has(S)}
<1>1. SUFFICES ASSUME ~ Has(K) PROVE FALSE
  OBVIOUS
<1>2. K \in T
  BY <1>1 DEF FiniteSubsetsOf
<1>3. PICK S \in T : \A U \in T : << U, S >> \notin StrictSubsetOrdering(K)
  <2>1. T \subseteq FiniteSubsetsOf(K) /\ T # {}
    BY <1>2
  <2>2. IsWellFoundedOn(StrictSubsetOrdering(K), FiniteSubsetsOf(K))
    BY FS_StrictSubsetOrderingWellFounded
  <2> HIDE DEF T
  <2>3. \E S \in T : \A U \in T : ~ (<< U, S >> \in StrictSubsetOrdering(K))
    BY <2>1, <2>2, WFMin
  <2> QED
    BY <2>3
<1>4. PICK x \in S : TRUE
  BY <1>3
<1> DEFINE U == S \ {x}
<1>5. S \subseteq K /\ IsFiniteSet(S) /\ ~ Has(S) /\ x \in K
  BY <1>3, <1>4 DEF FiniteSubsetsOf
<1>6. U \subseteq K /\ IsFiniteSet(U) /\ U # S
  BY <1>4, <1>5, FS_RemoveElement
<1>7. << U, S >> \in StrictSubsetOrdering(K)
  BY <1>5, <1>6 DEF StrictSubsetOrdering
<1>8. U = {} \/ Has(U)
  BY <1>3, <1>6, <1>7 DEF FiniteSubsetsOf
<1>9. CASE U = {}
  BY <1>4, <1>5, <1>9
<1>10. CASE Has(U)
  <2>1. PICK m \in U : \A k \in U : f[k] <= f[m]
    BY <1>10
  <2>2. CASE f[x] <= f[m]
    <3>1. \A k \in S : f[k] <= f[m]
      BY <2>1, <2>2
    <3> QED
      BY <1>5, <2>1, <3>1
  <2>3. CASE ~ (f[x] <= f[m])
    <3>1. \A k \in S : f[k] <= f[x]
      BY <1>5, <2>1, <2>3
    <3> QED
      BY <1>4, <1>5, <3>1
  <2> QED
    BY <2>2, <2>3
<1> QED
  BY <1>8, <1>9, <1>10

LEMMA LowestMember ==
  ASSUME NEW K, IsFiniteSet(K), K # {}, NEW f \in [K -> Int]
  PROVE  \E m \in K : \A k \in K : f[m] <= f[k]
<1> DEFINE g == [k \in K |-> -f[k]]
<1>1. g \in [K -> Int]
  OBVIOUS
<1>2. PICK m \in K : \A k \in K : g[k] <= g[m]
  <2> HIDE DEF g
  <2> QED
    BY <1>1, HighestMember
<1>3. \A k \in K : f[m] <= f[k]
  <2> TAKE k \in K
  <2>1. -f[k] <= -f[m] /\ f[k] \in Int /\ f[m] \in Int
    BY <1>2
  <2> QED
    BY <2>1
<1> QED
  BY <1>3

------------------------------------------------------------------------------
(* Sums over finite sets.                                                   *)

\* Every set of subsets of a finite set has a smallest member.
LEMMA SmallestMember ==
  ASSUME NEW S, IsFiniteSet(S), NEW T, T \subseteq SUBSET S, T # {}
  PROVE  \E s \in T : \A u \in T : ~(u \subseteq s /\ u # s)
<1>1. T \subseteq FiniteSubsetsOf(S)
  BY FS_Subset DEF FiniteSubsetsOf
<1>2. IsWellFoundedOn(StrictSubsetOrdering(S), FiniteSubsetsOf(S))
  BY FS_StrictSubsetOrderingWellFounded
<1>3. \E s \in T : \A u \in T : ~ (<< u, s >> \in StrictSubsetOrdering(S))
  BY <1>1, <1>2, WFMin
<1> QED
  BY <1>3 DEF StrictSubsetOrdering

First(s) == CHOOSE x \in s : TRUE

\* h is the recursive function that the sum of f over S is defined by.
IsSum(f, S, h) ==
  h = [s \in SUBSET S |-> IF s = {} THEN 0 ELSE f[First(s)] + h[s \ {First(s)}]]

LEMMA FirstIsMember ==
  ASSUME NEW s, s # {}
  PROVE  First(s) \in s
BY DEF First

LEMMA IsSumAt ==
  ASSUME NEW f, NEW S, NEW h, IsSum(f, S, h), NEW s \in SUBSET S
  PROVE  h[s] = IF s = {} THEN 0 ELSE f[First(s)] + h[s \ {First(s)}]
<1> DEFINE e(u) == IF u = {} THEN 0 ELSE f[First(u)] + h[u \ {First(u)}]
<1>1. h = [u \in SUBSET S |-> e(u)]
  BY DEF IsSum
<1> HIDE DEF e
<1>2. h[s] = e(s)
  BY <1>1
<1> QED
  BY <1>2 DEF e

\* A sum looks only at the members of its set.
LEMMA SumLocal ==
  ASSUME NEW s, IsFiniteSet(s), NEW S, NEW U, s \subseteq S, s \subseteq U,
         NEW f, NEW h, IsSum(f, S, h), NEW g, NEW k, IsSum(g, U, k),
         \A x \in s : f[x] = g[x]
  PROVE  h[s] = k[s]
<1> DEFINE T == {u \in SUBSET s : h[u] # k[u]}
<1>1. SUFFICES ASSUME T # {} PROVE FALSE
  OBVIOUS
<1>2. PICK m \in T : \A u \in T : ~(u \subseteq m /\ u # m)
  <2>1. T \subseteq SUBSET s
    OBVIOUS
  <2> HIDE DEF T
  <2> QED
    BY <1>1, <2>1, SmallestMember
<1>3. m \in SUBSET S /\ m \in SUBSET U /\ m \in SUBSET s /\ h[m] # k[m]
  BY <1>2
<1>4. /\ h[m] = IF m = {} THEN 0 ELSE f[First(m)] + h[m \ {First(m)}]
      /\ k[m] = IF m = {} THEN 0 ELSE g[First(m)] + k[m \ {First(m)}]
  <2> HIDE DEF T
  <2>1. m \in SUBSET S /\ m \in SUBSET U
    BY <1>3
  <2>2. h[m] = IF m = {} THEN 0 ELSE f[First(m)] + h[m \ {First(m)}]
    BY <2>1, IsSumAt
  <2>3. k[m] = IF m = {} THEN 0 ELSE g[First(m)] + k[m \ {First(m)}]
    BY <2>1, IsSumAt
  <2> QED
    BY <2>2, <2>3
<1>5. m # {}
  BY <1>3, <1>4
<1>6. First(m) \in m
  BY <1>5, FirstIsMember
<1>7. h[m \ {First(m)}] = k[m \ {First(m)}]
  <2> DEFINE v == m \ {First(m)}
  <2>1. v \in SUBSET s /\ v \subseteq m /\ v # m
    BY <1>3, <1>6
  <2> HIDE DEF v
  <2>2. v \notin T
    BY <1>2, <2>1
  <2>3. h[v] = k[v]
    BY <2>1, <2>2
  <2> QED
    BY <2>3 DEF v
<1> QED
  BY <1>3, <1>4, <1>6, <1>7

\* There is such a function for every finite set.
LEMMA SumExists ==
  ASSUME NEW S, IsFiniteSet(S), NEW f
  PROVE  \E h : IsSum(f, S, h)
<1> DEFINE T == {u \in SUBSET S : ~ \E h : IsSum(f, u, h)}
<1>1. SUFFICES ASSUME T # {} PROVE FALSE
  OBVIOUS
<1>2. PICK m \in T : \A u \in T : ~(u \subseteq m /\ u # m)
  <2>1. T \subseteq SUBSET S
    OBVIOUS
  <2> HIDE DEF T
  <2> QED
    BY <1>1, <2>1, SmallestMember
<1>3. m \in SUBSET S /\ ~ \E h : IsSum(f, m, h)
  BY <1>2
<1>4. \A u \in SUBSET m : u # m => \E h : IsSum(f, u, h)
  BY <1>2, <1>3
<1> DEFINE Part(u) == CHOOSE h : IsSum(f, u, h)
           val(s) == IF s = {} THEN 0 ELSE f[First(s)] + Part(s \ {First(s)})[s \ {First(s)}]
           h == [s \in SUBSET m |-> val(s)]
<1>5. \A u \in SUBSET m : u # m => IsSum(f, u, Part(u))
  BY <1>4
<1>6. \A u \in SUBSET m : IsFiniteSet(u)
  BY <1>3, FS_Subset
<1> HIDE DEF T, Part
<1>7. ASSUME NEW s \in SUBSET m, s # {}
      PROVE  h[s \ {First(s)}] = Part(s \ {First(s)})[s \ {First(s)}]
  <2> DEFINE u == s \ {First(s)}
             v == u \ {First(u)}
  <2>1. First(s) \in s
    BY <1>7, FirstIsMember
  <2>2. u \in SUBSET m /\ u # m
    BY <2>1
  <2>3. v \in SUBSET m /\ v # m /\ v \subseteq u /\ u \subseteq u
    BY <2>2
  <2>4. IsSum(f, u, Part(u)) /\ IsSum(f, v, Part(v)) /\ IsFiniteSet(v)
    BY <1>5, <1>6, <2>2, <2>3
  <2>5. Part(u)[u] = IF u = {} THEN 0 ELSE f[First(u)] + Part(u)[v]
    <3> HIDE DEF u
    <3> QED
      BY <2>4, IsSumAt
  <2>6. Part(u)[v] = Part(v)[v]
    <3> HIDE DEF u, v
    <3> QED
      BY <2>3, <2>4, SumLocal
  <2>7. h[u] = val(u)
    BY <2>2
  <2> QED
    BY <2>5, <2>6, <2>7
<1>8. h = [s \in SUBSET m |-> IF s = {} THEN 0 ELSE f[First(s)] + h[s \ {First(s)}]]
  <2>1. \A s \in SUBSET m : val(s) = IF s = {} THEN 0 ELSE f[First(s)] + h[s \ {First(s)}]
    BY <1>7
  <2> QED
    BY <2>1
<1>9. IsSum(f, m, h)
  BY <1>8 DEF IsSum
<1> QED
  BY <1>3, <1>9

LEMMA SumUnfolds ==
  ASSUME NEW f, NEW S
  PROVE  SumFunctionOnSet(f, S) = (CHOOSE h : IsSum(f, S, h))[S]
BY DEF SumFunctionOnSet, FoldFunctionOnSet, MapThenFoldSet, IsSum, First

LEMMA SumOfIs ==
  ASSUME NEW S, IsFiniteSet(S), NEW f, NEW U, S \subseteq U, NEW h, IsSum(f, U, h)
  PROVE  SumFunctionOnSet(f, S) = h[S]
<1> DEFINE k == CHOOSE k : IsSum(f, S, k)
<1>1. IsSum(f, S, k)
  BY SumExists
<1> HIDE DEF k
<1>2. k[S] = h[S]
  BY <1>1, SumLocal
<1> QED
  BY <1>2, SumUnfolds DEF k

LEMMA SumOfStep ==
  ASSUME NEW S, IsFiniteSet(S), NEW f
  PROVE  SumFunctionOnSet(f, S) = IF S = {} THEN 0 ELSE f[First(S)] + SumFunctionOnSet(f, S \ {First(S)})
<1>1. PICK h : IsSum(f, S, h)
  BY SumExists
<1> DEFINE V == S \ {First(S)}
<1>2. V \subseteq S /\ IsFiniteSet(V)
  BY FS_Subset
<1> HIDE DEF V
<1>3. SumFunctionOnSet(f, S) = h[S] /\ SumFunctionOnSet(f, V) = h[V]
  BY <1>1, <1>2, SumOfIs
<1>4. h[S] = IF S = {} THEN 0 ELSE f[First(S)] + h[S \ {First(S)}]
  BY <1>1, IsSumAt
<1> QED
  BY <1>3, <1>4 DEF V

LEMMA SumOfEmpty ==
  ASSUME NEW f
  PROVE  SumFunctionOnSet(f, {}) = 0
BY FS_EmptySet, SumOfStep

LEMMA SumOfWhole ==
  ASSUME NEW f
  PROVE  SumFunction(f) = SumFunctionOnSet(f, DOMAIN f)
BY DEF SumFunction, SumFunctionOnSet, FoldFunction, FoldFunctionOnSet

\* Two functions that agree on a set have one sum over it.
LEMMA SumOfAgree ==
  ASSUME NEW S, IsFiniteSet(S), NEW f, NEW g, \A x \in S : f[x] = g[x]
  PROVE  SumFunctionOnSet(f, S) = SumFunctionOnSet(g, S)
<1>1. PICK h : IsSum(f, S, h)
  BY SumExists
<1>2. PICK k : IsSum(g, S, k)
  BY SumExists
<1>3. h[S] = k[S]
  BY <1>1, <1>2, SumLocal
<1>4. SumFunctionOnSet(f, S) = h[S] /\ SumFunctionOnSet(g, S) = k[S]
  BY <1>1, <1>2, SumOfIs
<1> QED
  BY <1>3, <1>4

LEMMA SumOfInt ==
  ASSUME NEW S, IsFiniteSet(S), NEW f, \A x \in S : f[x] \in Int
  PROVE  SumFunctionOnSet(f, S) \in Int
<1> DEFINE T == {u \in SUBSET S : SumFunctionOnSet(f, u) \notin Int}
<1>1. SUFFICES ASSUME T # {} PROVE FALSE
  BY DEF T
<1>2. PICK m \in T : \A u \in T : ~(u \subseteq m /\ u # m)
  <2>1. T \subseteq SUBSET S
    OBVIOUS
  <2> HIDE DEF T
  <2> QED
    BY <1>1, <2>1, SmallestMember
<1>3. m \in SUBSET S /\ SumFunctionOnSet(f, m) \notin Int /\ IsFiniteSet(m)
  BY <1>2, FS_Subset
<1>4. SumFunctionOnSet(f, m) = IF m = {} THEN 0 ELSE f[First(m)] + SumFunctionOnSet(f, m \ {First(m)})
  BY <1>3, SumOfStep
<1>5. m # {} /\ First(m) \in m
  BY <1>3, <1>4, FirstIsMember
<1> DEFINE v == m \ {First(m)}
<1>6. v \in SUBSET S /\ v \subseteq m /\ v # m
  BY <1>3, <1>5
<1> HIDE DEF v
<1>7. v \notin T
  BY <1>2, <1>6
<1>8. SumFunctionOnSet(f, v) \in Int /\ f[First(m)] \in Int
  BY <1>3, <1>5, <1>6, <1>7
<1>9. SumFunctionOnSet(f, m) = f[First(m)] + SumFunctionOnSet(f, v)
  BY <1>4, <1>5 DEF v
<1> QED
  BY <1>3, <1>8, <1>9

\* A member can be taken out of a sum, whichever is the first.
LEMMA SumOfRemove ==
  ASSUME NEW S, IsFiniteSet(S), NEW f, \A x \in S : f[x] \in Int, NEW x \in S
  PROVE  SumFunctionOnSet(f, S) = f[x] + SumFunctionOnSet(f, S \ {x})
<1> DEFINE T == {u \in SUBSET S : \E y \in u : SumFunctionOnSet(f, u) # f[y] + SumFunctionOnSet(f, u \ {y})}
<1>1. SUFFICES ASSUME T # {} PROVE FALSE
  BY DEF T
<1>2. PICK m \in T : \A u \in T : ~(u \subseteq m /\ u # m)
  <2>1. T \subseteq SUBSET S
    OBVIOUS
  <2> HIDE DEF T
  <2> QED
    BY <1>1, <2>1, SmallestMember
<1>3. PICK y \in m : SumFunctionOnSet(f, m) # f[y] + SumFunctionOnSet(f, m \ {y})
  BY <1>2
<1>4. m \in SUBSET S /\ m # {}
  BY <1>2
<1> DEFINE c == First(m)
           v == m \ {c}
           w == m \ {y}
           r == v \ {y}
<1>5. c \in m /\ r = w \ {c}
  BY <1>4, FirstIsMember
<1>6. IsFiniteSet(m) /\ IsFiniteSet(v) /\ IsFiniteSet(w) /\ IsFiniteSet(r)
  BY <1>4, FS_Subset
<1>7. SumFunctionOnSet(f, m) = f[c] + SumFunctionOnSet(f, v)
  BY <1>4, <1>6, SumOfStep
<1>8. c # y
  BY <1>3, <1>7
<1>9. /\ v \in SUBSET S /\ v \subseteq m /\ v # m /\ y \in v
      /\ w \in SUBSET S /\ w \subseteq m /\ w # m /\ c \in w
  BY <1>3, <1>4, <1>5, <1>8
<1> HIDE DEF c, v, w, r
<1>10. v \notin T /\ w \notin T
  BY <1>2, <1>9
<1>11. SumFunctionOnSet(f, v) = f[y] + SumFunctionOnSet(f, r) /\ SumFunctionOnSet(f, w) = f[c] + SumFunctionOnSet(f, w \ {c})
  BY <1>9, <1>10 DEF r
<1>12. SumFunctionOnSet(f, r) \in Int
  BY <1>6, <1>9, SumOfInt DEF r
<1>13. f[c] \in Int /\ f[y] \in Int
  BY <1>3, <1>4, <1>5
<1>14. SumFunctionOnSet(f, m) = f[y] + SumFunctionOnSet(f, w)
  BY <1>5, <1>7, <1>11, <1>12, <1>13
<1> QED
  BY <1>3, <1>14 DEF w

LEMMA SumOfAdd ==
  ASSUME NEW S, IsFiniteSet(S), NEW x, x \notin S, NEW f, \A y \in S \cup {x} : f[y] \in Int
  PROVE  SumFunctionOnSet(f, S \cup {x}) = f[x] + SumFunctionOnSet(f, S)
<1>1. IsFiniteSet(S \cup {x}) /\ (S \cup {x}) \ {x} = S
  BY FS_AddElement
<1> QED
  BY <1>1, SumOfRemove

\* A sum of which one term changes.
LEMMA SumOfChange ==
  ASSUME NEW S, IsFiniteSet(S), NEW x \in S, NEW f, NEW g,
         \A y \in S : f[y] \in Int /\ g[y] \in Int, \A y \in S \ {x} : g[y] = f[y]
  PROVE  SumFunctionOnSet(g, S) = SumFunctionOnSet(f, S) - f[x] + g[x] /\ SumFunctionOnSet(f, S) \in Int
<1>1. SumFunctionOnSet(f, S) = f[x] + SumFunctionOnSet(f, S \ {x})
  BY SumOfRemove
<1>2. SumFunctionOnSet(g, S) = g[x] + SumFunctionOnSet(g, S \ {x})
  BY SumOfRemove
<1>3. IsFiniteSet(S \ {x})
  BY FS_RemoveElement
<1>4. SumFunctionOnSet(g, S \ {x}) = SumFunctionOnSet(f, S \ {x}) /\ SumFunctionOnSet(f, S \ {x}) \in Int
  BY <1>3, SumOfAgree, SumOfInt
<1>5. f[x] \in Int /\ g[x] \in Int
  OBVIOUS
<1> QED
  BY <1>1, <1>2, <1>4, <1>5

\* A sum grows with its terms.
LEMMA SumOfMonotone ==
  ASSUME NEW S, IsFiniteSet(S), NEW f, NEW g,
         \A y \in S : f[y] \in Int /\ g[y] \in Int /\ f[y] <= g[y]
  PROVE  SumFunctionOnSet(f, S) <= SumFunctionOnSet(g, S)
<1> DEFINE T == {u \in SUBSET S : ~(SumFunctionOnSet(f, u) <= SumFunctionOnSet(g, u))}
<1>1. SUFFICES ASSUME T # {} PROVE FALSE
  BY DEF T
<1>2. PICK m \in T : \A u \in T : ~(u \subseteq m /\ u # m)
  <2>1. T \subseteq SUBSET S
    OBVIOUS
  <2> HIDE DEF T
  <2> QED
    BY <1>1, <2>1, SmallestMember
<1>3. m \in SUBSET S /\ ~(SumFunctionOnSet(f, m) <= SumFunctionOnSet(g, m)) /\ IsFiniteSet(m)
  BY <1>2, FS_Subset
<1>4. /\ SumFunctionOnSet(f, m) = IF m = {} THEN 0 ELSE f[First(m)] + SumFunctionOnSet(f, m \ {First(m)})
      /\ SumFunctionOnSet(g, m) = IF m = {} THEN 0 ELSE g[First(m)] + SumFunctionOnSet(g, m \ {First(m)})
  BY <1>3, SumOfStep
<1>5. m # {} /\ First(m) \in m
  BY <1>3, <1>4, FirstIsMember
<1> DEFINE c == First(m)
           v == m \ {c}
<1>6. v \in SUBSET S /\ v \subseteq m /\ v # m /\ IsFiniteSet(v) /\ c \in S
  BY <1>3, <1>5, FS_Subset
<1>7. SumFunctionOnSet(f, m) = f[c] + SumFunctionOnSet(f, v) /\ SumFunctionOnSet(g, m) = g[c] + SumFunctionOnSet(g, v)
  BY <1>4, <1>5
<1> HIDE DEF v, c
<1>8. v \notin T
  BY <1>2, <1>6
<1>9. SumFunctionOnSet(f, v) <= SumFunctionOnSet(g, v) /\ f[c] \in Int /\ g[c] \in Int /\ f[c] <= g[c]
  BY <1>6, <1>8
<1>10. SumFunctionOnSet(f, v) \in Int /\ SumFunctionOnSet(g, v) \in Int
  BY <1>6, SumOfInt
<1> QED
  BY <1>3, <1>7, <1>9, <1>10

LEMMA SumOfZero ==
  ASSUME NEW S, IsFiniteSet(S), NEW f, \A y \in S : f[y] = 0
  PROVE  SumFunctionOnSet(f, S) = 0
<1> DEFINE T == {u \in SUBSET S : SumFunctionOnSet(f, u) # 0}
<1>1. SUFFICES ASSUME T # {} PROVE FALSE
  BY DEF T
<1>2. PICK m \in T : \A u \in T : ~(u \subseteq m /\ u # m)
  <2>1. T \subseteq SUBSET S
    OBVIOUS
  <2> HIDE DEF T
  <2> QED
    BY <1>1, <2>1, SmallestMember
<1>3. m \in SUBSET S /\ SumFunctionOnSet(f, m) # 0 /\ IsFiniteSet(m)
  BY <1>2, FS_Subset
<1>4. SumFunctionOnSet(f, m) = IF m = {} THEN 0 ELSE f[First(m)] + SumFunctionOnSet(f, m \ {First(m)})
  BY <1>3, SumOfStep
<1>5. m # {} /\ First(m) \in m
  BY <1>3, <1>4, FirstIsMember
<1> DEFINE v == m \ {First(m)}
<1>6. v \in SUBSET S /\ v \subseteq m /\ v # m
  BY <1>3, <1>5
<1> HIDE DEF v
<1>7. v \notin T
  BY <1>2, <1>6
<1> QED
  BY <1>3, <1>4, <1>5, <1>6, <1>7 DEF v

\* One equal term, or two.
LEMMA SumOfConstant ==
  ASSUME NEW S, IsFiniteSet(S), Cardinality(S) \in {1, 2}, NEW f, NEW v \in Int, \A y \in S : f[y] = v
  PROVE  SumFunctionOnSet(f, S) = Cardinality(S) * v
<1>1. S # {}
  BY FS_EmptySet
<1>2. PICK x \in S : TRUE
  BY <1>1
<1> DEFINE R == S \ {x}
<1>3. IsFiniteSet(R) /\ Cardinality(R) = Cardinality(S) - 1
  BY <1>2, FS_RemoveElement
<1>4. SumFunctionOnSet(f, S) = v + SumFunctionOnSet(f, R)
  BY <1>2, SumOfRemove
<1>5. CASE Cardinality(S) = 1
  <2>1. Cardinality(R) = 0
    BY <1>3, <1>5
  <2>2. R = {}
    BY <1>3, <2>1, FS_EmptySet
  <2>3. SumFunctionOnSet(f, R) = 0
    BY <2>2, SumOfEmpty
  <2> QED
    BY <1>4, <1>5, <2>3
<1>6. CASE Cardinality(S) = 2
  <2>1. Cardinality(R) = 1
    BY <1>3, <1>6
  <2>2. PICK y \in R : R = {y}
    BY <1>3, <2>1, FS_Singleton
  <2>3. SumFunctionOnSet(f, R) = f[y] + SumFunctionOnSet(f, R \ {y})
    <3>1. \A z \in R : f[z] \in Int
      OBVIOUS
    <3> HIDE DEF R
    <3> QED
      BY <1>3, <3>1, SumOfRemove
  <2>4. R \ {y} = {} /\ f[y] = v
    BY <2>2
  <2>5. SumFunctionOnSet(f, R) = v
    BY <2>3, <2>4, SumOfEmpty
  <2> QED
    BY <1>4, <1>6, <2>5
<1> QED
  BY <1>5, <1>6

\* Terms that are not negative only add to a sum.
LEMMA SumOfSubset ==
  ASSUME NEW S, IsFiniteSet(S), NEW f, \A y \in S : f[y] \in Nat, NEW R, R \subseteq S
  PROVE  SumFunctionOnSet(f, R) <= SumFunctionOnSet(f, S) /\ SumFunctionOnSet(f, R) \in Nat
<1> DEFINE T == {u \in SUBSET S : R \subseteq u /\ ~(SumFunctionOnSet(f, R) <= SumFunctionOnSet(f, u))}
<1>1. T = {}
  <2>1. SUFFICES ASSUME T # {} PROVE FALSE
    OBVIOUS
  <2>2. PICK m \in T : \A u \in T : ~(u \subseteq m /\ u # m)
    <3>1. T \subseteq SUBSET S
      OBVIOUS
    <3> HIDE DEF T
    <3> QED
      BY <2>1, <3>1, SmallestMember
  <2>3. /\ m \in SUBSET S /\ R \subseteq m /\ ~(SumFunctionOnSet(f, R) <= SumFunctionOnSet(f, m))
        /\ IsFiniteSet(m) /\ IsFiniteSet(R)
    BY <2>2, FS_Subset
  <2>4. SumFunctionOnSet(f, R) \in Int
    BY <2>3, SumOfInt
  <2>5. m # R
    BY <2>3, <2>4
  <2>6. PICK x \in m : x \notin R
    BY <2>3, <2>5
  <2> DEFINE v == m \ {x}
  <2>7. v \in SUBSET S /\ R \subseteq v /\ v \subseteq m /\ v # m /\ IsFiniteSet(v) /\ f[x] \in Nat
    BY <2>3, <2>6, FS_Subset
  <2>8. SumFunctionOnSet(f, m) = f[x] + SumFunctionOnSet(f, v)
    BY <2>3, <2>6, SumOfRemove
  <2> HIDE DEF v
  <2>9. SumFunctionOnSet(f, R) <= SumFunctionOnSet(f, v) /\ SumFunctionOnSet(f, v) \in Int
    BY <2>2, <2>7, SumOfInt
  <2> QED
    BY <2>3, <2>4, <2>7, <2>8, <2>9
<1>2. SumFunctionOnSet(f, R) <= SumFunctionOnSet(f, S)
  BY <1>1
<1>3. IsFiniteSet(R)
  BY FS_Subset
<1> DEFINE z == [y \in R |-> 0]
<1>4. SumFunctionOnSet(z, R) <= SumFunctionOnSet(f, R) /\ SumFunctionOnSet(z, R) = 0
  <2>1. \A y \in R : z[y] = 0 /\ z[y] \in Int /\ f[y] \in Int /\ z[y] <= f[y]
    OBVIOUS
  <2> HIDE DEF z
  <2> QED
    BY <1>3, <2>1, SumOfMonotone, SumOfZero
<1>5. SumFunctionOnSet(f, R) \in Int
  BY <1>3, SumOfInt
<1> QED
  BY <1>2, <1>4, <1>5

------------------------------------------------------------------------------
(* Cardinalities.                                                           *)

\* A set that only one member may have joined or left.
LEMMA CardinalityOfChange ==
  ASSUME NEW A, IsFiniteSet(A), NEW B, NEW x, A \ {x} = B \ {x}
  PROVE  /\ IsFiniteSet(B) /\ Cardinality(A) \in Nat /\ Cardinality(B) \in Nat
         /\ Cardinality(B) = Cardinality(A) - (IF x \in A THEN 1 ELSE 0) + (IF x \in B THEN 1 ELSE 0)
<1> DEFINE C == A \ {x}
<1>1. IsFiniteSet(C) /\ Cardinality(C) \in Nat
  BY FS_Subset, FS_CardinalityType
<1>2. IsFiniteSet(C \cup {x}) /\ Cardinality(C \cup {x}) = Cardinality(C) + 1
  BY <1>1, FS_AddElement
<1>3. (x \in A => A = C \cup {x}) /\ (x \notin A => A = C)
  OBVIOUS
<1>4. (x \in B => B = C \cup {x}) /\ (x \notin B => B = C)
  OBVIOUS
<1>5. /\ x \in A => Cardinality(A) = Cardinality(C) + 1
      /\ x \notin A => Cardinality(A) = Cardinality(C)
  BY <1>2, <1>3
<1>6. /\ x \in B => Cardinality(B) = Cardinality(C) + 1
      /\ x \notin B => Cardinality(B) = Cardinality(C)
      /\ IsFiniteSet(B)
  BY <1>1, <1>2, <1>4
<1> HIDE DEF C
<1> QED
  BY <1>1, <1>5, <1>6

------------------------------------------------------------------------------
(* One shard: a new cache is well formed, and dropping an expired entry or  *)
(* storing a new one leaves it so, whatever its keys and values.            *)

\* newCircularCache gives a well-formed cache without entries.
LEMMA NewWellFormed ==
  ASSUME NEW K, NEW V, NEW n \in Nat \ {0}, NEW ttl \in Nat
  PROVE  /\ WellFormed(K, V, newCircularCache(n, ttl))
         /\ newCircularCache(n, ttl).maxEntries = n
         /\ newCircularCache(n, ttl).ttl = ttl
         /\ newCircularCache(n, ttl).items = [k \in {} |-> 0]
<1> DEFINE c == newCircularCache(n, ttl)
<1>1. /\ c.maxEntries = n /\ c.ttl = ttl /\ c.items = [k \in {} |-> 0] /\ DOMAIN c.items = {}
      /\ c.slots = [i \in 0..(n-1) |-> EmptySlot] /\ c.free = << >>
      /\ c.usedSlots = 0 /\ c.nextEvict = 0 /\ c.len = 0
  BY DEF newCircularCache
<1>2. WellTyped(K, V, c)
  <2>1. c = [ maxEntries |-> c.maxEntries, ttl |-> c.ttl, items |-> c.items, slots |-> c.slots,
              free |-> c.free, usedSlots |-> c.usedSlots,
              nextEvict |-> c.nextEvict, len |-> c.len ]
    BY DEF newCircularCache
  <2>2. IsFiniteSet(DOMAIN c.items)
    BY <1>1, FS_EmptySet
  <2>3. c.slots \in [SlotsOf(c) -> SlotTypes(K, V)]
    BY <1>1 DEF SlotsOf, SlotTypes
  <2> QED
    BY <1>1, <2>1, <2>2, <2>3 DEF WellTyped, SlotsOf
<1>3. MapMatchesSlots(c)
  BY <1>1 DEF MapMatchesSlots, SlotsOf, EmptySlot
<1>4. FreeMatchesSlots(c)
  BY <1>1 DEF FreeMatchesSlots, SlotsOf, EmptySlot
<1>5. LenMatchesItems(c)
  BY <1>1, FS_EmptySet DEF LenMatchesItems
<1> QED
  BY <1>1, <1>2, <1>3, <1>4, <1>5 DEF WellFormed

\* Dropping the entry of k: its slot goes onto the free stack, and no other
\* entry is touched.
LEMMA RemoveSlotWellFormed ==
  ASSUME NEW K, NEW V, NEW c, WellFormed(K, V, c), NEW k \in DOMAIN c.items
  PROVE  LET r == RemoveSlot(c, c.items[k]) IN
           /\ WellFormed(K, V, r)
           /\ r.maxEntries = c.maxEntries /\ r.ttl = c.ttl
           /\ DOMAIN r.items = DOMAIN c.items \ {k}
           /\ \A j \in DOMAIN r.items :
                r.items[j] = c.items[j] /\ r.slots[r.items[j]] = c.slots[c.items[j]]
<1> DEFINE idx == c.items[k]
           r == RemoveSlot(c, idx)
<1>1. /\ idx \in SlotsOf(c) /\ c.slots[idx].used /\ c.slots[idx].key = k
      /\ c.slots[idx] \in SlotTypes(K, V)
  BY DEF WellFormed, WellTyped, MapMatchesSlots
<1>2. c = [ maxEntries |-> c.maxEntries, ttl |-> c.ttl, items |-> c.items, slots |-> c.slots,
            free |-> c.free, usedSlots |-> c.usedSlots,
            nextEvict |-> c.nextEvict, len |-> c.len ]
  BY DEF WellFormed, WellTyped
<1>3. /\ r.maxEntries = c.maxEntries /\ r.ttl = c.ttl /\ r.items = Delete(c.items, k)
      /\ r.slots = [c.slots EXCEPT ![idx] = EmptySlot]
      /\ r.free = Append(c.free, idx) /\ r.usedSlots = c.usedSlots
      /\ r.nextEvict = c.nextEvict /\ r.len = c.len - 1
      /\ r = [ maxEntries |-> r.maxEntries, ttl |-> r.ttl, items |-> r.items, slots |-> r.slots,
               free |-> r.free, usedSlots |-> r.usedSlots,
               nextEvict |-> r.nextEvict, len |-> r.len ]
  BY <1>1, <1>2 DEF RemoveSlot
<1>4. /\ DOMAIN r.items = DOMAIN c.items \ {k}
      /\ \A j \in DOMAIN c.items \ {k} : r.items[j] = c.items[j]
      /\ r.items = [j \in DOMAIN r.items |-> c.items[j]]
  BY <1>3 DEF Delete, Restrict
<1>5. \A j \in DOMAIN c.items \ {k} : c.items[j] # idx
  BY <1>1 DEF WellFormed, MapMatchesSlots
<1>6. SlotsOf(r) = SlotsOf(c)
  BY <1>3 DEF SlotsOf
<1>7. \A i \in SlotsOf(c) : r.slots[i] = IF i = idx THEN EmptySlot ELSE c.slots[i]
  BY <1>3 DEF WellFormed, WellTyped
<1>8. /\ c.free \in Seq(SlotsOf(c)) /\ Len(c.free) \in Nat
      /\ Len(r.free) = Len(c.free) + 1
      /\ r.free \in Seq(SlotsOf(c))
      /\ \A i \in 1..Len(c.free) : r.free[i] = c.free[i]
      /\ r.free[Len(c.free) + 1] = idx
  BY <1>1, <1>3 DEF WellFormed, WellTyped
<1>9. LenMatchesItems(r) /\ c.len # 0 /\ IsFiniteSet(DOMAIN r.items)
  <2>1. /\ IsFiniteSet(DOMAIN c.items) /\ c.len = Cardinality(DOMAIN c.items)
        /\ c.len + Len(c.free) = c.usedSlots /\ c.len \in Nat /\ c.usedSlots \in Nat
    BY DEF WellFormed, WellTyped, LenMatchesItems
  <2>2. /\ Cardinality(DOMAIN r.items) = c.len - 1 /\ IsFiniteSet(DOMAIN r.items)
    BY <1>4, <2>1, FS_RemoveElement
  <2>3. Cardinality(DOMAIN r.items) \in Nat
    BY <2>2, FS_CardinalityType
  <2> QED
    BY <1>3, <1>8, <2>1, <2>2, <2>3 DEF LenMatchesItems
<1>10. WellTyped(K, V, r)
  <2>1. r.items \in [DOMAIN r.items -> SlotsOf(r)] /\ DOMAIN r.items \subseteq K
    BY <1>4, <1>6 DEF WellFormed, WellTyped
  <2>2. r.slots \in [SlotsOf(r) -> SlotTypes(K, V)]
    BY <1>3, <1>6 DEF WellFormed, WellTyped, SlotTypes
  <2>3. r.len \in 0..r.maxEntries
    BY <1>3, <1>9 DEF WellFormed, WellTyped
  <2> QED
    BY <1>3, <1>6, <1>8, <1>9, <2>1, <2>2, <2>3 DEF WellFormed, WellTyped
<1>11. MapMatchesSlots(r)
  <2>1. \A j \in DOMAIN r.items : r.slots[r.items[j]].used /\ r.slots[r.items[j]].key = j
    BY <1>4, <1>5, <1>7 DEF WellFormed, WellTyped, MapMatchesSlots
  <2>2. ASSUME NEW i \in SlotsOf(r), r.slots[i].used
        PROVE  r.slots[i].key \in DOMAIN r.items /\ r.items[r.slots[i].key] = i
    <3>1. i # idx /\ r.slots[i] = c.slots[i]
      BY <1>1, <1>6, <1>7, <2>2 DEF EmptySlot
    <3>2. c.slots[i].key \in DOMAIN c.items /\ c.items[c.slots[i].key] = i
      BY <1>6, <2>2, <3>1 DEF WellFormed, MapMatchesSlots
    <3> QED
      BY <1>4, <3>1, <3>2
  <2> QED
    BY <2>1, <2>2 DEF MapMatchesSlots
<1>12. FreeMatchesSlots(r)
  <2>1. /\ \A i, j \in 1..Len(c.free) : c.free[i] = c.free[j] => i = j
        /\ \A i \in 1..Len(c.free) : c.free[i] # idx
        /\ \A i \in SlotsOf(c) :
             (\E j \in 1..Len(c.free) : c.free[j] = i)
               <=> (i < c.usedSlots /\ ~c.slots[i].used)
        /\ \A i \in SlotsOf(c) : i >= c.usedSlots => ~c.slots[i].used
    BY <1>1, <1>8 DEF WellFormed, FreeMatchesSlots
  <2>2. ASSUME NEW i \in 1..Len(r.free), NEW j \in 1..Len(r.free), r.free[i] = r.free[j]
        PROVE  i = j
    BY <1>8, <2>1, <2>2
  <2>3. ASSUME NEW i \in SlotsOf(r)
        PROVE  (\E j \in 1..Len(r.free) : r.free[j] = i)
                 <=> (i < r.usedSlots /\ ~r.slots[i].used)
    <3>1. CASE i = idx
      <4>1. idx < c.usedSlots
        BY <1>1, <2>1 DEF SlotsOf, WellFormed, WellTyped
      <4>2. Len(r.free) \in 1..Len(r.free) /\ r.free[Len(r.free)] = idx
        BY <1>8
      <4> QED
        BY <1>3, <1>6, <1>7, <3>1, <4>1, <4>2 DEF EmptySlot
    <3>2. CASE i # idx
      <4>1. (\E j \in 1..Len(r.free) : r.free[j] = i)
              <=> (\E j \in 1..Len(c.free) : c.free[j] = i)
        <5>1. ASSUME NEW j \in 1..Len(c.free), c.free[j] = i
              PROVE  \E m \in 1..Len(r.free) : r.free[m] = i
          <6>1. j \in 1..Len(r.free) /\ r.free[j] = i
            BY <1>8, <5>1
          <6> QED
            BY <6>1
        <5>2. ASSUME NEW j \in 1..Len(r.free), r.free[j] = i
              PROVE  \E m \in 1..Len(c.free) : c.free[m] = i
          <6>1. j \in 1..Len(c.free) /\ c.free[j] = i
            BY <1>8, <3>2, <5>2
          <6> QED
            BY <6>1
        <5> QED
          BY <5>1, <5>2
      <4> QED
        BY <1>3, <1>6, <1>7, <2>1, <3>2, <4>1
    <3> QED
      BY <3>1, <3>2
  <2>4. \A i \in SlotsOf(r) : i >= r.usedSlots => ~r.slots[i].used
    BY <1>3, <1>6, <1>7, <2>1 DEF EmptySlot
  <2> QED
    BY <2>2, <2>3, <2>4 DEF FreeMatchesSlots
<1> QED
  BY <1>3, <1>4, <1>5, <1>7, <1>9, <1>10, <1>11, <1>12 DEF WellFormed, WellTyped

\* Get drops the entry of k exactly when it has expired.
LEMMA GetWellFormed ==
  ASSUME NEW K, NEW V, NEW c, WellFormed(K, V, c), NEW k, NEW now, ~Hit(c, k, now)
  PROVE  LET r == Get(c, k, now) IN
           /\ WellFormed(K, V, r)
           /\ r.maxEntries = c.maxEntries /\ r.ttl = c.ttl
           /\ DOMAIN r.items = DOMAIN c.items \ {k}
           /\ \A j \in DOMAIN r.items :
                r.items[j] = c.items[j] /\ r.slots[r.items[j]] = c.slots[c.items[j]]
<1>1. CASE k \notin DOMAIN c.items
  <2>1. Get(c, k, now) = c
    BY <1>1 DEF Get
  <2> QED
    BY <1>1, <2>1
<1>2. CASE k \in DOMAIN c.items
  <2>1. c.slots[c.items[k]].used
    BY <1>2 DEF WellFormed, MapMatchesSlots
  <2>2. Get(c, k, now) = RemoveSlot(c, c.items[k])
    BY <1>2, <2>1 DEF Get
  <2> QED
    BY <1>2, <2>2, RemoveSlotWellFormed
<1> QED
  BY <1>1, <1>2

------------------------------------------------------------------------------
(* Storing goes through a cache with a hole: a slot that is neither an     *)
(* entry nor free, about to be written.                                    *)

HasHole(K, V, c, idx) ==
  /\ WellTyped(K, V, c)
  /\ idx \in SlotsOf(c)
  /\ idx < c.usedSlots
  /\ \A j \in DOMAIN c.items :
       /\ c.items[j] # idx
       /\ c.slots[c.items[j]].used
       /\ c.slots[c.items[j]].key = j
  /\ \A i \in SlotsOf(c) :
       i # idx /\ c.slots[i].used =>
         c.slots[i].key \in DOMAIN c.items /\ c.items[c.slots[i].key] = i
  /\ \A i, j \in 1..Len(c.free) : c.free[i] = c.free[j] => i = j
  /\ \A i \in SlotsOf(c) :
       (\E j \in 1..Len(c.free) : c.free[j] = i)
         <=> (i # idx /\ i < c.usedSlots /\ ~c.slots[i].used)
  /\ \A i \in SlotsOf(c) : i # idx /\ i >= c.usedSlots => ~c.slots[i].used
  /\ c.len = Cardinality(DOMAIN c.items)
  /\ c.len + Len(c.free) + 1 = c.usedSlots

\* What the slot is taken from: the free stack, the fresh slots or an entry.
KeepsEntries(c, r, kept) ==
  /\ r.maxEntries = c.maxEntries /\ r.ttl = c.ttl
  /\ DOMAIN r.items = kept
  /\ \A j \in kept : r.items[j] = c.items[j]
  /\ r.slots = c.slots

\* Popping the last element of a stack.
LEMMA ButLast ==
  ASSUME NEW S, NEW q \in Seq(S), q # << >>
  PROVE  /\ Len(q) \in Nat /\ Len(q) >= 1 /\ q[Len(q)] \in S
         /\ SubSeq(q, 1, Len(q) - 1) \in Seq(S)
         /\ Len(SubSeq(q, 1, Len(q) - 1)) = Len(q) - 1
         /\ \A i \in 1..(Len(q) - 1) : SubSeq(q, 1, Len(q) - 1)[i] = q[i]
<1>1. Len(q) \in Nat /\ Len(q) >= 1
  BY EmptySeq
<1>2. \A i \in 1..Len(q) : q[i] \in S
  BY ElementOfSeq
<1>3. 1 \in Int /\ Len(q) - 1 \in Int /\ \A i \in 1..(Len(q) - 1) : q[i] \in S
  BY <1>1, <1>2
<1> DEFINE m == Len(q) - 1
<1> HIDE DEF m
<1>4. /\ SubSeq(q, 1, m) \in Seq(S)
      /\ Len(SubSeq(q, 1, m)) = IF 1 <= m THEN m - 1 + 1 ELSE 0
      /\ \A i \in 1..(m - 1 + 1) : SubSeq(q, 1, m)[i] = q[1 + i - 1]
  BY <1>3, SubSeqProperties DEF m
<1>5. m \in Nat /\ m = Len(q) - 1
  BY <1>1 DEF m
<1>6. /\ Len(SubSeq(q, 1, m)) = m
      /\ \A i \in 1..m : SubSeq(q, 1, m)[i] = q[i]
  BY <1>4, <1>5
<1> QED
  BY <1>1, <1>2, <1>4, <1>5, <1>6

\* The slot on top of the free stack.
LEMMA TakeFreeHole ==
  ASSUME NEW K, NEW V, NEW c, WellFormed(K, V, c), c.free # << >>
  PROVE  LET s == TakeFree(c) IN
           /\ HasHole(K, V, s.cache, s.idx)
           /\ KeepsEntries(c, s.cache, DOMAIN c.items)
           /\ s.evicted = 0 /\ c.len < c.maxEntries
<1> DEFINE n == Len(c.free)
           r == TakeFree(c).cache
           idx == TakeFree(c).idx
<1>1. c = [ maxEntries |-> c.maxEntries, ttl |-> c.ttl, items |-> c.items, slots |-> c.slots,
            free |-> c.free, usedSlots |-> c.usedSlots,
            nextEvict |-> c.nextEvict, len |-> c.len ]
  BY DEF WellFormed, WellTyped
<1>2. /\ r.maxEntries = c.maxEntries /\ r.ttl = c.ttl /\ r.items = c.items /\ r.slots = c.slots
      /\ r.free = SubSeq(c.free, 1, n - 1) /\ r.usedSlots = c.usedSlots
      /\ r.nextEvict = c.nextEvict /\ r.len = c.len
      /\ r = [ maxEntries |-> r.maxEntries, ttl |-> r.ttl, items |-> r.items, slots |-> r.slots,
               free |-> r.free, usedSlots |-> r.usedSlots,
               nextEvict |-> r.nextEvict, len |-> r.len ]
      /\ idx = c.free[n] /\ TakeFree(c).evicted = 0
  BY <1>1 DEF TakeFree
<1>3. SlotsOf(r) = SlotsOf(c)
  BY <1>2 DEF SlotsOf
<1>4. /\ c.free \in Seq(SlotsOf(c)) /\ n \in Nat /\ n >= 1
      /\ r.free \in Seq(SlotsOf(c)) /\ Len(r.free) = n - 1
      /\ \A i \in 1..(n-1) : r.free[i] = c.free[i]
      /\ idx \in SlotsOf(c)
  <2>1. c.free \in Seq(SlotsOf(c))
    BY DEF WellFormed, WellTyped
  <2> QED
    BY <1>2, <2>1, ButLast
<1>5. /\ \A i, j \in 1..n : c.free[i] = c.free[j] => i = j
      /\ \A i \in SlotsOf(c) :
           (\E j \in 1..n : c.free[j] = i)
             <=> (i < c.usedSlots /\ ~c.slots[i].used)
      /\ \A i \in SlotsOf(c) : i >= c.usedSlots => ~c.slots[i].used
  BY DEF WellFormed, FreeMatchesSlots
<1>6. idx < c.usedSlots /\ ~c.slots[idx].used
  BY <1>2, <1>4, <1>5
<1>7. /\ c.len = Cardinality(DOMAIN c.items) /\ c.len + n = c.usedSlots
      /\ c.len < c.maxEntries
  BY <1>4 DEF WellFormed, WellTyped, LenMatchesItems
<1>8. WellTyped(K, V, r)
  <2>1. /\ c.maxEntries \in Nat \ {0} /\ c.ttl \in Nat /\ DOMAIN c.items \subseteq K
        /\ IsFiniteSet(DOMAIN c.items) /\ c.items \in [DOMAIN c.items -> SlotsOf(c)]
        /\ c.slots \in [SlotsOf(c) -> SlotTypes(K, V)] /\ c.usedSlots \in 0..c.maxEntries
        /\ c.nextEvict \in SlotsOf(c) /\ c.len \in 0..c.maxEntries
    BY DEF WellFormed, WellTyped
  <2> QED
    BY <1>2, <1>3, <1>4, <2>1 DEF WellTyped
<1>9. \A j \in DOMAIN c.items :
        c.items[j] # idx /\ c.slots[c.items[j]].used /\ c.slots[c.items[j]].key = j
  BY <1>6 DEF WellFormed, MapMatchesSlots
<1>10. \A i, j \in 1..Len(r.free) : r.free[i] = r.free[j] => i = j
  <2>1. \A i \in 1..Len(r.free) : i \in 1..n /\ r.free[i] = c.free[i]
    BY <1>4
  <2> QED
    BY <1>5, <2>1
<1>11. ASSUME NEW i \in SlotsOf(c)
       PROVE  (\E j \in 1..Len(r.free) : r.free[j] = i)
                <=> (i # idx /\ i < c.usedSlots /\ ~c.slots[i].used)
  <2>1. ASSUME NEW j \in 1..Len(r.free), r.free[j] = i
        PROVE  i # idx /\ i < c.usedSlots /\ ~c.slots[i].used
    <3>1. j \in 1..n /\ j # n /\ c.free[j] = i /\ n \in 1..n
      BY <1>4, <2>1
    <3> QED
      BY <1>2, <1>5, <3>1
  <2>2. ASSUME i # idx, i < c.usedSlots, ~c.slots[i].used
        PROVE  \E j \in 1..Len(r.free) : r.free[j] = i
    <3>1. PICK j \in 1..n : c.free[j] = i
      BY <1>5, <2>2
    <3>2. j \in 1..Len(r.free) /\ r.free[j] = i
      BY <1>2, <1>4, <2>2, <3>1
    <3> QED
      BY <3>2
  <2> QED
    BY <2>1, <2>2
<1>12. \A i \in SlotsOf(c) : c.slots[i].used =>
         c.slots[i].key \in DOMAIN c.items /\ c.items[c.slots[i].key] = i
  BY DEF WellFormed, MapMatchesSlots
<1>13. HasHole(K, V, r, idx)
  <2>1. idx \in SlotsOf(r) /\ idx < r.usedSlots
    BY <1>2, <1>3, <1>4, <1>6
  <2>2. /\ \A j \in DOMAIN r.items :
             r.items[j] # idx /\ r.slots[r.items[j]].used /\ r.slots[r.items[j]].key = j
        /\ \A i \in SlotsOf(r) : i # idx /\ r.slots[i].used =>
             r.slots[i].key \in DOMAIN r.items /\ r.items[r.slots[i].key] = i
    BY <1>2, <1>3, <1>9, <1>12
  <2>3. \A i \in SlotsOf(r) :
          (\E j \in 1..Len(r.free) : r.free[j] = i)
            <=> (i # idx /\ i < r.usedSlots /\ ~r.slots[i].used)
    BY <1>2, <1>3, <1>11
  <2>4. \A i \in SlotsOf(r) : i # idx /\ i >= r.usedSlots => ~r.slots[i].used
    BY <1>2, <1>3, <1>5
  <2>5. /\ r.len = Cardinality(DOMAIN r.items)
        /\ r.len + Len(r.free) + 1 = r.usedSlots
    <3>1. c.len \in Nat
      BY DEF WellFormed, WellTyped
    <3> QED
      BY <1>2, <1>4, <1>7, <3>1
  <2> QED
    BY <1>8, <1>10, <2>1, <2>2, <2>3, <2>4, <2>5 DEF HasHole
<1> QED
  BY <1>2, <1>7, <1>13 DEF KeepsEntries

\* The next slot never handed out.
LEMMA TakeFreshHole ==
  ASSUME NEW K, NEW V, NEW c, WellFormed(K, V, c), c.free = << >>, c.usedSlots < c.maxEntries
  PROVE  LET s == TakeFresh(c) IN
           /\ HasHole(K, V, s.cache, s.idx)
           /\ KeepsEntries(c, s.cache, DOMAIN c.items)
           /\ s.evicted = 0 /\ c.len < c.maxEntries
<1> DEFINE r == TakeFresh(c).cache
           idx == TakeFresh(c).idx
<1>1. c = [ maxEntries |-> c.maxEntries, ttl |-> c.ttl, items |-> c.items, slots |-> c.slots,
            free |-> c.free, usedSlots |-> c.usedSlots,
            nextEvict |-> c.nextEvict, len |-> c.len ]
  BY DEF WellFormed, WellTyped
<1>2. /\ r.maxEntries = c.maxEntries /\ r.ttl = c.ttl /\ r.items = c.items /\ r.slots = c.slots
      /\ r.free = << >> /\ r.usedSlots = c.usedSlots + 1
      /\ r.nextEvict = c.nextEvict /\ r.len = c.len
      /\ r = [ maxEntries |-> r.maxEntries, ttl |-> r.ttl, items |-> r.items, slots |-> r.slots,
               free |-> r.free, usedSlots |-> r.usedSlots,
               nextEvict |-> r.nextEvict, len |-> r.len ]
      /\ idx = c.usedSlots /\ TakeFresh(c).evicted = 0
  BY <1>1 DEF TakeFresh
<1>3. SlotsOf(r) = SlotsOf(c) /\ idx \in SlotsOf(c)
  BY <1>2 DEF SlotsOf, WellFormed, WellTyped
<1>4. WellTyped(K, V, r)
  BY <1>2, <1>3 DEF WellFormed, WellTyped
<1>5. /\ c.len = Cardinality(DOMAIN c.items) /\ c.len = c.usedSlots
      /\ c.len \in Nat /\ c.usedSlots \in Nat /\ c.maxEntries \in Nat
      /\ Len(c.free) = 0 /\ \A i \in SlotsOf(c) : i \in Nat
  BY DEF WellFormed, WellTyped, LenMatchesItems, SlotsOf
<1>6. /\ \A i \in SlotsOf(c) : i < c.usedSlots => c.slots[i].used
      /\ \A i \in SlotsOf(c) : i >= c.usedSlots => ~c.slots[i].used
  BY <1>5 DEF WellFormed, FreeMatchesSlots
<1>7. /\ \A j \in DOMAIN c.items :
           c.items[j] # idx /\ c.slots[c.items[j]].used /\ c.slots[c.items[j]].key = j
      /\ \A i \in SlotsOf(c) : c.slots[i].used =>
           c.slots[i].key \in DOMAIN c.items /\ c.items[c.slots[i].key] = i
  BY <1>2, <1>3, <1>5, <1>6 DEF WellFormed, MapMatchesSlots
<1>8. HasHole(K, V, r, idx)
  <2>1. idx \in SlotsOf(r) /\ idx < r.usedSlots
    BY <1>2, <1>3, <1>5
  <2>2. /\ \A j \in DOMAIN r.items :
             r.items[j] # idx /\ r.slots[r.items[j]].used /\ r.slots[r.items[j]].key = j
        /\ \A i \in SlotsOf(r) : i # idx /\ r.slots[i].used =>
             r.slots[i].key \in DOMAIN r.items /\ r.items[r.slots[i].key] = i
    BY <1>2, <1>3, <1>7
  <2>3. /\ Len(r.free) = 0
        /\ \A i \in SlotsOf(r) : i # idx /\ i < r.usedSlots => r.slots[i].used
        /\ \A i \in SlotsOf(r) : i # idx /\ i >= r.usedSlots => ~r.slots[i].used
    BY <1>2, <1>3, <1>5, <1>6
  <2>4. /\ r.len = Cardinality(DOMAIN r.items)
        /\ r.len + Len(r.free) + 1 = r.usedSlots
    BY <1>2, <1>5, <2>3
  <2> QED
    BY <1>4, <2>1, <2>2, <2>3, <2>4 DEF HasHole
<1> QED
  BY <1>2, <1>5, <1>8 DEF KeepsEntries

\* The slot under the ring cursor, when the cache is full: it holds an entry,
\* the one that is forgotten.
LEMMA EvictNextHole ==
  ASSUME NEW K, NEW V, NEW c, WellFormed(K, V, c), c.free = << >>, ~(c.usedSlots < c.maxEntries)
  PROVE  LET s == EvictNext(c)
             lost == c.slots[c.nextEvict].key IN
           /\ HasHole(K, V, s.cache, s.idx)
           /\ KeepsEntries(c, s.cache, DOMAIN c.items \ {lost})
           /\ lost \in DOMAIN c.items
           /\ s.evicted = 1 /\ c.len = c.maxEntries
<1> DEFINE r == EvictNext(c).cache
           idx == c.nextEvict
           lost == c.slots[idx].key
<1>1. /\ c = [ maxEntries |-> c.maxEntries, ttl |-> c.ttl, items |-> c.items, slots |-> c.slots,
               free |-> c.free, usedSlots |-> c.usedSlots,
               nextEvict |-> c.nextEvict, len |-> c.len ]
      /\ idx \in SlotsOf(c) /\ c.usedSlots = c.maxEntries
      /\ c.maxEntries \in Nat \ {0} /\ c.ttl \in Nat /\ c.len \in Nat
      /\ DOMAIN c.items \subseteq K /\ IsFiniteSet(DOMAIN c.items)
      /\ c.items \in [DOMAIN c.items -> SlotsOf(c)]
      /\ c.slots \in [SlotsOf(c) -> SlotTypes(K, V)]
  BY DEF WellFormed, WellTyped
<1>2. Len(c.free) = 0 /\ \A i \in SlotsOf(c) : i \in Nat /\ i < c.usedSlots
  BY <1>1 DEF SlotsOf
<1>3. \A i \in SlotsOf(c) : c.slots[i].used
  BY <1>2 DEF WellFormed, FreeMatchesSlots
<1>4. /\ \A j \in DOMAIN c.items :
           c.slots[c.items[j]].used /\ c.slots[c.items[j]].key = j
      /\ \A i \in SlotsOf(c) :
           c.slots[i].key \in DOMAIN c.items /\ c.items[c.slots[i].key] = i
  BY <1>3 DEF WellFormed, MapMatchesSlots
<1>5. lost \in DOMAIN c.items /\ c.items[lost] = idx
  BY <1>1, <1>4
<1>6. /\ r.maxEntries = c.maxEntries /\ r.ttl = c.ttl /\ r.items = Delete(c.items, lost)
      /\ r.slots = c.slots /\ r.free = c.free /\ r.usedSlots = c.usedSlots
      /\ r.nextEvict = (idx + 1) % c.maxEntries /\ r.len = c.len - 1
      /\ r = [ maxEntries |-> r.maxEntries, ttl |-> r.ttl, items |-> r.items, slots |-> r.slots,
               free |-> r.free, usedSlots |-> r.usedSlots,
               nextEvict |-> r.nextEvict, len |-> r.len ]
      /\ EvictNext(c).idx = idx /\ EvictNext(c).evicted = 1
  BY <1>1, <1>3 DEF EvictNext, TurnRing
<1>7. /\ DOMAIN r.items = DOMAIN c.items \ {lost}
      /\ \A j \in DOMAIN c.items \ {lost} : r.items[j] = c.items[j]
      /\ r.items = [j \in DOMAIN r.items |-> c.items[j]]
  BY <1>6 DEF Delete, Restrict
<1>8. SlotsOf(r) = SlotsOf(c)
  BY <1>6 DEF SlotsOf
<1>9. /\ c.len = Cardinality(DOMAIN c.items) /\ c.len = c.maxEntries
      /\ r.len = Cardinality(DOMAIN r.items) /\ IsFiniteSet(DOMAIN r.items)
      /\ r.len \in 0..c.maxEntries
  <2>1. c.len = Cardinality(DOMAIN c.items) /\ c.len + Len(c.free) = c.usedSlots
    BY DEF WellFormed, LenMatchesItems
  <2>2. /\ Cardinality(DOMAIN r.items) = Cardinality(DOMAIN c.items) - 1
        /\ IsFiniteSet(DOMAIN r.items)
    <3>1. IsFiniteSet(DOMAIN c.items) /\ lost \in DOMAIN c.items
      BY <1>1, <1>5
    <3>2. DOMAIN r.items = DOMAIN c.items \ {lost}
      BY <1>7
    <3> QED
      BY <3>1, <3>2, FS_RemoveElement
  <2>3. c.len = c.maxEntries /\ r.len \in 0..c.maxEntries
    BY <1>1, <1>2, <1>6, <2>1
  <2> QED
    BY <1>6, <2>1, <2>2, <2>3
<1>10. r.nextEvict \in SlotsOf(r)
  BY <1>1, <1>6, <1>8 DEF SlotsOf
<1>11. WellTyped(K, V, r)
  <2>1. r.items \in [DOMAIN r.items -> SlotsOf(r)] /\ DOMAIN r.items \subseteq K
    BY <1>1, <1>7, <1>8
  <2>2. r.free \in Seq(SlotsOf(r))
    BY <1>6, <1>8 DEF WellFormed, WellTyped
  <2>3. r.usedSlots \in 0..r.maxEntries
    BY <1>1, <1>6
  <2> QED
    BY <1>1, <1>6, <1>8, <1>9, <1>10, <2>1, <2>2, <2>3 DEF WellTyped
<1>12. \A j \in DOMAIN r.items :
         /\ r.items[j] # idx
         /\ r.slots[r.items[j]].used /\ r.slots[r.items[j]].key = j
  BY <1>4, <1>6, <1>7
<1>13. \A i \in SlotsOf(r) : i # idx =>
         r.slots[i].key \in DOMAIN r.items /\ r.items[r.slots[i].key] = i
  BY <1>4, <1>5, <1>6, <1>7, <1>8
<1>14. /\ idx \in SlotsOf(r) /\ idx < r.usedSlots /\ Len(r.free) = 0
       /\ \A i \in SlotsOf(r) : r.slots[i].used /\ i < r.usedSlots
       /\ r.len + Len(r.free) + 1 = r.usedSlots
  BY <1>1, <1>2, <1>3, <1>6, <1>8, <1>9
<1>15. \A i \in SlotsOf(r) : ~(i >= r.usedSlots)
  BY <1>1, <1>2, <1>6, <1>8
<1>16. HasHole(K, V, r, idx)
  BY <1>9, <1>11, <1>12, <1>13, <1>14, <1>15 DEF HasHole
<1> QED
  BY <1>5, <1>6, <1>7, <1>9, <1>16 DEF KeepsEntries

\* Writing an entry into the hole.
LEMMA FillHole ==
  ASSUME NEW K, NEW V, NEW c, NEW idx, HasHole(K, V, c, idx),
         NEW k \in K \ DOMAIN c.items, NEW v \in V, NEW t \in Nat
  PROVE  LET r == Occupy(c, idx, k, v, t) IN
           /\ WellFormed(K, V, r)
           /\ r.maxEntries = c.maxEntries /\ r.ttl = c.ttl
           /\ DOMAIN r.items = DOMAIN c.items \cup {k}
           /\ r.slots[r.items[k]] = UsedSlot(k, v, t)
           /\ \A j \in DOMAIN c.items : r.slots[r.items[j]] = c.slots[c.items[j]]
<1> DEFINE r == Occupy(c, idx, k, v, t)
<1>1. /\ c = [ maxEntries |-> c.maxEntries, ttl |-> c.ttl, items |-> c.items, slots |-> c.slots,
               free |-> c.free, usedSlots |-> c.usedSlots,
               nextEvict |-> c.nextEvict, len |-> c.len ]
      /\ idx \in SlotsOf(c) /\ c.maxEntries \in Nat \ {0}
      /\ c.ttl \in Nat /\ DOMAIN c.items \subseteq K /\ IsFiniteSet(DOMAIN c.items)
      /\ c.items \in [DOMAIN c.items -> SlotsOf(c)]
      /\ c.slots \in [SlotsOf(c) -> SlotTypes(K, V)]
      /\ c.len \in Nat /\ c.usedSlots \in 0..c.maxEntries
      /\ c.nextEvict \in SlotsOf(c) /\ c.free \in Seq(SlotsOf(c))
  BY DEF HasHole, WellTyped
<1>2. /\ r.maxEntries = c.maxEntries /\ r.ttl = c.ttl /\ r.items = Insert(c.items, k, idx)
      /\ r.slots = [c.slots EXCEPT ![idx] = UsedSlot(k, v, t)]
      /\ r.free = c.free /\ r.usedSlots = c.usedSlots
      /\ r.nextEvict = c.nextEvict /\ r.len = c.len + 1
      /\ r = [ maxEntries |-> r.maxEntries, ttl |-> r.ttl, items |-> r.items, slots |-> r.slots,
               free |-> r.free, usedSlots |-> r.usedSlots,
               nextEvict |-> r.nextEvict, len |-> r.len ]
  <2> DEFINE slots == [c.slots EXCEPT ![idx] = UsedSlot(k, v, t)]
             items == Insert(c.items, k, idx)
  <2>1. r = [c EXCEPT !.slots = slots, !.items = items, !.len = @ + 1]
    BY DEF Occupy
  <2> HIDE DEF slots, items, r
  <2>2. r = [ maxEntries |-> c.maxEntries, ttl |-> c.ttl, items |-> items, slots |-> slots,
              free |-> c.free, usedSlots |-> c.usedSlots,
              nextEvict |-> c.nextEvict, len |-> c.len + 1 ]
    BY <1>1, <2>1
  <2> QED
    BY <2>2 DEF slots, items
<1> HIDE DEF r
<1>3. /\ DOMAIN r.items = DOMAIN c.items \cup {k} /\ r.items[k] = idx
      /\ \A j \in DOMAIN c.items : r.items[j] = c.items[j]
      /\ r.items = [j \in DOMAIN r.items |-> IF j = k THEN idx ELSE c.items[j]]
  BY <1>2 DEF Insert
<1>4. SlotsOf(r) = SlotsOf(c)
  BY <1>2 DEF SlotsOf
<1>5. /\ r.slots[idx] = UsedSlot(k, v, t)
      /\ \A i \in SlotsOf(c) : i # idx => r.slots[i] = c.slots[i]
      /\ r.slots \in [SlotsOf(r) -> SlotTypes(K, V)]
  <2>1. UsedSlot(k, v, t) \in SlotTypes(K, V)
    BY DEF UsedSlot, SlotTypes
  <2> QED
    BY <1>1, <1>2, <1>4, <2>1
<1>6. /\ UsedSlot(k, v, t).used /\ UsedSlot(k, v, t).key = k
  BY DEF UsedSlot
<1>7. /\ r.len = Cardinality(DOMAIN r.items) /\ IsFiniteSet(DOMAIN r.items)
      /\ r.len + Len(r.free) = r.usedSlots /\ Len(r.free) \in Nat
  <2>1. /\ c.len = Cardinality(DOMAIN c.items) /\ c.len + Len(c.free) + 1 = c.usedSlots
    BY DEF HasHole
  <2>2. /\ Cardinality(DOMAIN r.items) = Cardinality(DOMAIN c.items) + 1
        /\ IsFiniteSet(DOMAIN r.items)
    BY <1>1, <1>3, FS_AddElement
  <2>3. Len(c.free) \in Nat
    BY <1>1, LenProperties
  <2> QED
    BY <1>1, <1>2, <2>1, <2>2, <2>3
<1>8. WellTyped(K, V, r)
  <2>1. r.items \in [DOMAIN r.items -> SlotsOf(r)] /\ DOMAIN r.items \subseteq K
    <3>1. \A j \in DOMAIN r.items : r.items[j] \in SlotsOf(r)
      BY <1>1, <1>3, <1>4
    <3>2. r.items \in [DOMAIN r.items -> SlotsOf(r)]
      <4> DEFINE D == DOMAIN r.items
                 e(j) == IF j = k THEN idx ELSE c.items[j]
      <4>1. r.items = [j \in D |-> e(j)]
        BY <1>3
      <4>2. \A j \in D : e(j) \in SlotsOf(r)
        BY <1>1, <1>3, <1>4
      <4> HIDE DEF D, e
      <4>3. r.items \in [D -> SlotsOf(r)]
        BY <4>1, <4>2
      <4> QED
        BY <4>3 DEF D
    <3> QED
      BY <1>1, <1>3, <3>2
  <2>2. r.len \in 0..r.maxEntries
    BY <1>1, <1>2, <1>7
  <2> QED
    BY <1>1, <1>2, <1>4, <1>5, <1>7, <2>1, <2>2 DEF WellTyped
<1>9. MapMatchesSlots(r)
  <2>1. \A j \in DOMAIN c.items :
          /\ c.items[j] # idx /\ c.items[j] \in SlotsOf(c)
          /\ c.slots[c.items[j]].used /\ c.slots[c.items[j]].key = j
    BY <1>1 DEF HasHole
  <2>2. ASSUME NEW j \in DOMAIN r.items
        PROVE  r.slots[r.items[j]].used /\ r.slots[r.items[j]].key = j
    BY <1>3, <1>5, <1>6, <2>1
  <2>3. ASSUME NEW i \in SlotsOf(r), r.slots[i].used
        PROVE  r.slots[i].key \in DOMAIN r.items /\ r.items[r.slots[i].key] = i
    <3>1. CASE i = idx
      BY <1>3, <1>5, <1>6, <3>1
    <3>2. CASE i # idx
      <4>1. r.slots[i] = c.slots[i] /\ c.slots[i].used
        BY <1>4, <1>5, <2>3, <3>2
      <4>2. c.slots[i].key \in DOMAIN c.items /\ c.items[c.slots[i].key] = i
        BY <1>4, <3>2, <4>1 DEF HasHole
      <4> QED
        BY <1>3, <4>1, <4>2
    <3> QED
      BY <3>1, <3>2
  <2> QED
    BY <2>2, <2>3 DEF MapMatchesSlots
<1>10. FreeMatchesSlots(r)
  <2>1. \A i, j \in 1..Len(r.free) : r.free[i] = r.free[j] => i = j
    BY <1>2 DEF HasHole
  <2>2. ASSUME NEW i \in SlotsOf(r)
        PROVE  (\E j \in 1..Len(r.free) : r.free[j] = i)
                 <=> (i < r.usedSlots /\ ~r.slots[i].used)
    <3>1. (\E j \in 1..Len(r.free) : r.free[j] = i)
            <=> (i # idx /\ i < c.usedSlots /\ ~c.slots[i].used)
      BY <1>2, <1>4 DEF HasHole
    <3> QED
      BY <1>2, <1>4, <1>5, <1>6, <3>1
  <2>3. \A i \in SlotsOf(r) : i >= r.usedSlots => ~r.slots[i].used
    <3>1. idx \in Nat /\ idx < c.usedSlots /\ c.usedSlots \in Nat
      BY <1>1 DEF HasHole, SlotsOf
    <3>2. \A i \in SlotsOf(c) : i # idx /\ i >= c.usedSlots => ~c.slots[i].used
      BY DEF HasHole
    <3> QED
      BY <1>2, <1>4, <1>5, <3>1, <3>2
  <2> QED
    BY <2>1, <2>2, <2>3 DEF FreeMatchesSlots
<1>11. \A j \in DOMAIN c.items : r.slots[r.items[j]] = c.slots[c.items[j]]
  <2>1. \A j \in DOMAIN c.items : c.items[j] # idx /\ c.items[j] \in SlotsOf(c)
    BY <1>1 DEF HasHole
  <2> QED
    BY <1>3, <1>5, <2>1
<1>12. WellFormed(K, V, r) /\ r.slots[r.items[k]] = UsedSlot(k, v, t)
  BY <1>3, <1>5, <1>7, <1>8, <1>9, <1>10 DEF WellFormed, LenMatchesItems
<1> QED
  BY <1>2, <1>3, <1>11, <1>12 DEF r

------------------------------------------------------------------------------
(* Put and GetOrPut.                                                        *)

\* The entries kept by storing k: all of them while there is room, all but one
\* when the cache is full, and the call says how many it forgot.
KeepsAllButVictims(c, kept, evicted) ==
  \/ kept = DOMAIN c.items /\ evicted = 0 /\ c.len < c.maxEntries
  \/ /\ \E w \in DOMAIN c.items : kept = DOMAIN c.items \ {w}
     /\ evicted = 1 /\ c.len = c.maxEntries

\* What a call that stores k leaves behind.
Stores(K, V, c, r, kept, k, v, t) ==
  /\ WellFormed(K, V, r)
  /\ r.maxEntries = c.maxEntries /\ r.ttl = c.ttl
  /\ DOMAIN r.items = kept \cup {k}
  /\ r.slots[r.items[k]] = UsedSlot(k, v, t)
  /\ \A j \in kept : r.slots[r.items[j]] = c.slots[c.items[j]]

\* Put of a key that is not in the map.
LEMMA PutStores ==
  ASSUME NEW K, NEW V, NEW c, WellFormed(K, V, c), NEW k \in K \ DOMAIN c.items,
         NEW v \in V, NEW now \in Nat
  PROVE  LET put == Put(c, k, v, now) IN
           \E kept \in SUBSET DOMAIN c.items :
             /\ Stores(K, V, c, put.cache, kept, k, v, now + c.ttl)
             /\ KeepsAllButVictims(c, kept, put.evicted)
<1> DEFINE s == NextSlot(c)
           put == Put(c, k, v, now)
<1>1. PICK kept \in SUBSET DOMAIN c.items :
        /\ HasHole(K, V, s.cache, s.idx)
        /\ KeepsEntries(c, s.cache, kept)
        /\ KeepsAllButVictims(c, kept, s.evicted)
  <2>1. CASE c.free # << >>
    <3>1. s = TakeFree(c)
      BY <2>1 DEF NextSlot
    <3> QED
      BY <2>1, <3>1, TakeFreeHole DEF KeepsAllButVictims
  <2>2. CASE c.free = << >> /\ c.usedSlots < c.maxEntries
    <3>1. s = TakeFresh(c)
      BY <2>2 DEF NextSlot
    <3> QED
      BY <2>2, <3>1, TakeFreshHole DEF KeepsAllButVictims
  <2>3. CASE c.free = << >> /\ ~(c.usedSlots < c.maxEntries)
    <3>1. s = EvictNext(c)
      BY <2>3 DEF NextSlot
    <3> DEFINE lost == c.slots[c.nextEvict].key
    <3>2. /\ HasHole(K, V, s.cache, s.idx)
          /\ KeepsEntries(c, s.cache, DOMAIN c.items \ {lost})
          /\ lost \in DOMAIN c.items
          /\ s.evicted = 1 /\ c.len = c.maxEntries
      BY <2>3, <3>1, EvictNextHole
    <3> HIDE DEF lost, s
    <3>3. KeepsAllButVictims(c, DOMAIN c.items \ {lost}, s.evicted)
      BY <3>2 DEF KeepsAllButVictims
    <3> QED
      BY <3>2, <3>3
  <2> QED
    BY <2>1, <2>2, <2>3
<1>2. /\ put.evicted = s.evicted
      /\ put.cache = Occupy(s.cache, s.idx, k, v, now + c.ttl)
  BY DEF Put
<1>3. /\ k \in K \ DOMAIN s.cache.items /\ now + c.ttl \in Nat
      /\ DOMAIN s.cache.items = kept
  BY <1>1 DEF KeepsEntries, WellFormed, WellTyped
<1> HIDE DEF s
<1>4. /\ WellFormed(K, V, put.cache)
      /\ put.cache.maxEntries = s.cache.maxEntries /\ put.cache.ttl = s.cache.ttl
      /\ DOMAIN put.cache.items = DOMAIN s.cache.items \cup {k}
      /\ put.cache.slots[put.cache.items[k]] = UsedSlot(k, v, now + c.ttl)
      /\ \A j \in DOMAIN s.cache.items :
           put.cache.slots[put.cache.items[j]] = s.cache.slots[s.cache.items[j]]
  BY <1>1, <1>2, <1>3, FillHole
<1>5. /\ s.cache.maxEntries = c.maxEntries /\ s.cache.ttl = c.ttl /\ s.cache.slots = c.slots
      /\ \A j \in kept : s.cache.items[j] = c.items[j]
  BY <1>1 DEF KeepsEntries
<1>6. Stores(K, V, c, put.cache, kept, k, v, now + c.ttl)
  BY <1>3, <1>4, <1>5 DEF Stores
<1> QED
  BY <1>1, <1>2, <1>6 DEF put

\* GetOrPut of a key that is not remembered: an expired entry of the key makes
\* room for the new one, and otherwise another entry goes only if the cache is
\* full.
LEMMA GetOrPutStores ==
  ASSUME NEW K, NEW V, NEW c, WellFormed(K, V, c), NEW k \in K, NEW v \in V,
         NEW now, NEW later \in Nat, ~Hit(c, k, now)
  PROVE  LET put == GetOrPut(c, k, v, now, later) IN
           \E kept \in SUBSET (DOMAIN c.items \ {k}) :
             /\ Stores(K, V, c, put.cache, kept, k, v, later + c.ttl)
             /\ \/ /\ kept = DOMAIN c.items \ {k} /\ put.evicted = 0
                   /\ (k \in DOMAIN c.items \/ c.len < c.maxEntries)
                \/ /\ \E w \in DOMAIN c.items \ {k} : kept = DOMAIN c.items \ {k, w}
                   /\ put.evicted = 1 /\ c.len = c.maxEntries
                   /\ k \notin DOMAIN c.items
<1> DEFINE g == Get(c, k, now)
           put == GetOrPut(c, k, v, now, later)
<1>1. /\ WellFormed(K, V, g)
      /\ g.maxEntries = c.maxEntries /\ g.ttl = c.ttl
      /\ DOMAIN g.items = DOMAIN c.items \ {k}
      /\ \A j \in DOMAIN g.items :
           g.items[j] = c.items[j] /\ g.slots[g.items[j]] = c.slots[c.items[j]]
  BY GetWellFormed
<1>2. put = Put(g, k, v, later)
  BY DEF GetOrPut
<1> HIDE DEF g, put
<1>3. PICK kept \in SUBSET DOMAIN g.items :
        /\ Stores(K, V, g, put.cache, kept, k, v, later + c.ttl)
        /\ KeepsAllButVictims(g, kept, put.evicted)
  BY <1>1, <1>2, PutStores
<1>4. Stores(K, V, c, put.cache, kept, k, v, later + c.ttl)
  BY <1>1, <1>3 DEF Stores
<1>5. /\ g.len = Cardinality(DOMAIN g.items) /\ c.len = Cardinality(DOMAIN c.items)
      /\ IsFiniteSet(DOMAIN c.items) /\ c.len \in 0..c.maxEntries
      /\ c.maxEntries \in Nat
  BY <1>1 DEF WellFormed, WellTyped, LenMatchesItems
<1>6. g.len = IF k \in DOMAIN c.items THEN c.len - 1 ELSE c.len
  <2>1. Cardinality(DOMAIN c.items \ {k})
          = IF k \in DOMAIN c.items THEN Cardinality(DOMAIN c.items) - 1
                                    ELSE Cardinality(DOMAIN c.items)
    BY <1>5, FS_RemoveElement
  <2> QED
    BY <1>1, <1>5, <2>1
<1>7. CASE kept = DOMAIN g.items /\ put.evicted = 0 /\ g.len < g.maxEntries
  BY <1>1, <1>4, <1>5, <1>6, <1>7 DEF put
<1>8. CASE /\ \E w \in DOMAIN g.items : kept = DOMAIN g.items \ {w}
           /\ put.evicted = 1 /\ g.len = g.maxEntries
  <2>1. k \notin DOMAIN c.items /\ c.len = c.maxEntries
    BY <1>1, <1>5, <1>6, <1>8
  <2>2. \E w \in DOMAIN c.items \ {k} : kept = DOMAIN c.items \ {k, w}
    BY <1>1, <1>8
  <2> QED
    BY <1>1, <1>4, <1>8, <2>1, <2>2 DEF put
<1> QED
  BY <1>3, <1>7, <1>8 DEF KeepsAllButVictims

------------------------------------------------------------------------------
(* A cache of shards.                                                       *)

\* A stateCache[K, V] with shard function hash.
Sharded(K, V, ttl, hash, c) ==
  /\ Cardinality(DOMAIN c) \in Nat \ {0}
  /\ DOMAIN c = 0..(Cardinality(DOMAIN c) - 1)
  /\ c = [idx \in DOMAIN c |-> c[idx]]
  /\ ShardsWellFormed(K, V, hash, c)
  /\ \A idx \in DOMAIN c : c[idx].ttl = ttl

\* What the cache remembers of a key in KeysIn(c).
Entry(c, hash, k) ==
  c[shardFor(c, hash, k)].slots[c[shardFor(c, hash, k)].items[k]]

\* The slots are dealt out to the shards with none left over, and every shard gets one.
LEMMA ShardSizePositive ==
  ASSUME NEW m \in Nat \ {0}, NEW count \in Nat \ {0}, count <= m, NEW idx
  PROVE  ShardSize(m, count, idx) \in Nat \ {0}
<1>1. /\ m \div count \in Nat /\ m < count * (m \div count) + count
  BY DivBounds
<1>2. m \div count # 0
  <2> SUFFICES ASSUME m \div count = 0 PROVE FALSE
    OBVIOUS
  <2>1. count * (m \div count) = 0
    OBVIOUS
  <2> QED
    BY <1>1, <2>1
<1> DEFINE q == m \div count
           r == IF idx < m % count THEN 1 ELSE 0
<1>3. ShardSize(m, count, idx) = q + r
  BY DEF ShardSize
<1>4. q \in Nat \ {0} /\ r \in {0, 1}
  BY <1>1, <1>2
<1> HIDE DEF q, r
<1> QED
  BY <1>3, <1>4

LEMMA NewSharded ==
  ASSUME NEW K, NEW V, NEW ttl \in Nat, NEW hash,
         NEW n \in Nat \ {0}, NEW d \in Nat \ {0}
  PROVE  /\ Sharded(K, V, ttl, hash, newStateCache(n, ttl, d))
         /\ DOMAIN newStateCache(n, ttl, d) = 0..(ShardCount(n, d) - 1)
         /\ \A idx \in DOMAIN newStateCache(n, ttl, d) : newStateCache(n, ttl, d)[idx].len = 0
         /\ KeysIn(newStateCache(n, ttl, d)) = {}
<1> DEFINE c == newStateCache(n, ttl, d)
           count == ShardCount(n, d)
<1>1. count \in Nat \ {0} /\ count <= n
  BY DEF ShardCount
<1>2. c = [idx \in 0..(count - 1) |-> newCircularCache(ShardSize(n, count, idx), ttl)]
  BY DEF newStateCache
<1> HIDE DEF c, count
<1>3. ASSUME NEW idx \in DOMAIN c
      PROVE  /\ WellFormed(K, V, c[idx]) /\ c[idx].ttl = ttl /\ c[idx].len = 0
             /\ DOMAIN c[idx].items = {}
  <2> DEFINE size == ShardSize(n, count, idx)
  <2>1. c[idx] = newCircularCache(size, ttl)
    BY <1>2
  <2>2. size \in Nat \ {0}
    BY <1>1, ShardSizePositive
  <2> HIDE DEF size
  <2>3. /\ WellFormed(K, V, c[idx]) /\ c[idx].ttl = ttl
        /\ c[idx].items = [k \in {} |-> 0]
    <3>1. /\ WellFormed(K, V, newCircularCache(size, ttl))
          /\ newCircularCache(size, ttl).ttl = ttl
          /\ newCircularCache(size, ttl).items = [k \in {} |-> 0]
      BY <2>2, NewWellFormed
    <3> QED
      BY <2>1, <3>1
  <2>4. c[idx].len = 0
    BY <2>1 DEF newCircularCache
  <2> QED
    BY <2>3, <2>4
<1>4. DOMAIN c = 0..(count - 1) /\ c = [idx \in DOMAIN c |-> c[idx]]
  BY <1>2
<1>5. ShardsWellFormed(K, V, hash, c)
  BY <1>3 DEF ShardsWellFormed
<1>6. KeysIn(c) = {}
  BY <1>3 DEF KeysIn
<1>7. Sharded(K, V, ttl, hash, c)
  <2>1. Cardinality(DOMAIN c) = count
    <3>1. 0 \in Int /\ count - 1 \in Int /\ ~(0 > count - 1) /\ count - 1 - 0 + 1 = count
      BY <1>1
    <3>2. Cardinality(0..(count - 1)) = count - 1 - 0 + 1
      BY <3>1, FS_Interval
    <3> QED
      BY <1>4, <3>1, <3>2
  <2> QED
    BY <1>1, <1>3, <1>4, <1>5, <2>1 DEF Sharded
<1> QED
  BY <1>3, <1>4, <1>6, <1>7 DEF c, count

LEMMA ShardOfKey ==
  ASSUME NEW K, NEW V, NEW ttl, NEW hash \in [K -> Nat], NEW c,
         Sharded(K, V, ttl, hash, c), NEW k \in K
  PROVE  /\ shardFor(c, hash, k) \in DOMAIN c
         /\ WellFormed(K, V, c[shardFor(c, hash, k)]) /\ c[shardFor(c, hash, k)].ttl = ttl
<1> DEFINE n == Cardinality(DOMAIN c)
<1>1. n \in Nat \ {0} /\ DOMAIN c = 0..(n - 1)
  BY DEF Sharded
<1> HIDE DEF n
<1>2. hash[k] \in Nat
  OBVIOUS
<1>3. hash[k] % n \in 0..(n - 1)
  BY <1>1, <1>2
<1>4. shardFor(c, hash, k) \in DOMAIN c
  BY <1>1, <1>3 DEF shardFor, n
<1> QED
  BY <1>4 DEF Sharded, ShardsWellFormed

\* A key is remembered in its own shard only, by a slot that holds it.
LEMMA EntryOfKey ==
  ASSUME NEW K, NEW V, NEW ttl, NEW hash \in [K -> Nat], NEW c, Sharded(K, V, ttl, hash, c),
         NEW k
  PROVE  /\ k \in KeysIn(c) => k \in K
         /\ k \in K => (k \in KeysIn(c) <=> k \in DOMAIN c[shardFor(c, hash, k)].items)
         /\ k \in KeysIn(c) =>
              /\ Entry(c, hash, k) \in [used : {TRUE}, key : K, value : V, expiresAt : Nat]
              /\ Entry(c, hash, k).key = k
<1>1. ASSUME k \in KeysIn(c)
      PROVE  k \in K /\ k \in DOMAIN c[shardFor(c, hash, k)].items
  <2>1. PICK idx \in DOMAIN c : k \in DOMAIN c[idx].items
    BY <1>1 DEF KeysIn
  <2>2. shardFor(c, hash, k) = idx /\ WellFormed(K, V, c[idx])
    BY <2>1 DEF Sharded, ShardsWellFormed
  <2> QED
    BY <2>1, <2>2 DEF WellFormed, WellTyped
<1>2. ASSUME k \in K, k \in DOMAIN c[shardFor(c, hash, k)].items
      PROVE  k \in KeysIn(c)
  BY <1>2, ShardOfKey DEF KeysIn
<1>3. ASSUME k \in KeysIn(c)
      PROVE  /\ Entry(c, hash, k) \in [used : {TRUE}, key : K, value : V, expiresAt : Nat]
             /\ Entry(c, hash, k).key = k
  <2> DEFINE s == c[shardFor(c, hash, k)]
             x == s.slots[s.items[k]]
  <2>1. k \in K /\ k \in DOMAIN s.items /\ WellFormed(K, V, s)
    BY <1>1, <1>3, ShardOfKey
  <2> HIDE DEF s
  <2>2. x \in SlotTypes(K, V) /\ x.used /\ x.key = k
    <3>1. s.items[k] \in SlotsOf(s) /\ s.slots \in [SlotsOf(s) -> SlotTypes(K, V)]
      BY <2>1 DEF WellFormed, WellTyped
    <3>2. x.used /\ x.key = k
      BY <2>1 DEF WellFormed, MapMatchesSlots
    <3> QED
      BY <3>1, <3>2
  <2>3. x # EmptySlot
    BY <2>2 DEF EmptySlot
  <2>4. x \in [used : {TRUE}, key : K, value : V, expiresAt : Nat]
    BY <2>2, <2>3 DEF SlotTypes
  <2> QED
    BY <2>2, <2>4 DEF Entry, s
<1> QED
  BY <1>1, <1>2, <1>3

\* A look-up hits exactly the keys that are remembered and have not expired, answers the value
\* of their entry and leaves the cache as it was.
LEMMA ShardedHits ==
  ASSUME NEW K, NEW V, NEW ttl, NEW hash \in [K -> Nat], NEW c, Sharded(K, V, ttl, hash, c),
         NEW k \in K, NEW now
  PROVE  /\ ShardedHit(c, hash, k, now)
              <=> (k \in KeysIn(c) /\ now <= Entry(c, hash, k).expiresAt)
         /\ Existing(c, hash, k) = Entry(c, hash, k).value
<1> DEFINE s == c[shardFor(c, hash, k)]
<1>1. WellFormed(K, V, s)
  BY ShardOfKey
<1>2. k \in KeysIn(c) <=> k \in DOMAIN s.items
  BY EntryOfKey
<1>3. k \in DOMAIN s.items => s.slots[s.items[k]].used
  <2> HIDE DEF s
  <2> QED
    BY <1>1 DEF WellFormed, MapMatchesSlots
<1> QED
  BY <1>2, <1>3 DEF ShardedHit, Hit, Existing, Entry

LEMMA ShardedHitKeeps ==
  ASSUME NEW K, NEW V, NEW ttl, NEW hash \in [K -> Nat], NEW c, Sharded(K, V, ttl, hash, c),
         NEW k \in K, NEW v, NEW now, NEW later, ShardedHit(c, hash, k, now)
  PROVE  ShardedGetOrPut(c, hash, k, v, now, later) = [cache |-> c, evicted |-> 0]
<1> DEFINE i == shardFor(c, hash, k)
<1>1. i \in DOMAIN c
  BY ShardOfKey
<1>2. GetOrPut(c[i], k, v, now, later) = [cache |-> c[i], evicted |-> 0]
  BY DEF GetOrPut, ShardedHit
<1>3. [c EXCEPT ![i] = c[i]] = c
  BY <1>1 DEF Sharded
<1> QED
  BY <1>2, <1>3 DEF ShardedGetOrPut

\* A look-up that misses stores the key; it loses no other entry but the one it says it evicted,
\* and changes no other shard.
MissOutcome(K, V, ttl, hash, c, k, v, later, put) ==
  LET r == put.cache
      i == shardFor(c, hash, k)
  IN
    /\ Sharded(K, V, ttl, hash, r) /\ DOMAIN r = DOMAIN c
    /\ put.evicted \in {0, 1}
    /\ k \in KeysIn(r) /\ Entry(r, hash, k) = UsedSlot(k, v, later + ttl)
    /\ \A j \in KeysIn(r) \ {k} : j \in KeysIn(c) /\ Entry(r, hash, j) = Entry(c, hash, j)
    /\ i \in DOMAIN c /\ \A idx \in DOMAIN c \ {i} : r[idx] = c[idx]
    /\ r[i].len = c[i].len + 1 - put.evicted - (IF k \in KeysIn(c) THEN 1 ELSE 0)

LEMMA ShardedMissStores ==
  ASSUME NEW K, NEW V, NEW ttl, NEW hash \in [K -> Nat], NEW c, Sharded(K, V, ttl, hash, c),
         NEW k \in K, NEW v \in V, NEW now, NEW later \in Nat, ~ShardedHit(c, hash, k, now),
         NEW put, put = ShardedGetOrPut(c, hash, k, v, now, later)
  PROVE  MissOutcome(K, V, ttl, hash, c, k, v, later, put)
<1> DEFINE i == shardFor(c, hash, k)
           s == c[i]
           got == GetOrPut(s, k, v, now, later)
           t == got.cache
           r == put.cache
<1>1. /\ i \in DOMAIN c /\ WellFormed(K, V, s) /\ s.ttl = ttl
      /\ k \in KeysIn(c) <=> k \in DOMAIN s.items
  <2>1. i \in DOMAIN c /\ WellFormed(K, V, s) /\ s.ttl = ttl
    BY ShardOfKey
  <2>2. k \in KeysIn(c) <=> k \in DOMAIN s.items
    BY EntryOfKey
  <2> QED
    BY <2>1, <2>2
<1>2. ~Hit(s, k, now)
  BY DEF ShardedHit
<1>3. put.cache = [c EXCEPT ![i] = t] /\ put.evicted = got.evicted
  BY DEF ShardedGetOrPut
<1> HIDE DEF s
<1>4. PICK kept \in SUBSET (DOMAIN s.items \ {k}) :
        /\ Stores(K, V, s, t, kept, k, v, later + s.ttl)
        /\ \/ kept = DOMAIN s.items \ {k} /\ got.evicted = 0
           \/ /\ \E w \in DOMAIN s.items \ {k} : kept = DOMAIN s.items \ {k, w}
              /\ got.evicted = 1 /\ k \notin DOMAIN s.items
  <2>1. \E kept \in SUBSET (DOMAIN s.items \ {k}) :
          /\ Stores(K, V, s, t, kept, k, v, later + s.ttl)
          /\ \/ /\ kept = DOMAIN s.items \ {k} /\ got.evicted = 0
                /\ (k \in DOMAIN s.items \/ s.len < s.maxEntries)
             \/ /\ \E w \in DOMAIN s.items \ {k} : kept = DOMAIN s.items \ {k, w}
                /\ got.evicted = 1 /\ s.len = s.maxEntries
                /\ k \notin DOMAIN s.items
    <3>1. k \in K /\ v \in V /\ later \in Nat /\ WellFormed(K, V, s)
      BY <1>1
    <3> QED
      BY ONLY <3>1, <1>2, GetOrPutStores
  <2> HIDE DEF got, t
  <2> QED
    BY <2>1
<1> HIDE DEF got, t
<1>5. /\ WellFormed(K, V, t) /\ t.ttl = ttl
      /\ DOMAIN t.items = kept \cup {k}
      /\ t.slots[t.items[k]] = UsedSlot(k, v, later + ttl)
      /\ \A j \in kept : t.slots[t.items[j]] = s.slots[s.items[j]]
      /\ got.evicted \in {0, 1}
  BY <1>1, <1>4 DEF Stores
<1>6. t.len = s.len + 1 - got.evicted - (IF k \in KeysIn(c) THEN 1 ELSE 0) /\ s.len \in Nat
  <2>1. /\ IsFiniteSet(DOMAIN s.items) /\ s.len = Cardinality(DOMAIN s.items) /\ s.len \in Nat
        /\ IsFiniteSet(DOMAIN t.items) /\ t.len = Cardinality(DOMAIN t.items)
    BY <1>1, <1>5 DEF WellFormed, WellTyped, LenMatchesItems
  <2>2. CASE kept = DOMAIN s.items \ {k} /\ got.evicted = 0
    <3>1. DOMAIN t.items = DOMAIN s.items \cup {k}
      BY <1>5, <2>2
    <3>2. t.len = IF k \in DOMAIN s.items THEN s.len ELSE s.len + 1
      BY <2>1, <3>1, FS_AddElement
    <3> QED
      BY <1>1, <2>1, <2>2, <3>2
  <2>3. CASE /\ \E w \in DOMAIN s.items \ {k} : kept = DOMAIN s.items \ {k, w}
             /\ got.evicted = 1 /\ k \notin DOMAIN s.items
    <3>1. PICK w \in DOMAIN s.items \ {k} : kept = DOMAIN s.items \ {k, w}
      BY <2>3
    <3> DEFINE D == DOMAIN s.items \ {w}
    <3>2. DOMAIN t.items = D \cup {k} /\ k \notin D
      BY <1>5, <2>3, <3>1
    <3>3. IsFiniteSet(D) /\ Cardinality(D) = s.len - 1
      BY <2>1, <3>1, FS_RemoveElement
    <3> HIDE DEF D
    <3>4. t.len = s.len - 1 + 1
      BY <2>1, <3>2, <3>3, FS_AddElement
    <3> QED
      BY <1>1, <2>1, <2>3, <3>4
  <2> QED
    BY <1>4, <2>2, <2>3
<1>7. /\ c = [idx \in DOMAIN c |-> c[idx]]
      /\ r = [idx \in DOMAIN c |-> IF idx = i THEN t ELSE c[idx]]
      /\ r[i] = t /\ DOMAIN r = DOMAIN c
      /\ \A idx \in DOMAIN c \ {i} : r[idx] = c[idx]
  <2>1. c = [idx \in DOMAIN c |-> c[idx]]
    BY DEF Sharded
  <2> HIDE DEF i
  <2> QED
    BY <1>1, <1>3, <2>1
<1>8. \A j : shardFor(r, hash, j) = shardFor(c, hash, j)
  BY <1>7 DEF shardFor
<1>9. Sharded(K, V, ttl, hash, r)
  <2>1. Cardinality(DOMAIN r) \in Nat \ {0} /\ DOMAIN r = 0..(Cardinality(DOMAIN r) - 1)
    BY <1>7 DEF Sharded
  <2>2. r = [idx \in DOMAIN r |-> r[idx]]
    BY <1>7
  <2>3. ASSUME NEW idx \in DOMAIN r
        PROVE  /\ WellFormed(K, V, r[idx]) /\ r[idx].ttl = ttl
               /\ \A j \in DOMAIN r[idx].items : shardFor(r, hash, j) = idx
    <3>1. CASE idx # i
      BY <1>7, <1>8, <3>1 DEF Sharded, ShardsWellFormed
    <3>2. CASE idx = i
      <4>1. \A j \in DOMAIN s.items : shardFor(c, hash, j) = i
        BY <1>1 DEF Sharded, ShardsWellFormed, s
      <4>2. \A j \in DOMAIN t.items : shardFor(c, hash, j) = i
        BY <1>4, <1>5, <4>1
      <4> QED
        BY <1>5, <1>7, <1>8, <3>2, <4>2
    <3> QED
      BY <3>1, <3>2
  <2> QED
    BY <2>1, <2>2, <2>3 DEF Sharded, ShardsWellFormed
<1>10. k \in KeysIn(r)
  BY <1>1, <1>5, <1>7 DEF KeysIn
<1>11. Entry(r, hash, k) = UsedSlot(k, v, later + ttl)
  BY <1>5, <1>7, <1>8 DEF Entry
<1>12. ASSUME NEW j \in KeysIn(r) \ {k}
       PROVE  j \in KeysIn(c) /\ Entry(r, hash, j) = Entry(c, hash, j)
  <2> DEFINE a == shardFor(c, hash, j)
  <2>1. j \in K /\ j \in DOMAIN r[a].items /\ a \in DOMAIN c
    <3> HIDE DEF r
    <3>1. j \in KeysIn(r)
      OBVIOUS
    <3>2. j \in K
      BY <1>9, <3>1, EntryOfKey
    <3>3. j \in DOMAIN r[shardFor(r, hash, j)].items
      <4>1. j \in K => (j \in KeysIn(r) <=> j \in DOMAIN r[shardFor(r, hash, j)].items)
        BY <1>9, EntryOfKey
      <4> QED
        BY <3>1, <3>2, <4>1
    <3>4. a \in DOMAIN c
      BY <3>2, ShardOfKey
    <3> QED
      BY <1>8, <3>2, <3>3, <3>4
  <2>2. Entry(r, hash, j) = r[a].slots[r[a].items[j]] /\ Entry(c, hash, j) = c[a].slots[c[a].items[j]]
    BY <1>8 DEF Entry
  <2>3. CASE a # i
    <3>1. r[a] = c[a]
      BY <1>7, <2>1, <2>3
    <3>2. j \in KeysIn(c)
      BY <2>1, <3>1 DEF KeysIn
    <3> QED
      BY <2>2, <3>1, <3>2
  <2>4. CASE a = i
    <3>1. j \in kept /\ r[a] = t /\ c[a] = s
      BY <1>5, <1>7, <2>1, <2>4 DEF s
    <3>2. j \in DOMAIN s.items
      BY <1>4, <3>1
    <3>3. j \in KeysIn(c)
      BY <2>1, <3>1, <3>2 DEF KeysIn
    <3> QED
      BY <1>5, <2>2, <3>1, <3>3
  <2> QED
    BY <2>3, <2>4
<1>13. r[i].len = c[i].len + 1 - put.evicted - (IF k \in KeysIn(c) THEN 1 ELSE 0) /\ c[i].len \in Nat
  BY <1>3, <1>6, <1>7 DEF s
<1>14. put.evicted \in {0, 1}
  BY <1>3, <1>5
<1> QED
  BY <1>1, <1>7, <1>9, <1>10, <1>11, <1>12, <1>13, <1>14 DEF MissOutcome

\* The length of a cache is a number, and nothing at the start.
LEMMA TotalLenType ==
  ASSUME NEW K, NEW V, NEW ttl, NEW hash, NEW c, Sharded(K, V, ttl, hash, c)
  PROVE  TotalLen(c) \in Int /\ IsFiniteSet(DOMAIN c) /\ \A idx \in DOMAIN c : c[idx].len \in Nat
<1> DEFINE f == [idx \in DOMAIN c |-> c[idx].len]
           n == Cardinality(DOMAIN c)
<1>1. IsFiniteSet(DOMAIN c)
  <2>1. n \in Nat /\ DOMAIN c = 0..(n - 1)
    BY DEF Sharded
  <2> HIDE DEF n
  <2>2. IsFiniteSet(0..(n - 1))
    BY <2>1, FS_Interval
  <2> QED
    BY <2>1, <2>2
<1>2. ASSUME NEW idx \in DOMAIN c PROVE c[idx].len \in Nat
  BY DEF Sharded, ShardsWellFormed, WellFormed, WellTyped
<1>3. TotalLen(c) = SumFunctionOnSet(f, DOMAIN c)
  BY SumOfWhole DEF TotalLen
<1>4. \A idx \in DOMAIN c : f[idx] \in Int
  BY <1>2
<1> HIDE DEF f
<1> QED
  BY <1>1, <1>2, <1>3, <1>4, SumOfInt

LEMMA NewTotalLen ==
  ASSUME NEW ttl \in Nat, NEW n \in Nat \ {0}, NEW d \in Nat \ {0}
  PROVE  TotalLen(newStateCache(n, ttl, d)) = 0
<1> DEFINE c == newStateCache(n, ttl, d)
           f == [idx \in DOMAIN c |-> c[idx].len]
           hash == [k \in {} |-> 0]
<1>1. Sharded({}, {}, ttl, hash, c) /\ \A idx \in DOMAIN c : c[idx].len = 0
  BY NewSharded
<1> HIDE DEF c
<1>2. IsFiniteSet(DOMAIN c)
  BY <1>1, TotalLenType
<1>3. TotalLen(c) = SumFunctionOnSet(f, DOMAIN c) /\ \A idx \in DOMAIN c : f[idx] = 0
  BY <1>1, SumOfWhole DEF TotalLen
<1> HIDE DEF f
<1> QED
  BY <1>2, <1>3, SumOfZero DEF c

\* A look-up that misses makes the cache longer by one, less what it evicted or found expired.
LEMMA ShardedMissLengthens ==
  ASSUME NEW K, NEW V, NEW ttl, NEW hash \in [K -> Nat], NEW c, Sharded(K, V, ttl, hash, c),
         NEW k \in K, NEW v \in V, NEW now, NEW later \in Nat, ~ShardedHit(c, hash, k, now),
         NEW put, put = ShardedGetOrPut(c, hash, k, v, now, later)
  PROVE  /\ put.evicted \in {0, 1}
         /\ TotalLen(put.cache) = TotalLen(c) + 1 - put.evicted - (IF k \in KeysIn(c) THEN 1 ELSE 0)
<1> DEFINE r == put.cache
           i == shardFor(c, hash, k)
           f == [idx \in DOMAIN c |-> c[idx].len]
           g == [idx \in DOMAIN c |-> r[idx].len]
           lost == IF k \in KeysIn(c) THEN 1 ELSE 0
           S == DOMAIN c
<1>1. /\ Sharded(K, V, ttl, hash, r) /\ DOMAIN r = DOMAIN c /\ put.evicted \in {0, 1}
      /\ i \in DOMAIN c /\ (\A idx \in DOMAIN c \ {i} : r[idx] = c[idx])
      /\ r[i].len = c[i].len + 1 - put.evicted - lost
  <2>1. MissOutcome(K, V, ttl, hash, c, k, v, later, put)
    BY ShardedMissStores
  <2> QED
    BY <2>1 DEF MissOutcome
<1>2. IsFiniteSet(S) /\ (\A idx \in S : c[idx].len \in Nat) /\ TotalLen(c) \in Int
  BY TotalLenType
<1>3. \A idx \in S : r[idx].len \in Nat
  BY <1>1, TotalLenType
<1>4. TotalLen(c) = SumFunctionOnSet(f, S)
  BY SumOfWhole DEF TotalLen
<1>5. TotalLen(r) = SumFunctionOnSet(g, S)
  BY <1>1, SumOfWhole DEF TotalLen
<1>6. /\ i \in S /\ (\A idx \in S : f[idx] \in Int /\ g[idx] \in Int)
      /\ (\A idx \in S \ {i} : g[idx] = f[idx])
      /\ f[i] = c[i].len /\ g[i] = r[i].len
  BY <1>1, <1>2, <1>3
<1> HIDE DEF f, g, r, i, S
<1>7. SumFunctionOnSet(g, S) = SumFunctionOnSet(f, S) - f[i] + g[i]
  BY <1>2, <1>6, SumOfChange
<1>8. c[i].len \in Nat /\ lost \in {0, 1}
  BY <1>2, <1>6
<1> HIDE DEF lost
<1>9. TotalLen(r) = TotalLen(c) + 1 - put.evicted - lost
  BY <1>1, <1>2, <1>4, <1>5, <1>6, <1>7, <1>8
<1> QED
  BY <1>1, <1>9 DEF r, lost

\* What the first n shares hold.
Shares(base, extra, n) == base * n + (IF n < extra THEN n ELSE extra)

\* Shares of base, and one more for the first ones, add up to the whole.
LEMMA SumOfShares ==
  ASSUME NEW base \in Nat, NEW extra \in Nat, NEW f,
         \A k \in Nat : f[k] = base + (IF k < extra THEN 1 ELSE 0), NEW n \in Nat
  PROVE  SumFunctionOnSet(f, 0..(n - 1)) = Shares(base, extra, n)
<1> DEFINE Whole(m) == Shares(base, extra, m)
           T == {m \in Nat : SumFunctionOnSet(f, 0..(m - 1)) # Whole(m)}
<1>1. SUFFICES ASSUME T # {} PROVE FALSE
  BY DEF T
<1>2. PICK m \in T : \A k \in T : m <= k
  <2>1. T \subseteq Nat
    OBVIOUS
  <2> HIDE DEF T
  <2> QED
    BY <1>1, <2>1, LeastNatural
<1>3. m \in Nat /\ SumFunctionOnSet(f, 0..(m - 1)) # Whole(m)
  BY <1>2
<1>4. m # 0
  <2>1. 0..(0 - 1) = {} /\ Whole(0) = 0
    BY DEF Shares
  <2> QED
    BY <1>3, <2>1, SumOfEmpty
<1> DEFINE k == m - 1
<1>5. k \in Nat /\ m = k + 1 /\ 0..(m - 1) = 0..(k - 1) \cup {k} /\ k \notin 0..(k - 1)
  BY <1>3, <1>4
<1>6. k \notin T
  <2> HIDE DEF T
  <2> QED
    BY <1>2, <1>3
<1>7. SumFunctionOnSet(f, 0..(k - 1)) = Whole(k)
  BY <1>5, <1>6
<1> HIDE DEF k, T, Whole
<1>8. SumFunctionOnSet(f, 0..(m - 1)) = f[k] + SumFunctionOnSet(f, 0..(k - 1))
  <2> DEFINE S == 0..(k - 1)
  <2>1. IsFiniteSet(S) /\ \A y \in S \cup {k} : f[y] \in Int
    <3>1. IsFiniteSet(S)
      BY <1>5, FS_Interval
    <3> QED
      BY <1>5, <3>1
  <2> HIDE DEF S
  <2>2. SumFunctionOnSet(f, S \cup {k}) = f[k] + SumFunctionOnSet(f, S)
    BY <1>5, <2>1, SumOfAdd DEF S
  <2> QED
    BY <1>5, <2>2 DEF S
<1>9. Whole(m) = f[k] + Whole(k)
  <2>1. base * m = base * k + base /\ base * k \in Int
    BY <1>5, BudgetGrows
  <2>2. f[k] = base + (IF k < extra THEN 1 ELSE 0)
    BY <1>5
  <2> QED
    BY <1>5, <2>1, <2>2 DEF Whole, Shares
<1> QED
  BY <1>3, <1>7, <1>8, <1>9

LEMMA DivMod ==
  ASSUME NEW m \in Nat, NEW count \in Nat \ {0}
  PROVE  /\ m % count \in Nat /\ m % count < count
         /\ m = (m \div count) * count + (m % count)
BY SMT

\* The shards of a cache together hold what it was asked to hold.
LEMMA ShardsAddUp ==
  ASSUME NEW m \in Nat, NEW count \in Nat \ {0}
  PROVE  SumFunction([idx \in 0..(count - 1) |-> ShardSize(m, count, idx)]) = m
<1> DEFINE g == [idx \in 0..(count - 1) |-> ShardSize(m, count, idx)]
           base == m \div count
           extra == m % count
           f == [k \in Nat |-> base + (IF k < extra THEN 1 ELSE 0)]
<1>1. base \in Nat /\ extra \in Nat /\ extra < count /\ m = base * count + extra
  BY DivBounds, DivMod
<1>2. SumFunction(g) = SumFunctionOnSet(g, 0..(count - 1))
  BY SumOfWhole
<1>3. \A k \in 0..(count - 1) : g[k] = f[k]
  BY DEF ShardSize
<1>4. \A k \in Nat : f[k] = base + (IF k < extra THEN 1 ELSE 0)
  OBVIOUS
<1> HIDE DEF f, g, base, extra
<1>5. SumFunctionOnSet(f, 0..(count - 1)) = Shares(base, extra, count)
  <2>1. count \in Nat
    OBVIOUS
  <2> QED
    BY ONLY <1>1, <1>4, <2>1, SumOfShares
<1>6. SumFunctionOnSet(g, 0..(count - 1)) = SumFunctionOnSet(f, 0..(count - 1))
  <2>1. IsFiniteSet(0..(count - 1))
    BY FS_Interval
  <2> QED
    BY <1>3, <2>1, SumOfAgree
<1>7. ~(count < extra)
  BY <1>1
<1> QED
  BY <1>1, <1>2, <1>5, <1>6, <1>7 DEF g, Shares
==============================================================================
