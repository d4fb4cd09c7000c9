---------------------------- MODULE FindingsProofs ----------------------------
(***************************************************************************)
(* How wrong pruning can make the top series, and how many first examples  *)
(* there can be, for every number of series, handlers and scrapes, every   *)
(* size and every window; and the sizes that bound map, reports and        *)
(* examples.                                                               *)
(***************************************************************************)
EXTENDS Findings, SharedFacts, FiniteSetTheorems, TLAPS

\* Entries with their counts.
Tracked(e) == IsFiniteSet(DOMAIN e) /\ e \in [DOMAIN e -> Nat]

LEMMA SizesOfThePrune == Keep \in Nat \ {0} /\ PruneAbove \in Nat /\ Keep <= PruneAbove /\ maxSeries <= Keep
<1>1. /\ maxSeries \in Nat \ {0} /\ KeepFactor \in Nat \ {0} /\ PruneFactor \in Nat
      /\ KeepFactor <= PruneFactor
  BY SizesAssumption
<1>2. \A m, a, b \in Nat : a <= b => m * a <= m * b /\ m * a \in Nat /\ m * b \in Nat
  BY SMT
<1>3. \A m, a \in Nat : m > 0 /\ a > 0 => m <= m * a
  BY SMT
<1> QED
  BY <1>1, <1>2, <1>3 DEF Keep, PruneAbove

------------------------------------------------------------------------------
(* The floor: it is what so many entries have reached that a prune leaves   *)
(* none of them out in favour of a smaller one.                             *)

Reached(e) ==
  {0} \cup {e[k] : k \in {k \in DOMAIN e : Cardinality({j \in DOMAIN e : e[j] >= e[k]}) >= Keep}}

LEMMA ReachedType ==
  ASSUME NEW e, Tracked(e)
  PROVE  Reached(e) \subseteq Nat /\ 0 \in Reached(e)
<1>1. ASSUME NEW x \in Reached(e), x # 0 PROVE x \in Nat
  <2>1. PICK k \in DOMAIN e : x = e[k]
    BY <1>1 DEF Reached
  <2> QED
    BY <2>1 DEF Tracked
<1>2. 0 \in Reached(e)
  BY DEF Reached
<1> QED
  BY <1>1, <1>2

LEMMA FloorIsMax ==
  ASSUME NEW e, Tracked(e)
  PROVE  KeptFloor(e) \in Reached(e) /\ (\A x \in Reached(e) : x <= KeptFloor(e))
<1> DEFINE P == {k \in DOMAIN e : Cardinality({j \in DOMAIN e : e[j] >= e[k]}) >= Keep}
<1>1. Reached(e) \subseteq Nat /\ 0 \in Reached(e)
  BY ReachedType
<1>2. \E m \in Reached(e) : \A x \in Reached(e) : x <= m
  <2>1. CASE P = {}
    <3>1. Reached(e) = {0}
      BY <2>1 DEF Reached
    <3> QED
      BY <3>1
  <2>2. CASE P # {}
    <3> DEFINE f == [k \in P |-> e[k]]
    <3>1. P \subseteq DOMAIN e /\ IsFiniteSet(P)
      <4>1. P \subseteq DOMAIN e
        OBVIOUS
      <4> HIDE DEF P
      <4> QED
        BY <4>1, FS_Subset DEF Tracked
    <3>2. f \in [P -> Int] /\ \A k \in P : f[k] = e[k]
      <4> HIDE DEF P
      <4> QED
        BY <3>1 DEF Tracked
    <3>3. PICK m \in P : \A k \in P : f[k] <= f[m]
      <4> HIDE DEF P, f
      <4> QED
        BY <2>2, <3>1, <3>2, HighestMember
    <3>4. e[m] \in Reached(e)
      BY DEF Reached
    <3>5. ASSUME NEW x \in Reached(e) PROVE x <= e[m]
      <4>1. CASE x = 0
        BY <3>1, <4>1 DEF Tracked
      <4>2. CASE x # 0
        <5>1. PICK k \in P : x = e[k]
          BY <4>2 DEF Reached
        <5> QED
          BY <3>2, <3>3, <5>1
      <4> QED
        BY <4>1, <4>2
    <3> QED
      BY <3>4, <3>5
  <2> QED
    BY <2>1, <2>2
<1>3. KeptFloor(e) = CHOOSE x \in Reached(e) : \A y \in Reached(e) : x >= y
  BY DEF KeptFloor, Max, Reached
<1>4. \E x \in Reached(e) : \A y \in Reached(e) : x >= y
  BY <1>1, <1>2
<1> HIDE DEF P
<1>5. KeptFloor(e) \in Reached(e) /\ (\A y \in Reached(e) : KeptFloor(e) >= y)
  BY <1>3, <1>4
<1> QED
  BY <1>1, <1>5

\* The floor from below: it is at least what Keep entries have reached.
LEMMA FloorReached ==
  ASSUME NEW e, Tracked(e), NEW A, A \subseteq DOMAIN e, Cardinality(A) >= Keep,
         NEW v \in Nat, \A j \in A : e[j] >= v
  PROVE  KeptFloor(e) \in Nat /\ v <= KeptFloor(e)
<1>1. IsFiniteSet(A) /\ A # {} /\ Cardinality(A) \in Nat
  <2>1. IsFiniteSet(A)
    BY FS_Subset DEF Tracked
  <2> QED
    BY <2>1, FS_EmptySet, FS_CardinalityType, SizesOfThePrune
<1> DEFINE f == [k \in A |-> e[k]]
<1>2. f \in [A -> Int] /\ \A k \in A : f[k] = e[k]
  BY DEF Tracked
<1>3. PICK m \in A : \A k \in A : f[m] <= f[k]
  <2> HIDE DEF f
  <2> QED
    BY <1>1, <1>2, LowestMember
<1> DEFINE B == {j \in DOMAIN e : e[j] >= e[m]}
<1>4. A \subseteq B /\ IsFiniteSet(B)
  <2>1. A \subseteq B
    BY <1>2, <1>3 DEF Tracked
  <2>2. B \subseteq DOMAIN e
    OBVIOUS
  <2> HIDE DEF B
  <2> QED
    BY <2>1, <2>2, FS_Subset DEF Tracked
<1>5. Cardinality(B) >= Keep
  <2> HIDE DEF B
  <2>1. Cardinality(A) <= Cardinality(B) /\ Cardinality(B) \in Nat
    BY <1>4, FS_Subset, FS_CardinalityType
  <2> QED
    BY <1>1, <2>1, SizesOfThePrune
<1>6. e[m] \in Reached(e)
  BY <1>5 DEF Reached
<1>7. Reached(e) \subseteq Nat
  BY ReachedType
<1> QED
  BY <1>6, <1>7, FloorIsMax

\* And from above: as many entries have reached it.
LEMMA FloorWitness ==
  ASSUME NEW e, Tracked(e)
  PROVE  /\ KeptFloor(e) \in Nat
         /\ \/ KeptFloor(e) = 0
            \/ \E A \in SUBSET DOMAIN e :
                 Cardinality(A) >= Keep /\ \A j \in A : e[j] >= KeptFloor(e)
<1>1. KeptFloor(e) \in Reached(e)
  BY FloorIsMax
<1>2. CASE KeptFloor(e) # 0
  <2>1. PICK k \in DOMAIN e : /\ KeptFloor(e) = e[k]
                              /\ Cardinality({j \in DOMAIN e : e[j] >= e[k]}) >= Keep
    BY <1>1, <1>2 DEF Reached
  <2> DEFINE A == {j \in DOMAIN e : e[j] >= e[k]}
  <2>2. A \in SUBSET DOMAIN e /\ Cardinality(A) >= Keep /\ \A j \in A : e[j] >= KeptFloor(e)
    BY <2>1
  <2> QED
    BY <2>1, <2>2 DEF Tracked
<1> QED
  BY <1>1, <1>2, ReachedType

\* Counting one more does not lower it.
LEMMA FloorGrowsByCounting ==
  ASSUME NEW e, Tracked(e), NEW k
  PROVE  /\ Tracked(Counted(e, k)) /\ DOMAIN Counted(e, k) = DOMAIN e \cup {k}
         /\ KeptFloor(Counted(e, k)) \in Nat /\ KeptFloor(e) <= KeptFloor(Counted(e, k))
<1> DEFINE c == Counted(e, k)
<1>1. DOMAIN c = DOMAIN e \cup {k} /\ IsFiniteSet(DOMAIN c)
  <2>1. DOMAIN c = DOMAIN e \cup {k}
    BY DEF Counted
  <2> HIDE DEF c
  <2> QED
    BY <2>1, FS_AddElement DEF Tracked
<1>2. c \in [DOMAIN c -> Nat] /\ \A j \in DOMAIN e : e[j] \in Nat /\ c[j] >= e[j]
  BY DEF Counted, Tracked
<1>3. Tracked(c)
  <2> HIDE DEF c
  <2> QED
    BY <1>1, <1>2 DEF Tracked
<1> HIDE DEF c
<1>4. KeptFloor(e) \in Nat /\ KeptFloor(c) \in Nat
  BY <1>3, FloorWitness
<1>5. ASSUME KeptFloor(e) # 0 PROVE KeptFloor(e) <= KeptFloor(c)
  <2>1. PICK A \in SUBSET DOMAIN e : Cardinality(A) >= Keep /\ \A j \in A : e[j] >= KeptFloor(e)
    BY <1>5, FloorWitness
  <2>2. A \subseteq DOMAIN c /\ \A j \in A : c[j] >= KeptFloor(e)
    <3>1. ASSUME NEW j \in A PROVE c[j] >= KeptFloor(e)
      <4>1. e[j] \in Nat /\ c[j] >= e[j] /\ e[j] >= KeptFloor(e) /\ c[j] \in Nat
        BY <1>1, <1>2, <2>1
      <4> QED
        BY <1>4, <4>1
    <3> QED
      BY <1>1, <3>1
  <2> QED
    BY <1>3, <1>4, <2>1, <2>2, FloorReached
<1> QED
  BY <1>1, <1>3, <1>4, <1>5 DEF c

\* Nor does a prune, which in turn drops nothing above it.
LEMMA FloorGrowsByPruning ==
  ASSUME NEW e, Tracked(e), NEW kept, Cardinality(DOMAIN e) > PruneAbove,
         LeadersOf(e, Keep, kept)
  PROVE  /\ kept \subseteq DOMAIN e /\ kept # DOMAIN e /\ Cardinality(kept) = Keep
         /\ Tracked(Restrict(e, kept))
         /\ KeptFloor(Restrict(e, kept)) \in Nat
         /\ KeptFloor(e) <= KeptFloor(Restrict(e, kept))
         /\ \A k \in DOMAIN e \ kept : e[k] <= KeptFloor(Restrict(e, kept))
<1> DEFINE r == Restrict(e, kept)
<1>1. kept \subseteq DOMAIN e /\ IsFiniteSet(kept)
  BY FS_Subset DEF LeadersOf, Tracked
<1>2. Cardinality(DOMAIN e) \in Nat /\ Cardinality(kept) = Keep /\ kept # DOMAIN e
  <2>1. Cardinality(DOMAIN e) \in Nat
    BY FS_CardinalityType DEF Tracked
  <2> QED
    BY <2>1, SizesOfThePrune DEF LeadersOf
<1>3. DOMAIN r = kept /\ (\A j \in kept : r[j] = e[j] /\ e[j] \in Nat) /\ r \in [kept -> Nat]
  BY <1>1 DEF Restrict, Tracked
<1>4. Tracked(r)
  <2> HIDE DEF r
  <2> QED
    BY <1>1, <1>3 DEF Tracked
<1> HIDE DEF r
<1>5. KeptFloor(e) \in Nat /\ KeptFloor(r) \in Nat
  BY <1>4, FloorWitness
<1>6. ASSUME NEW v \in Nat, \A j \in kept : e[j] >= v PROVE v <= KeptFloor(r)
  <2>1. \A j \in kept : r[j] >= v
    BY <1>3, <1>6
  <2> QED
    BY <1>2, <1>3, <1>4, <2>1, FloorReached, SizesOfThePrune
<1>7. ASSUME NEW k \in DOMAIN e \ kept PROVE e[k] <= KeptFloor(r)
  <2>1. \A j \in kept : e[j] >= e[k]
    BY <1>7 DEF LeadersOf
  <2> QED
    BY <1>6, <2>1 DEF Tracked
<1>8. KeptFloor(e) <= KeptFloor(r)
  <2>1. CASE KeptFloor(e) = 0
    BY <1>5, <2>1
  <2>2. CASE KeptFloor(e) # 0
    <3>1. PICK A \in SUBSET DOMAIN e : Cardinality(A) >= Keep /\ \A j \in A : e[j] >= KeptFloor(e)
      BY <2>2, FloorWitness
    <3>2. CASE A \subseteq kept
      <4>1. Cardinality(A) <= Cardinality(kept) /\ Cardinality(A) \in Nat
        BY <1>1, <3>2, FS_Subset, FS_CardinalityType
      <4>2. Cardinality(kept) = Cardinality(A)
        BY <1>2, <3>1, <4>1, SizesOfThePrune
      <4>3. A = kept
        BY <1>1, <3>2, <4>2, FS_Subset
      <4> QED
        BY <1>5, <1>6, <3>1, <4>3
    <3>3. CASE ~ (A \subseteq kept)
      <4>1. PICK a \in A \ kept : TRUE
        BY <3>3
      <4>2. e[a] \in Nat /\ e[a] >= KeptFloor(e) /\ e[a] <= KeptFloor(r)
        BY <1>7, <3>1, <4>1 DEF Tracked
      <4> QED
        BY <1>5, <4>2
    <3> QED
      BY <3>2, <3>3
  <2> QED
    BY <2>1, <2>2
<1> QED
  BY <1>1, <1>2, <1>4, <1>5, <1>7, <1>8 DEF r

------------------------------------------------------------------------------
(* The inductive invariant of the collector.  Besides the bound itself: once *)
(* the map was pruned it holds at least what a prune leaves, and everything  *)
(* in it was first observed in the window.                                   *)

CountOf(e, k) == IF k \in DOMAIN e THEN e[k] ELSE 0

Under(e, past) ==
  \A k \in Keys :
    /\ CountOf(e, k) <= past.observed[k]
    /\ past.observed[k] <= CountOf(e, k) + Slack(e, past)

CollectorOK(t, past, n) ==
  /\ t = [windowStart |-> t.windowStart, entries |-> t.entries]
  /\ t.windowStart \in Nat /\ t.windowStart <= n
  /\ Tracked(t.entries) /\ DOMAIN t.entries \subseteq Keys
  /\ past.observed \in [Keys -> Nat] /\ past.prunes \in Nat
  /\ Under(t.entries, past)
  /\ past.prunes # 0 => Cardinality(DOMAIN t.entries) >= Keep
  /\ DOMAIN t.entries \subseteq DOMAIN past.since
  /\ \A k \in DOMAIN past.since : past.since[k] \in Nat /\ past.since[k] >= t.windowStart

\* A window that is over leaves nothing behind.
LEMMA EmptyCollector ==
  ASSUME NEW n \in Nat
  PROVE  CollectorOK([windowStart |-> n, entries |-> Empty], NoTally, n)
<1>1. Tracked(Empty) /\ DOMAIN Empty = {}
  BY FS_EmptySet DEF Tracked, Empty
<1>2. /\ NoTally.observed \in [Keys -> Nat] /\ NoTally.prunes = 0
      /\ DOMAIN NoTally.since = {} /\ \A k \in Keys : NoTally.observed[k] = 0
  BY DEF NoTally, Empty
<1>3. KeptFloor(Empty) \in Nat
  BY <1>1, FloorWitness
<1>4. Slack(Empty, NoTally) = 0
  BY <1>2, <1>3 DEF Slack
<1>5. Under(Empty, NoTally)
  BY <1>1, <1>2, <1>4 DEF Under, CountOf
<1> QED
  BY <1>1, <1>2, <1>5 DEF CollectorOK

LEMMA WindowRenewed ==
  ASSUME now \in Nat, CollectorOK(top, tally, now)
  PROVE  /\ CollectorOK(resetExpired(now), TallyAt(now), now)
         /\ resetExpired(now).windowStart > now - Window
<1>1. CASE Expired(top.windowStart, now)
  BY <1>1, EmptyCollector, WindowAssumption DEF resetExpired, TallyAt
<1>2. CASE ~ Expired(top.windowStart, now)
  BY <1>2, WindowAssumption DEF resetExpired, TallyAt, Expired, CollectorOK
<1> QED
  BY <1>1, <1>2

\* A product grows with its factors.
LEMMA SlackGrows ==
  ASSUME NEW p \in Nat, NEW f \in Nat, NEW g \in Nat, f <= g
  PROVE  p * f <= p * g /\ p * f \in Nat /\ p * g \in Nat /\ (p + 1) * g = p * g + g
BY SMT

\* Counting a finding keeps the bound, with the count before any prune.
LEMMA CountKeeps ==
  ASSUME NEW t, NEW past, NEW n \in Nat, CollectorOK(t, past, n), NEW key \in Keys, NEW obs,
         obs = [past.observed EXCEPT ![key] = @ + 1]
  PROVE  /\ obs \in [Keys -> Nat]
         /\ \A k \in Keys :
              LET c == Counted(t.entries, key) IN
              /\ CountOf(c, k) \in Nat
              /\ CountOf(c, k) <= obs[k]
              /\ obs[k] <= CountOf(c, k) + past.prunes * KeptFloor(c)
<1> DEFINE e == t.entries
           c == Counted(e, key)
<1>1. /\ past.observed \in [Keys -> Nat] /\ past.prunes \in Nat /\ Tracked(e)
      /\ Under(e, past)
  BY DEF CollectorOK
<1>2. obs \in [Keys -> Nat]
  BY <1>1
<1>3. /\ DOMAIN c = DOMAIN e \cup {key} /\ KeptFloor(c) \in Nat /\ KeptFloor(e) \in Nat
      /\ KeptFloor(e) <= KeptFloor(c)
  BY <1>1, FloorGrowsByCounting, FloorWitness
<1>4. past.prunes * KeptFloor(e) <= past.prunes * KeptFloor(c)
      /\ past.prunes * KeptFloor(e) \in Nat /\ past.prunes * KeptFloor(c) \in Nat
  BY <1>1, <1>3, SlackGrows
<1>5. ASSUME NEW k \in Keys
      PROVE  /\ CountOf(c, k) \in Nat
             /\ CountOf(c, k) <= obs[k]
             /\ obs[k] <= CountOf(c, k) + past.prunes * KeptFloor(c)
  <2>1. /\ CountOf(e, k) \in Nat /\ past.observed[k] \in Nat
        /\ CountOf(e, k) <= past.observed[k]
        /\ past.observed[k] <= CountOf(e, k) + past.prunes * KeptFloor(e)
    BY <1>1 DEF Under, Slack, CountOf, Tracked
  <2>2. CountOf(c, k) = CountOf(e, k) + (IF k = key THEN 1 ELSE 0)
    <3>1. CASE k \in DOMAIN e
      BY <3>1, <1>1 DEF CountOf, Counted, Tracked
    <3>2. CASE k \notin DOMAIN e
      BY <3>2 DEF CountOf, Counted
    <3> QED
      BY <3>1, <3>2
  <2>3. obs[k] = past.observed[k] + (IF k = key THEN 1 ELSE 0)
    BY <1>1
  <2> HIDE DEF c, e
  <2> QED
    BY <1>4, <2>1, <2>2, <2>3
<1> QED
  BY <1>2, <1>5

\* What an observation makes of a collector and its history.
ObservedTally(past, key, n, pruned) ==
  [ observed |-> [past.observed EXCEPT ![key] = @ + 1],
    since |-> [k \in DOMAIN past.since \cup {key} |->
                 IF k \in DOMAIN past.since THEN past.since[k] ELSE n],
    prunes |-> past.prunes + (IF pruned THEN 1 ELSE 0) ]

LEMMA ObserveKeeps ==
  ASSUME NEW t, NEW past, NEW n \in Nat, CollectorOK(t, past, n), NEW key \in Keys, NEW kept,
         Pruned(Counted(t.entries, key), kept)
  PROVE  CollectorOK([t EXCEPT !.entries = Restrict(Counted(t.entries, key), kept)],
                     ObservedTally(past, key, n, kept # DOMAIN Counted(t.entries, key)), n)
<1> DEFINE c == Counted(t.entries, key)
           r == Restrict(c, kept)
           p == ObservedTally(past, key, n, kept # DOMAIN c)
           u == [t EXCEPT !.entries = r]
<1>1. /\ t = [windowStart |-> t.windowStart, entries |-> t.entries]
      /\ t.windowStart \in Nat /\ t.windowStart <= n
      /\ Tracked(t.entries) /\ DOMAIN t.entries \subseteq Keys
      /\ past.prunes \in Nat
      /\ past.prunes # 0 => Cardinality(DOMAIN t.entries) >= Keep
      /\ DOMAIN t.entries \subseteq DOMAIN past.since
      /\ \A k \in DOMAIN past.since : past.since[k] \in Nat /\ past.since[k] >= t.windowStart
  BY DEF CollectorOK
<1>2. Tracked(c) /\ DOMAIN c = DOMAIN t.entries \cup {key} /\ DOMAIN c \subseteq Keys
  BY <1>1, FloorGrowsByCounting
<1>3. u = [windowStart |-> u.windowStart, entries |-> u.entries] /\ u.entries = r
      /\ u.windowStart = t.windowStart
  <2> HIDE DEF r
  <2> QED
    BY <1>1
<1>4. /\ p.observed = [past.observed EXCEPT ![key] = @ + 1]
      /\ p.prunes = past.prunes + (IF kept # DOMAIN c THEN 1 ELSE 0)
      /\ DOMAIN p.since = DOMAIN past.since \cup {key}
      /\ \A k \in DOMAIN p.since : p.since[k] \in Nat /\ p.since[k] >= u.windowStart
  BY <1>1, <1>3 DEF ObservedTally
<1>5. /\ p.observed \in [Keys -> Nat]
      /\ \A k \in Keys :
           /\ CountOf(c, k) \in Nat
           /\ CountOf(c, k) <= p.observed[k]
           /\ p.observed[k] <= CountOf(c, k) + past.prunes * KeptFloor(c)
  <2> HIDE DEF p
  <2> QED
    BY <1>4, CountKeeps
<1> SUFFICES CollectorOK(u, p, n)
  OBVIOUS
<1>6. CASE Cardinality(DOMAIN c) > PruneAbove
  <2>1. LeadersOf(c, Keep, kept)
    BY <1>6 DEF Pruned
  <2> HIDE DEF c
  <2>2. /\ kept \subseteq DOMAIN c /\ kept # DOMAIN c /\ Cardinality(kept) = Keep
        /\ Tracked(r) /\ KeptFloor(r) \in Nat /\ KeptFloor(c) <= KeptFloor(r)
        /\ \A k \in DOMAIN c \ kept : c[k] <= KeptFloor(r)
    BY <1>2, <1>6, <2>1, FloorGrowsByPruning
  <2>3. p.prunes = past.prunes + 1 /\ p.prunes \in Nat
    BY <1>1, <1>4, <2>2
  <2>4. DOMAIN r = kept /\ \A k \in kept : r[k] = c[k]
    BY DEF Restrict
  <2> HIDE DEF r, p, u
  <2>5. KeptFloor(c) \in Nat
    BY <1>2, FloorWitness
  <2>6. /\ past.prunes * KeptFloor(c) <= past.prunes * KeptFloor(r)
        /\ past.prunes * KeptFloor(c) \in Nat /\ past.prunes * KeptFloor(r) \in Nat
        /\ (past.prunes + 1) * KeptFloor(r) = past.prunes * KeptFloor(r) + KeptFloor(r)
    BY <1>1, <2>2, <2>5, SlackGrows
  <2>7. ASSUME NEW k \in Keys
        PROVE  /\ CountOf(r, k) <= p.observed[k]
               /\ p.observed[k] <= CountOf(r, k) + Slack(r, p)
    <3>1. Slack(r, p) = past.prunes * KeptFloor(r) + KeptFloor(r)
      BY <2>3, <2>6 DEF Slack
    <3>2. /\ CountOf(c, k) \in Nat /\ p.observed[k] \in Nat
          /\ CountOf(c, k) <= p.observed[k]
          /\ p.observed[k] <= CountOf(c, k) + past.prunes * KeptFloor(c)
      BY <1>5
    <3>3. CASE k \in kept
      <4>1. CountOf(r, k) = CountOf(c, k)
        BY <2>2, <2>4, <3>3 DEF CountOf
      <4> QED
        BY <2>2, <2>5, <2>6, <3>1, <3>2, <4>1
    <3>4. CASE k \notin kept
      <4>1. CountOf(r, k) = 0 /\ CountOf(c, k) <= KeptFloor(r)
        BY <2>2, <2>4, <3>4 DEF CountOf
      <4> QED
        BY <2>2, <2>5, <2>6, <3>1, <3>2, <4>1
    <3> QED
      BY <3>3, <3>4
  <2>8. Under(r, p)
    BY <2>7 DEF Under
  <2>9. Cardinality(DOMAIN r) >= Keep
    BY <2>2, <2>4, SizesOfThePrune
  <2>10. DOMAIN r \subseteq Keys /\ DOMAIN r \subseteq DOMAIN p.since
    BY <1>1, <1>2, <1>4, <2>2, <2>4
  <2> QED
    BY <1>1, <1>3, <1>4, <1>5, <2>2, <2>3, <2>8, <2>9, <2>10 DEF CollectorOK
<1>7. CASE ~ (Cardinality(DOMAIN c) > PruneAbove)
  <2>1. kept = DOMAIN c
    BY <1>7 DEF Pruned
  <2>2. r = c
    <3> HIDE DEF c
    <3> QED
      BY <1>2, <2>1 DEF Restrict, Tracked
  <2>3. p.prunes = past.prunes
    BY <1>1, <1>4, <2>1
  <2> HIDE DEF c, r, p, u
  <2>4. Under(r, p)
    BY <1>5, <2>2, <2>3 DEF Under, Slack
  <2>5. p.prunes # 0 => Cardinality(DOMAIN r) >= Keep
    <3> SUFFICES ASSUME p.prunes # 0 PROVE Cardinality(DOMAIN r) >= Keep
      OBVIOUS
    <3>1. Cardinality(DOMAIN t.entries) >= Keep
      BY <1>1, <2>3
    <3>2. /\ Cardinality(DOMAIN t.entries) <= Cardinality(DOMAIN c)
          /\ Cardinality(DOMAIN t.entries) \in Nat /\ Cardinality(DOMAIN c) \in Nat
      BY <1>1, <1>2, FS_Subset, FS_CardinalityType DEF Tracked
    <3> QED
      BY <2>2, <3>1, <3>2, SizesOfThePrune
  <2>6. DOMAIN r \subseteq Keys /\ DOMAIN r \subseteq DOMAIN p.since
    BY <1>1, <1>2, <1>4, <2>2
  <2> QED
    BY <1>1, <1>2, <1>3, <1>4, <1>5, <2>2, <2>3, <2>4, <2>5, <2>6 DEF CollectorOK
<1> QED
  BY <1>6, <1>7

------------------------------------------------------------------------------
(* The sampler: the first examples of the windows before the current one    *)
(* are paid for by the time before it, whatever readings arrive.            *)

SamplerOK(s, total, n) ==
  /\ s = [windowStart |-> s.windowStart, seen |-> s.seen]
  /\ s.windowStart \in Nat /\ s.windowStart <= n
  /\ IsFiniteSet(s.seen) /\ Cardinality(s.seen) <= firstLimit
  /\ total \in Nat
  /\ total <= firstLimit * (s.windowStart \div Window) + Cardinality(s.seen)

LEMMA SamplerWindowKeeps ==
  ASSUME now \in Nat, NEW t \in Nat, t <= now, SamplerOK(sampler, examples, now)
  PROVE  SamplerOK(SamplerWindow(t), examples, now)
<1> DEFINE p == sampler.windowStart \div Window
           q == t \div Window
<1>1. /\ Window \in Nat \ {0} /\ firstLimit \in Nat
      /\ sampler.windowStart \in Nat /\ IsFiniteSet(sampler.seen)
      /\ Cardinality(sampler.seen) <= firstLimit /\ Cardinality(sampler.seen) \in Nat
      /\ examples \in Nat /\ examples <= firstLimit * p + Cardinality(sampler.seen)
  BY WindowAssumption, FS_CardinalityType DEF SamplerOK
<1>2. CASE Expired(sampler.windowStart, t)
  <2>1. SamplerWindow(t) = [windowStart |-> t, seen |-> {}]
    BY <1>2 DEF SamplerWindow
  <2>2. t >= sampler.windowStart + Window
    BY <1>1, <1>2 DEF Expired
  <2>3. p \in Nat /\ q \in Nat /\ p + 1 <= q
    BY <1>1, <2>2, DivBounds, DivAdvances
  <2> HIDE DEF p, q
  <2>4. /\ firstLimit * (p + 1) <= firstLimit * q /\ firstLimit * p \in Nat
        /\ firstLimit * q \in Nat /\ firstLimit * (p + 1) = firstLimit * p + firstLimit
    <3>1. p + 1 \in Nat /\ p <= p + 1
      BY <2>3
    <3>2. firstLimit * (p + 1) <= firstLimit * q /\ firstLimit * (p + 1) \in Nat
      BY <1>1, <2>3, <3>1, BudgetGrows
    <3>3. firstLimit * p \in Nat /\ firstLimit * (p + 1) = firstLimit * p + firstLimit
      BY <1>1, <2>3, <3>1, BudgetGrows
    <3>4. firstLimit * q \in Nat
      BY <1>1, <2>3, BudgetGrows
    <3> QED
      BY <3>2, <3>3, <3>4
  <2>5. examples <= firstLimit * q
    BY <1>1, <2>4
  <2>6. IsFiniteSet({}) /\ Cardinality({}) = 0
    BY FS_EmptySet
  <2> QED
    BY <1>1, <2>1, <2>4, <2>5, <2>6 DEF SamplerOK, q
<1>3. CASE ~ Expired(sampler.windowStart, t)
  BY <1>3 DEF SamplerWindow
<1> QED
  BY <1>2, <1>3

LEMMA FirstExampleKeeps ==
  ASSUME NEW s, NEW total, NEW n \in Nat, SamplerOK(s, total, n), NEW k,
         k \notin s.seen, Cardinality(s.seen) < firstLimit
  PROVE  SamplerOK([s EXCEPT !.seen = @ \cup {k}], total + 1, n)
<1> DEFINE u == [s EXCEPT !.seen = @ \cup {k}]
           m == firstLimit * (s.windowStart \div Window)
<1>1. /\ s = [windowStart |-> s.windowStart, seen |-> s.seen] /\ s.windowStart \in Nat
      /\ s.windowStart <= n /\ IsFiniteSet(s.seen) /\ total \in Nat
      /\ total <= m + Cardinality(s.seen) /\ Cardinality(s.seen) \in Nat
  BY FS_CardinalityType DEF SamplerOK
<1>2. m \in Nat
  <2>1. s.windowStart \div Window \in Nat
    BY <1>1, WindowAssumption, DivBounds
  <2> QED
    BY <2>1, WindowAssumption, BudgetGrows
<1>3. u = [windowStart |-> s.windowStart, seen |-> s.seen \cup {k}]
  BY <1>1
<1>4. IsFiniteSet(s.seen \cup {k}) /\ Cardinality(s.seen \cup {k}) = Cardinality(s.seen) + 1
  BY <1>1, FS_AddElement
<1>5. u.seen = s.seen \cup {k} /\ u.windowStart = s.windowStart
      /\ u = [windowStart |-> u.windowStart, seen |-> u.seen]
  BY <1>3
<1> HIDE DEF u
<1>6. total + 1 <= m + Cardinality(u.seen) /\ Cardinality(u.seen) <= firstLimit
  <2> HIDE DEF m
  <2> QED
    BY <1>1, <1>2, <1>4, <1>5, WindowAssumption
<1> QED
  BY <1>1, <1>4, <1>5, <1>6 DEF SamplerOK, u

------------------------------------------------------------------------------
(* The specification.                                                       *)

Working ==
  {Idle} \cup [pc : {"observe", "clock"}, key : Keys] \cup [pc : {"log"}, key : Keys, clock : Nat]

WorkersOK ==
  /\ worker \in [Workers -> Working]
  /\ \A w \in Workers : worker[w].pc = "log" => worker[w].clock <= now

Inv ==
  /\ now \in Nat
  /\ WorkersOK
  /\ CollectorOK(top, tally, now)
  /\ SamplerOK(sampler, examples, now)

LEMMA InvInit == Init => Inv
<1> SUFFICES ASSUME Init PROVE Inv
  OBVIOUS
<1>1. CollectorOK(top, tally, now)
  BY EmptyCollector DEF Init
<1>2. SamplerOK(sampler, examples, now)
  <2>1. IsFiniteSet({}) /\ Cardinality({}) = 0
    BY FS_EmptySet
  <2>2. 0 \div Window \in Nat
    BY WindowAssumption, DivBounds
  <2>3. firstLimit * (0 \div Window) \in Nat
    BY <2>2, WindowAssumption, BudgetGrows
  <2> QED
    BY <2>1, <2>3, WindowAssumption DEF Init, SamplerOK
<1>3. WorkersOK
  BY DEF Init, WorkersOK, Working, Idle
<1> QED
  BY <1>1, <1>2, <1>3 DEF Init, Inv

\* A worker that goes on leaves the others where they are.
LEMMA WorkerGoesOn ==
  ASSUME WorkersOK, now \in Nat, now' = now, NEW w \in Workers, NEW r \in Working,
         r.pc = "log" => r.clock <= now, worker' = [worker EXCEPT ![w] = r]
  PROVE  WorkersOK'
BY DEF WorkersOK

LEMMA BusyWorker ==
  ASSUME WorkersOK, NEW w \in Workers, worker[w].pc \in {"observe", "clock", "log"}
  PROVE  /\ worker[w].key \in Keys
         /\ worker[w].pc \in {"observe", "clock"} => worker[w] = [pc |-> worker[w].pc, key |-> worker[w].key]
         /\ worker[w].pc = "log" => worker[w].clock \in Nat /\ worker[w].clock <= now
BY DEF WorkersOK, Working, Idle

LEMMA InvNext == Inv /\ [Next]_vars => Inv'
<1> SUFFICES ASSUME Inv, [Next]_vars PROVE Inv'
  OBVIOUS
<1>0. /\ now \in Nat /\ WorkersOK /\ CollectorOK(top, tally, now)
      /\ SamplerOK(sampler, examples, now)
  BY DEF Inv
<1>1. ASSUME NEW w \in Workers, NEW k \in Keys, Report(w, k) PROVE Inv'
  <2>1. WorkersOK'
    <3>1. [pc |-> "observe", key |-> k] \in Working
      BY DEF Working
    <3> QED
      BY <1>0, <1>1, <3>1, WorkerGoesOn DEF Report
  <2> QED
    BY <1>0, <1>1, <2>1 DEF Report, Inv
<1>2. ASSUME NEW w \in Workers, NEW kept \in SUBSET Keys, Observe(w, kept) PROVE Inv'
  <2> DEFINE key == worker[w].key
             t == resetExpired(now)
             past == TallyAt(now)
             c == Counted(t.entries, key)
  <2>1. key \in Keys /\ worker[w] = [pc |-> "observe", key |-> key]
    BY <1>0, <1>2, BusyWorker DEF Observe
  <2>2. WorkersOK'
    <3>1. worker' = [worker EXCEPT ![w] = [pc |-> "clock", key |-> key]]
      <4>1. worker' = [worker EXCEPT ![w] = [worker[w] EXCEPT !.pc = "clock"]]
        BY <1>2 DEF Observe
      <4> HIDE DEF key
      <4>2. [worker[w] EXCEPT !.pc = "clock"] = [pc |-> "clock", key |-> key]
        BY <2>1
      <4> QED
        BY <4>1, <4>2
    <3>2. [pc |-> "clock", key |-> key] \in Working
      BY <2>1 DEF Working
    <3> QED
      BY <1>0, <1>2, <3>1, <3>2, WorkerGoesOn DEF Observe
  <2>3. /\ Pruned(c, kept)
        /\ top' = [t EXCEPT !.entries = Restrict(c, kept)]
        /\ tally' = ObservedTally(past, key, now, kept # DOMAIN c)
    BY <1>2 DEF Observe, ObservedTally
  <2>4. CollectorOK(t, past, now)
    BY <1>0, WindowRenewed
  <2> HIDE DEF key, t, past
  <2>5. CollectorOK(top', tally', now)
    BY <1>0, <2>1, <2>3, <2>4, ObserveKeeps
  <2> QED
    BY <1>0, <1>2, <2>2, <2>5 DEF Observe, Inv
<1>3. ASSUME NEW w \in Workers, ReadClock(w) PROVE Inv'
  <2>1. worker[w].key \in Keys
    BY <1>0, <1>3, BusyWorker DEF ReadClock
  <2>2. [pc |-> "log", key |-> worker[w].key, clock |-> now] \in Working
    BY <1>0, <2>1 DEF Working
  <2> DEFINE r == [pc |-> "log", key |-> worker[w].key, clock |-> now]
  <2>3. WorkersOK'
    <3>1. r.clock <= now /\ now' = now /\ worker' = [worker EXCEPT ![w] = r]
      BY <1>0, <1>3 DEF ReadClock
    <3>2. r \in Working
      BY <2>2
    <3> HIDE DEF r
    <3> QED
      BY <1>0, <3>1, <3>2, WorkerGoesOn
  <2> QED
    BY <1>0, <1>3, <2>3 DEF ReadClock, Inv
<1>4. ASSUME NEW w \in Workers, ShouldLog(w) PROVE Inv'
  <2> DEFINE s == SamplerWindow(worker[w].clock)
             key == worker[w].key
  <2>1. worker[w].clock \in Nat /\ worker[w].clock <= now
    BY <1>0, <1>4, BusyWorker DEF ShouldLog
  <2>2. SamplerOK(s, examples, now)
    BY <1>0, <2>1, SamplerWindowKeeps
  <2>3. WorkersOK'
    <3>1. Idle \in Working /\ Idle.pc # "log"
      BY DEF Working, Idle
    <3> QED
      BY <1>0, <1>4, <3>1, WorkerGoesOn DEF ShouldLog
  <2>4. SamplerOK(sampler', examples', now)
    <3>1. CASE key \notin s.seen /\ Cardinality(s.seen) < firstLimit
      <4>1. sampler' = [s EXCEPT !.seen = @ \cup {key}] /\ examples' = examples + 1
        BY <1>4, <3>1 DEF ShouldLog
      <4> HIDE DEF s, key
      <4> QED
        BY <1>0, <2>2, <3>1, <4>1, FirstExampleKeeps
    <3>2. CASE ~ (key \notin s.seen /\ Cardinality(s.seen) < firstLimit)
      <4>1. sampler' = s /\ examples' = examples
        BY <1>4, <3>2 DEF ShouldLog
      <4> QED
        BY <2>2, <4>1
    <3> QED
      BY <3>1, <3>2
  <2> QED
    BY <1>0, <1>4, <2>3, <2>4 DEF ShouldLog, Inv
<1>5. ASSUME NEW shown \in SUBSET Keys, Collect(shown) PROVE Inv'
  <2>1. CollectorOK(top', tally', now)
    BY <1>0, <1>5, WindowRenewed DEF Collect
  <2> QED
    BY <1>0, <1>5, <2>1 DEF Collect, Inv, WorkersOK
<1>6. ASSUME Tick PROVE Inv'
  <2>1. now' = now + 1 /\ now' \in Nat
    BY <1>0, <1>6 DEF Tick
  <2>2. WorkersOK'
    <3>1. ASSUME NEW w \in Workers, worker[w].pc = "log" PROVE worker[w].clock <= now'
      <4>1. worker[w].clock \in Nat /\ worker[w].clock <= now
        BY <1>0, <3>1, BusyWorker
      <4> QED
        BY <1>0, <2>1, <4>1
    <3> QED
      BY <1>0, <1>6, <3>1 DEF Tick, WorkersOK
  <2>3. CollectorOK(top, tally, now')
    BY <1>0, <2>1 DEF CollectorOK
  <2>4. SamplerOK(sampler, examples, now')
    BY <1>0, <2>1 DEF SamplerOK
  <2> QED
    BY <1>6, <2>1, <2>2, <2>3, <2>4 DEF Tick, Inv
<1>7. CASE UNCHANGED vars
  BY <1>0, <1>7 DEF vars, Inv, WorkersOK
<1> QED
  BY <1>1, <1>2, <1>3, <1>4, <1>5, <1>6, <1>7 DEF Next

------------------------------------------------------------------------------
(* The sizes.  A count is bounded by the findings begun because each finding *)
(* is begun once, observed once and logged at most once: what is still to be *)
(* done is held against what was begun.                                     *)

Waiting == {w \in Workers : worker[w].pc = "observe"}
Busy == {w \in Workers : worker[w].pc # "idle"}

Sized(t, past, n) ==
  /\ \A k \in DOMAIN t.entries : t.entries[k] >= 1
  /\ Cardinality(DOMAIN t.entries) <= PruneAbove
  /\ DOMAIN past.since \subseteq Keys
  /\ \A k \in DOMAIN past.since : past.since[k] <= n

Accounted(past, waiting, begun) ==
  /\ \A k \in Keys : past.observed[k] + Cardinality(waiting) <= begun
  /\ past.prunes + Cardinality(waiting) <= begun

ScrapeOK ==
  /\ scrape.at \in 0..now /\ Reports(scrape.report)
  /\ Cardinality(DOMAIN scrape.report) <= maxSeries

SizesInv ==
  /\ now <= MaxTime /\ reported \in 0..MaxFindings
  /\ Sized(top, tally, now)
  /\ sampler.seen \subseteq Keys
  /\ ScrapeOK
  /\ IsFiniteSet(Busy)
  /\ Accounted(tally, Waiting, reported)
  /\ examples + Cardinality(Busy) <= reported

LEMMA SizedEmpty ==
  ASSUME NEW n
  PROVE  Sized([windowStart |-> n, entries |-> Empty], NoTally, n)
<1>1. DOMAIN Empty = {} /\ Cardinality({}) = 0 /\ DOMAIN NoTally.since = {}
  BY FS_EmptySet DEF Empty, NoTally
<1> QED
  BY <1>1, SizesOfThePrune DEF Sized

LEMMA SizedRenewed ==
  ASSUME Sized(top, tally, now)
  PROVE  Sized(resetExpired(now), TallyAt(now), now)
BY SizedEmpty DEF resetExpired, TallyAt

LEMMA AccountedRenewed ==
  ASSUME NEW W, IsFiniteSet(W), NEW begun, tally.prunes \in Nat, begun \in Nat,
         Accounted(tally, W, begun)
  PROVE  Accounted(TallyAt(now), W, begun)
<1>1. Cardinality(W) \in Nat
  BY FS_CardinalityType
<1>2. NoTally.prunes = 0 /\ \A k \in Keys : NoTally.observed[k] = 0
  BY DEF NoTally
<1>3. Cardinality(W) <= begun
  BY <1>1 DEF Accounted
<1>4. Accounted(NoTally, W, begun)
  BY <1>1, <1>2, <1>3 DEF Accounted
<1> QED
  BY <1>4 DEF TallyAt

\* The map never outgrows the size at which it is pruned.
LEMMA ObserveKeepsSizes ==
  ASSUME NEW t, NEW past, NEW n \in Nat, CollectorOK(t, past, n), Sized(t, past, n),
         NEW key \in Keys, NEW kept, Pruned(Counted(t.entries, key), kept)
  PROVE  Sized([t EXCEPT !.entries = Restrict(Counted(t.entries, key), kept)],
               ObservedTally(past, key, n, kept # DOMAIN Counted(t.entries, key)), n)
<1> DEFINE c == Counted(t.entries, key)
           r == Restrict(c, kept)
           p == ObservedTally(past, key, n, kept # DOMAIN c)
           u == [t EXCEPT !.entries = r]
<1>1. /\ t = [windowStart |-> t.windowStart, entries |-> t.entries] /\ Tracked(t.entries)
      /\ \A k \in DOMAIN t.entries : t.entries[k] >= 1
      /\ DOMAIN past.since \subseteq Keys /\ \A k \in DOMAIN past.since : past.since[k] <= n
  BY DEF CollectorOK, Sized
<1>2. Tracked(c) /\ DOMAIN c = DOMAIN t.entries \cup {key}
  BY <1>1, FloorGrowsByCounting
<1>3. \A k \in DOMAIN c : c[k] >= 1
  <2>1. \A k \in DOMAIN t.entries : t.entries[k] \in Nat
    BY <1>1 DEF Tracked
  <2> QED
    BY <1>1, <2>1 DEF Counted
<1>4. u.entries = r
  <2> HIDE DEF r
  <2> QED
    BY <1>1
<1>5. DOMAIN p.since \subseteq Keys /\ \A k \in DOMAIN p.since : p.since[k] <= n
  BY <1>1 DEF ObservedTally
<1> SUFFICES Sized(u, p, n)
  OBVIOUS
<1> HIDE DEF u, p
<1>6. /\ kept \subseteq DOMAIN c
      /\ Cardinality(kept) <= PruneAbove
  <2>1. CASE Cardinality(DOMAIN c) > PruneAbove
    <3>1. LeadersOf(c, Keep, kept)
      BY <2>1 DEF Pruned
    <3> HIDE DEF c
    <3>2. kept \subseteq DOMAIN c /\ Cardinality(kept) = Keep
      BY <1>2, <2>1, <3>1, FloorGrowsByPruning
    <3> QED
      BY <3>2, SizesOfThePrune
  <2>2. CASE ~ (Cardinality(DOMAIN c) > PruneAbove)
    <3>1. kept = DOMAIN c
      BY <2>2 DEF Pruned
    <3> HIDE DEF c
    <3>2. Cardinality(DOMAIN c) \in Nat
      BY <1>2, FS_CardinalityType DEF Tracked
    <3> QED
      BY <2>2, <3>1, <3>2, SizesOfThePrune
  <2> QED
    BY <2>1, <2>2
<1> HIDE DEF c
<1>7. DOMAIN r = kept /\ \A k \in kept : r[k] = c[k]
  BY <1>6 DEF Restrict
<1> HIDE DEF r
<1> QED
  BY <1>3, <1>4, <1>5, <1>6, <1>7 DEF Sized

\* A finding observed is one fewer to observe.
LEMMA ObserveAccounts ==
  ASSUME NEW past, past.observed \in [Keys -> Nat], past.prunes \in Nat,
         NEW W, IsFiniteSet(W), NEW w \in W, NEW begun \in Nat, Accounted(past, W, begun),
         NEW key \in Keys, NEW n, NEW pruned
  PROVE  Accounted(ObservedTally(past, key, n, pruned), W \ {w}, begun)
<1> DEFINE p == ObservedTally(past, key, n, pruned)
           V == W \ {w}
<1>1. Cardinality(V) = Cardinality(W) - 1 /\ Cardinality(W) \in Nat
  BY FS_RemoveElement, FS_CardinalityType
<1>2. /\ \A k \in Keys : p.observed[k] = past.observed[k] + (IF k = key THEN 1 ELSE 0)
      /\ p.prunes = past.prunes + (IF pruned THEN 1 ELSE 0)
  BY DEF ObservedTally
<1>3. \A k \in Keys : past.observed[k] + Cardinality(W) <= begun /\ past.observed[k] \in Nat
  BY DEF Accounted
<1>4. past.prunes + Cardinality(W) <= begun
  BY DEF Accounted
<1> HIDE DEF p, V
<1>5. \A k \in Keys : p.observed[k] + Cardinality(V) <= begun
  BY <1>1, <1>2, <1>3
<1>6. p.prunes + Cardinality(V) <= begun
  <2>1. CASE pruned
    BY <1>1, <1>2, <1>4, <2>1
  <2>2. CASE ~ pruned
    BY <1>1, <1>2, <1>4, <2>2
  <2> QED
    BY <2>1, <2>2
<1> QED
  BY <1>5, <1>6 DEF Accounted, p, V

\* What the collector tracks fits the type: a count is at least one, and is bounded by what
\* was observed, which is bounded by what was begun.
LEMMA ReportsBounded ==
  ASSUME NEW t, NEW past, NEW n, CollectorOK(t, past, n), Sized(t, past, n),
         NEW W, IsFiniteSet(W), NEW begun \in 0..MaxFindings, Accounted(past, W, begun)
  PROVE  /\ Reports(t.entries)
         /\ past.observed \in [Keys -> 0..MaxFindings] /\ past.prunes \in 0..MaxFindings
<1>1. Cardinality(W) \in Nat
  BY FS_CardinalityType
<1>2. /\ past.observed \in [Keys -> Nat] /\ past.prunes \in Nat
      /\ Tracked(t.entries) /\ DOMAIN t.entries \subseteq Keys
      /\ \A k \in Keys : CountOf(t.entries, k) <= past.observed[k]
  BY DEF CollectorOK, Under
<1>3. /\ \A k \in Keys : past.observed[k] \in Nat /\ past.observed[k] + Cardinality(W) <= begun
      /\ past.prunes + Cardinality(W) <= begun
  BY <1>2 DEF Accounted
<1>4. \A k \in Keys : past.observed[k] \in 0..MaxFindings
  BY <1>1, <1>3, BoundsAssumption
<1>5. past.prunes \in 0..MaxFindings
  BY <1>1, <1>2, <1>3, BoundsAssumption
<1>6. ASSUME NEW k \in DOMAIN t.entries PROVE t.entries[k] \in 1..MaxFindings
  <2>1. t.entries[k] \in Nat /\ t.entries[k] >= 1
    BY <1>2 DEF Tracked, Sized
  <2>2. t.entries[k] <= past.observed[k] /\ past.observed[k] \in 0..MaxFindings
    BY <1>2, <1>4 DEF CountOf
  <2> QED
    BY <2>1, <2>2, BoundsAssumption
<1> QED
  BY <1>2, <1>4, <1>5, <1>6 DEF Reports

LEMMA SizesInit == Init => SizesInv
<1> SUFFICES ASSUME Init PROVE SizesInv
  OBVIOUS
<1>1. Waiting = {} /\ Busy = {} /\ IsFiniteSet({}) /\ Cardinality({}) = 0
  BY FS_EmptySet DEF Init, Waiting, Busy, Idle
<1>2. DOMAIN Empty = {}
  BY DEF Empty
<1>3. NoTally.prunes = 0 /\ \A k \in Keys : NoTally.observed[k] = 0
  BY DEF NoTally
<1>4. Accounted(tally, Waiting, reported)
  BY <1>1, <1>3 DEF Init, Accounted
<1>5. ScrapeOK
  BY <1>1, <1>2, SizesAssumption DEF Init, ScrapeOK, Reports
<1>6. Sized(top, tally, now)
  BY SizedEmpty DEF Init
<1> QED
  BY <1>1, <1>4, <1>5, <1>6, BoundsAssumption DEF Init, SizesInv

\* Where a worker goes decides whether it is still to observe, and whether it is busy.
LEMMA WorkerCounted ==
  ASSUME WorkersOK, NEW w \in Workers, NEW r, worker' = [worker EXCEPT ![w] = r]
  PROVE  /\ Waiting' = IF r.pc = "observe" THEN Waiting \cup {w} ELSE Waiting \ {w}
         /\ Busy' = IF r.pc # "idle" THEN Busy \cup {w} ELSE Busy \ {w}
<1>1. \A v \in Workers : worker'[v] = IF v = w THEN r ELSE worker[v]
  BY DEF WorkersOK
<1> QED
  BY <1>1 DEF Waiting, Busy

\* Those to observe are busy.
LEMMA WaitingAreBusy ==
  ASSUME IsFiniteSet(Busy)
  PROVE  Waiting \subseteq Busy /\ IsFiniteSet(Waiting)
<1>1. Waiting \subseteq Busy
  BY DEF Waiting, Busy
<1> QED
  BY <1>1, FS_Subset

LEMMA SizesNext == Inv /\ Inv' /\ SizesInv /\ [Next]_vars => SizesInv'
<1> SUFFICES ASSUME Inv, Inv', SizesInv, [Next]_vars PROVE SizesInv'
  OBVIOUS
<1>0. /\ now \in Nat /\ WorkersOK /\ CollectorOK(top, tally, now)
      /\ SamplerOK(sampler, examples, now)
      /\ IsFiniteSet(Waiting) /\ Waiting \subseteq Busy
      /\ tally.observed \in [Keys -> Nat] /\ tally.prunes \in Nat
      /\ examples \in Nat
  BY WaitingAreBusy DEF Inv, SizesInv, CollectorOK, SamplerOK
<1>a. /\ now <= MaxTime /\ reported \in 0..MaxFindings
      /\ Sized(top, tally, now)
      /\ sampler.seen \subseteq Keys
      /\ ScrapeOK
      /\ IsFiniteSet(Busy)
      /\ Accounted(tally, Waiting, reported)
      /\ examples + Cardinality(Busy) <= reported
  BY DEF SizesInv
<1>b. Cardinality(Busy) \in Nat /\ Cardinality(Waiting) \in Nat /\ reported \in Nat
  BY <1>0, <1>a, FS_CardinalityType
<1>1. ASSUME NEW w \in Workers, NEW k \in Keys, Report(w, k) PROVE SizesInv'
  <2>1. worker' = [worker EXCEPT ![w] = [pc |-> "observe", key |-> k]]
    BY <1>1 DEF Report
  <2>2. Waiting' = Waiting \cup {w} /\ Busy' = Busy \cup {w}
    <3> DEFINE r == [pc |-> "observe", key |-> k]
    <3>1. r.pc = "observe" /\ worker' = [worker EXCEPT ![w] = r]
      BY <2>1
    <3> HIDE DEF r
    <3> QED
      BY <1>0, <3>1, WorkerCounted
  <2>3. w \notin Waiting /\ w \notin Busy
    BY <1>1 DEF Report, Waiting, Busy, Idle
  <2>4. /\ IsFiniteSet(Busy') /\ Cardinality(Busy') = Cardinality(Busy) + 1
        /\ Cardinality(Waiting') = Cardinality(Waiting) + 1
    BY <1>0, <1>a, <2>2, <2>3, FS_AddElement
  <2>5. reported' = reported + 1 /\ reported' \in 0..MaxFindings
    BY <1>1, <1>a, BoundsAssumption DEF Report
  <2>6. UNCHANGED << now, top, sampler, scrape, tally, examples >>
    BY <1>1 DEF Report
  <2>7. Accounted(tally, Waiting', reported')
    <3>1. \A q \in Keys : tally.observed[q] \in Nat /\ tally.observed[q] + Cardinality(Waiting) <= reported
      BY <1>0, <1>a DEF Accounted
    <3>2. tally.prunes + Cardinality(Waiting) <= reported
      BY <1>a DEF Accounted
    <3> QED
      BY <1>0, <1>b, <2>4, <2>5, <3>1, <3>2 DEF Accounted
  <2>8. examples' + Cardinality(Busy') <= reported'
    BY <1>0, <1>a, <1>b, <2>4, <2>5, <2>6
  <2> QED
    BY <1>a, <2>4, <2>5, <2>6, <2>7, <2>8 DEF SizesInv, ScrapeOK
<1>2. ASSUME NEW w \in Workers, NEW kept \in SUBSET Keys, Observe(w, kept) PROVE SizesInv'
  <2> DEFINE key == worker[w].key
             t == resetExpired(now)
             past == TallyAt(now)
             c == Counted(t.entries, key)
  <2>1. worker[w].pc = "observe" /\ key \in Keys
    BY <1>0, <1>2, BusyWorker DEF Observe
  <2>2. /\ worker' = [worker EXCEPT ![w] = [worker[w] EXCEPT !.pc = "clock"]]
        /\ [worker[w] EXCEPT !.pc = "clock"].pc = "clock"
    <3>1. worker[w] = [pc |-> worker[w].pc, key |-> worker[w].key]
      BY <1>0, <2>1, BusyWorker
    <3>2. [worker[w] EXCEPT !.pc = "clock"].pc = "clock"
      BY <3>1
    <3> QED
      BY <1>2, <3>2 DEF Observe
  <2>3. Waiting' = Waiting \ {w} /\ Busy' = Busy /\ w \in Waiting
    <3>1. Waiting' = Waiting \ {w} /\ Busy' = Busy \cup {w}
      BY <1>0, <2>2, WorkerCounted
    <3>2. w \in Waiting
      BY <2>1 DEF Waiting
    <3> QED
      BY <1>0, <3>1, <3>2
  <2>4. /\ Pruned(c, kept)
        /\ top' = [t EXCEPT !.entries = Restrict(c, kept)]
        /\ tally' = ObservedTally(past, key, now, kept # DOMAIN c)
        /\ UNCHANGED << now, sampler, scrape, reported, examples >>
    BY <1>2 DEF Observe, ObservedTally
  <2>5. CollectorOK(t, past, now) /\ Sized(t, past, now) /\ Accounted(past, Waiting, reported)
    BY <1>0, <1>a, <1>b, WindowRenewed, SizedRenewed, AccountedRenewed
  <2>6. past.observed \in [Keys -> Nat] /\ past.prunes \in Nat
    BY <2>5 DEF CollectorOK
  <2> HIDE DEF key, t, past
  <2>7. Sized(top', tally', now)
    BY <1>0, <2>1, <2>4, <2>5, ObserveKeepsSizes
  <2> HIDE DEF c
  <2>8. Accounted(tally', Waiting', reported)
    BY <1>0, <1>b, <2>1, <2>3, <2>4, <2>5, <2>6, ObserveAccounts
  <2> QED
    BY <1>a, <2>3, <2>4, <2>7, <2>8 DEF SizesInv, ScrapeOK
<1>3. ASSUME NEW w \in Workers, ReadClock(w) PROVE SizesInv'
  <2>1. /\ worker' = [worker EXCEPT ![w] = [pc |-> "log", key |-> worker[w].key, clock |-> now]]
        /\ worker[w].pc = "clock"
        /\ UNCHANGED << now, top, sampler, scrape, reported, tally, examples >>
    BY <1>3 DEF ReadClock
  <2>2. Waiting' = Waiting \ {w} /\ Busy' = Busy \cup {w}
    <3> DEFINE r == [pc |-> "log", key |-> worker[w].key, clock |-> now]
    <3>1. r.pc = "log" /\ worker' = [worker EXCEPT ![w] = r]
      BY <2>1
    <3> HIDE DEF r
    <3> QED
      BY <1>0, <3>1, WorkerCounted
  <2>3. w \notin Waiting /\ w \in Busy
    BY <2>1 DEF Waiting, Busy
  <2>4. Waiting' = Waiting /\ Busy' = Busy
    BY <2>2, <2>3
  <2> QED
    BY <1>a, <2>1, <2>4 DEF SizesInv, ScrapeOK
<1>4. ASSUME NEW w \in Workers, ShouldLog(w) PROVE SizesInv'
  <2> DEFINE s == SamplerWindow(worker[w].clock)
             key == worker[w].key
  <2>1. /\ worker' = [worker EXCEPT ![w] = Idle] /\ worker[w].pc = "log" /\ Idle.pc = "idle"
        /\ UNCHANGED << now, top, scrape, reported, tally >>
        /\ examples' \in {examples, examples + 1}
    BY <1>4 DEF ShouldLog, Idle
  <2>2. key \in Keys
    BY <1>0, <2>1, BusyWorker
  <2>3. Waiting' = Waiting /\ Busy' = Busy \ {w} /\ w \in Busy
    <3>1. Waiting' = Waiting \ {w} /\ Busy' = Busy \ {w}
      BY <1>0, <2>1, WorkerCounted
    <3>2. w \notin Waiting /\ w \in Busy
      BY <2>1 DEF Waiting, Busy
    <3> QED
      BY <3>1, <3>2
  <2>4. IsFiniteSet(Busy') /\ Cardinality(Busy') = Cardinality(Busy) - 1
    BY <1>a, <2>3, FS_RemoveElement
  <2>5. examples' + Cardinality(Busy') <= reported'
    BY <1>0, <1>a, <1>b, <2>1, <2>4
  <2>6. sampler'.seen \subseteq Keys
    <3>1. s.seen \subseteq Keys /\ s = [windowStart |-> s.windowStart, seen |-> s.seen]
      BY <1>0, <1>a DEF SamplerWindow, SamplerOK
    <3>2. sampler' = s \/ sampler' = [s EXCEPT !.seen = @ \cup {key}]
      BY <1>4 DEF ShouldLog
    <3> HIDE DEF s, key
    <3>3. [s EXCEPT !.seen = @ \cup {key}].seen = s.seen \cup {key}
      BY <3>1
    <3> QED
      BY <2>2, <3>1, <3>2, <3>3
  <2> QED
    BY <1>a, <2>1, <2>3, <2>4, <2>5, <2>6 DEF SizesInv, ScrapeOK
<1>5. ASSUME NEW shown \in SUBSET Keys, Collect(shown) PROVE SizesInv'
  <2> DEFINE t == resetExpired(now)
             past == TallyAt(now)
             e == t.entries
  <2>1. /\ LeadersOf(e, maxSeries, shown)
        /\ top' = t /\ tally' = past
        /\ scrape' = [at |-> now, report |-> Restrict(e, shown)]
        /\ UNCHANGED << now, sampler, worker, reported, examples >>
    BY <1>5 DEF Collect
  <2>2. CollectorOK(t, past, now) /\ Sized(t, past, now) /\ Accounted(past, Waiting, reported)
    BY <1>0, <1>a, <1>b, WindowRenewed, SizedRenewed, AccountedRenewed
  <2>3. Reports(e) /\ Tracked(e)
    <3> HIDE DEF t, past
    <3> QED
      BY <1>0, <1>a, <2>2, ReportsBounded DEF CollectorOK
  <2>4. /\ shown \subseteq DOMAIN e /\ Cardinality(DOMAIN e) \in Nat
        /\ Cardinality(shown) <= maxSeries
    <3> HIDE DEF t
    <3>1. Cardinality(DOMAIN e) \in Nat
      BY <2>3, FS_CardinalityType DEF Tracked
    <3> QED
      BY <2>1, <3>1, SizesAssumption DEF LeadersOf
  <2> HIDE DEF e, t, past
  <2>5. DOMAIN Restrict(e, shown) = shown /\ \A k \in shown : Restrict(e, shown)[k] = e[k]
    BY DEF Restrict
  <2>6. Reports(Restrict(e, shown))
    BY <2>3, <2>4, <2>5 DEF Reports
  <2>7. ScrapeOK'
    BY <1>0, <2>1, <2>4, <2>5, <2>6 DEF ScrapeOK
  <2>8. Waiting' = Waiting /\ Busy' = Busy
    BY <2>1 DEF Waiting, Busy
  <2> QED
    BY <1>a, <2>1, <2>2, <2>7, <2>8 DEF SizesInv
<1>6. ASSUME Tick PROVE SizesInv'
  <2>1. /\ now' = now + 1 /\ now < MaxTime
        /\ UNCHANGED << top, sampler, worker, scrape, reported, tally, examples >>
    BY <1>6 DEF Tick
  <2>2. Waiting' = Waiting /\ Busy' = Busy
    BY <2>1 DEF Waiting, Busy
  <2>3. Sized(top, tally, now')
    <3>1. \A k \in DOMAIN tally.since : tally.since[k] \in Nat /\ tally.since[k] <= now
      BY <1>0, <1>a DEF CollectorOK, Sized
    <3>2. \A k \in DOMAIN tally.since : tally.since[k] <= now'
      BY <1>0, <2>1, <3>1
    <3> QED
      BY <1>a, <3>2 DEF Sized
  <2>4. ScrapeOK'
    BY <1>0, <1>a, <2>1 DEF ScrapeOK
  <2> QED
    BY <1>0, <1>a, <2>1, <2>2, <2>3, <2>4, BoundsAssumption DEF SizesInv
<1>7. CASE UNCHANGED vars
  BY <1>a, <1>7 DEF vars, SizesInv, ScrapeOK, Waiting, Busy
<1> QED
  BY <1>1, <1>2, <1>3, <1>4, <1>5, <1>6, <1>7 DEF Next

------------------------------------------------------------------------------
(* The theorems.                                                            *)

LEMMA InvAlways == Spec => []Inv
BY InvInit, InvNext, PTL DEF Spec

\* The map of the collector, the set of the sampler and the report of a scrape stay within
\* their sizes however many series there are, no finding is counted or logged twice, and no
\* time recorded lies in the future: the whole of TypeOK, of every state.
THEOREM FindingsTypeOK == Spec => []TypeOK
<1>1. Spec => []SizesInv
  BY InvAlways, SizesInit, SizesNext, PTL DEF Spec
<1>2. ASSUME Inv, SizesInv PROVE TypeOK
  <2>1. /\ now \in Nat /\ WorkersOK /\ CollectorOK(top, tally, now)
        /\ SamplerOK(sampler, examples, now)
    BY <1>2 DEF Inv
  <2>2. /\ now <= MaxTime /\ reported \in 0..MaxFindings
        /\ Sized(top, tally, now) /\ sampler.seen \subseteq Keys /\ ScrapeOK
        /\ IsFiniteSet(Busy) /\ IsFiniteSet(Waiting) /\ Accounted(tally, Waiting, reported)
        /\ examples + Cardinality(Busy) <= reported /\ Cardinality(Busy) \in Nat
    BY <1>2, WaitingAreBusy, FS_CardinalityType DEF SizesInv
  <2>3. /\ Reports(top.entries)
        /\ tally.observed \in [Keys -> 0..MaxFindings] /\ tally.prunes \in 0..MaxFindings
    BY <2>1, <2>2, ReportsBounded
  <2>4. /\ top.windowStart \in 0..now /\ Cardinality(DOMAIN top.entries) <= PruneAbove
        /\ DOMAIN tally.since \subseteq Keys
        /\ \A k \in DOMAIN tally.since : tally.since[k] \in 0..now
    BY <2>1, <2>2 DEF CollectorOK, Sized
  <2>5. /\ sampler.windowStart \in 0..now /\ Cardinality(sampler.seen) <= firstLimit
        /\ examples \in Nat
    BY <2>1 DEF SamplerOK
  <2>6. examples \in 0..MaxFindings
    BY <2>2, <2>5, BoundsAssumption
  <2>7. now \in Times
    BY <2>1, <2>2, BoundsAssumption DEF Times
  <2>8. worker \in [Workers -> Workings]
    <3>1. ASSUME NEW w \in Workers PROVE worker[w] \in Workings
      <4>1. worker[w] \in Working /\ (worker[w].pc = "log" => worker[w].clock <= now)
        BY <2>1 DEF WorkersOK
      <4>2. CASE worker[w] \in [pc : {"log"}, key : Keys, clock : Nat]
        <5>1. worker[w].clock \in Times
          BY <2>1, <2>2, <4>1, <4>2, BoundsAssumption DEF Times
        <5>2. worker[w] = [pc |-> "log", key |-> worker[w].key, clock |-> worker[w].clock]
              /\ worker[w].key \in Keys
          BY <4>2
        <5> QED
          BY <5>1, <5>2 DEF Workings
      <4>3. CASE worker[w] \in {Idle} \cup [pc : {"observe", "clock"}, key : Keys]
        BY <4>3 DEF Workings
      <4> QED
        BY <4>1, <4>2, <4>3 DEF Working
    <3> QED
      BY <2>1, <3>1 DEF WorkersOK
  <2> QED
    BY <2>2, <2>3, <2>4, <2>5, <2>6, <2>7, <2>8 DEF TypeOK, ScrapeOK
<1> QED
  BY <1>1, <1>2, InvAlways, PTL

\* The count of a series is never too high, and too low by no more than the floor for each
\* prune of the window, however often it was dropped and came back: topSeriesCollector of
\* metrics.go, for every number of series, every size and every order of findings.
THEOREM UndercountIsBounded == Spec => []UndercountBounded
<1>1. Inv => UndercountBounded
  BY DEF Inv, CollectorOK, Under, CountOf, UndercountBounded
<1> QED
  BY <1>1, InvAlways, PTL

\* There are at most firstLimit first examples for each Window begun, however late the
\* readings of the clock that handlers take before the mutex of findingLogSampler.
THEOREM FirstExamplesAreBounded == Spec => []FirstExamplesBounded
<1>1. ASSUME Inv PROVE FirstExamplesBounded
  <2> DEFINE p == sampler.windowStart \div Window
             q == now \div Window
  <2>1. /\ now \in Nat /\ sampler.windowStart \in Nat /\ sampler.windowStart <= now
        /\ IsFiniteSet(sampler.seen) /\ Cardinality(sampler.seen) <= firstLimit
        /\ examples \in Nat /\ examples <= firstLimit * p + Cardinality(sampler.seen)
        /\ Window \in Nat \ {0} /\ firstLimit \in Nat
    BY <1>1, WindowAssumption DEF Inv, SamplerOK
  <2>2. Cardinality(sampler.seen) \in Nat
    BY <2>1, FS_CardinalityType
  <2>3. p \in Nat /\ q \in Nat /\ p <= q
    BY <2>1, DivBounds, DivMonotone
  <2> HIDE DEF p, q
  <2>4. /\ firstLimit * p <= firstLimit * q /\ firstLimit * p \in Nat
        /\ firstLimit * (q + 1) = firstLimit * q + firstLimit
    BY <2>1, <2>3, BudgetGrows
  <2>5. firstLimit * q \in Nat
    BY <2>1, <2>3, BudgetGrows
  <2>6. examples <= firstLimit * (q + 1)
    BY <2>1, <2>2, <2>4, <2>5
  <2> QED
    BY <2>6 DEF FirstExamplesBounded, q
<1> QED
  BY <1>1, InvAlways, PTL

\* A scrape reports the series on top of the window but for what pruning lost, leaves
\* none out while there is room, and nothing that was first observed a window ago: Collect of
\* metrics.go with the reset that comes first.
THEOREM ScrapesAreTop == Spec => ScrapeIsTop
<1> DEFINE TopScrape ==
      scrape' # scrape =>
        LET report == scrape'.report IN
        /\ \A k \in Keys \ DOMAIN report :
             /\ \A j \in DOMAIN report :
                  tally'.observed[k] <= report[j] + Slack(top'.entries, tally')
             /\ Cardinality(DOMAIN report) < maxSeries => tally'.observed[k] = 0
        /\ \A k \in DOMAIN report : tally'.since[k] > scrape'.at - Window
<1>1. ASSUME Inv, NEW shown \in SUBSET Keys, Collect(shown) PROVE TopScrape
  <2> DEFINE t == resetExpired(now)
             past == TallyAt(now)
             e == t.entries
             report == Restrict(e, shown)
  <2>1. /\ LeadersOf(e, maxSeries, shown)
        /\ top' = t /\ tally' = past /\ scrape' = [at |-> now, report |-> report]
    BY <1>1 DEF Collect
  <2>2. now \in Nat /\ CollectorOK(t, past, now) /\ t.windowStart > now - Window
    BY <1>1, WindowRenewed DEF Inv
  <2> HIDE DEF t, past
  <2>3. /\ Tracked(e) /\ Under(e, past) /\ past.observed \in [Keys -> Nat] /\ past.prunes \in Nat
        /\ past.prunes # 0 => Cardinality(DOMAIN e) >= Keep
        /\ DOMAIN e \subseteq DOMAIN past.since /\ t.windowStart \in Nat
        /\ \A k \in DOMAIN past.since : past.since[k] \in Nat /\ past.since[k] >= t.windowStart
    BY <2>2 DEF CollectorOK
  <2>4. shown \subseteq DOMAIN e /\ IsFiniteSet(shown) /\ Cardinality(DOMAIN e) \in Nat
        /\ KeptFloor(e) \in Nat
    BY <2>1, <2>3, FS_Subset, FS_CardinalityType, FloorWitness DEF LeadersOf, Tracked
  <2>5. DOMAIN report = shown /\ \A k \in shown : report[k] = e[k]
    BY DEF Restrict
  <2>6. past.prunes * KeptFloor(e) \in Nat
    BY <2>3, <2>4, SlackGrows
  <2>7. ASSUME NEW k \in Keys \ shown
        PROVE  /\ \A j \in shown : past.observed[k] <= report[j] + Slack(e, past)
               /\ Cardinality(shown) < maxSeries => past.observed[k] = 0
    <3>1. /\ CountOf(e, k) \in Nat /\ past.observed[k] \in Nat
          /\ past.observed[k] <= CountOf(e, k) + past.prunes * KeptFloor(e)
      BY <2>3, <2>7 DEF Under, Slack, CountOf, Tracked
    <3>2. ASSUME NEW j \in shown PROVE past.observed[k] <= report[j] + Slack(e, past)
      <4>1. report[j] = e[j] /\ e[j] \in Nat
        BY <2>3, <2>4, <2>5, <3>2 DEF Tracked
      <4>2. CountOf(e, k) <= e[j]
        <5>1. CASE k \in DOMAIN e
          BY <2>1, <2>3, <2>7, <3>2, <4>1, <5>1 DEF LeadersOf, CountOf, Tracked
        <5>2. CASE k \notin DOMAIN e
          BY <4>1, <5>2 DEF CountOf
        <5> QED
          BY <5>1, <5>2
      <4> HIDE DEF report, e
      <4> QED
        BY <2>6, <3>1, <4>1, <4>2 DEF Slack
    <3>3. ASSUME Cardinality(shown) < maxSeries PROVE past.observed[k] = 0
      <4>1. Cardinality(DOMAIN e) < maxSeries /\ Cardinality(shown) = Cardinality(DOMAIN e)
        BY <2>1, <2>4, <3>3, SizesAssumption DEF LeadersOf
      <4>2. shown = DOMAIN e
        BY <2>3, <2>4, <4>1, FS_Subset DEF Tracked
      <4>3. past.prunes = 0
        BY <2>3, <2>4, <4>1, SizesOfThePrune, SizesAssumption
      <4>4. CountOf(e, k) = 0
        BY <2>7, <4>2 DEF CountOf
      <4> HIDE DEF e
      <4>5. past.prunes * KeptFloor(e) = 0
        BY <2>4, <4>3
      <4> QED
        BY <3>1, <4>4, <4>5
    <3> QED
      BY <3>2, <3>3
  <2>8. ASSUME NEW k \in shown PROVE past.since[k] > now - Window
    <3>1. past.since[k] \in Nat /\ past.since[k] >= t.windowStart
      BY <2>3, <2>4, <2>8
    <3> QED
      BY <2>2, <2>3, <3>1, WindowAssumption
  <2> HIDE DEF report, e
  <2>9. scrape'.report = report /\ scrape'.at = now /\ top'.entries = e
    BY <2>1 DEF e
  <2> QED
    BY <2>1, <2>5, <2>7, <2>8, <2>9
<1>2. ASSUME Inv, [Next]_vars PROVE TopScrape
  <2>1. CASE \E shown \in SUBSET Keys : Collect(shown)
    BY <1>1, <1>2, <2>1
  <2>2. CASE UNCHANGED scrape
    BY <2>2
  <2>3. (\E shown \in SUBSET Keys : Collect(shown)) \/ UNCHANGED scrape
    BY <1>2 DEF Next, Report, Observe, ReadClock, ShouldLog, Tick, vars
  <2> QED
    BY <2>1, <2>2, <2>3
<1>3. Inv /\ [Next]_vars => [TopScrape]_vars
  BY <1>2
<1>4. Spec => [][TopScrape]_vars
  BY <1>3, InvAlways, PTL DEF Spec
<1> QED
  BY <1>4 DEF ScrapeIsTop
==============================================================================
