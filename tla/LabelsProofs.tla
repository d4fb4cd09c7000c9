----------------------------- MODULE LabelsProofs -----------------------------
(***************************************************************************)
(* The reasons of validateSeries are what the labels mean, for series of   *)
(* any length over any names and values: one look at neighbours tells      *)
(* whether labels are in order, because the order of strings is total.     *)
(* And the bytes that canonicalHash hashes can be read back as the labels  *)
(* of the series in their one canonical order.                             *)
(***************************************************************************)
EXTENDS Labels, SharedFacts, TLAPS

Strings == Seq(0..255)

------------------------------------------------------------------------------
(* The order of strings is a strict total order.                            *)

LEMMA ElementOf ==
  ASSUME NEW S, NEW s \in Seq(S)
  PROVE  /\ Len(s) \in Nat /\ DOMAIN s = 1..Len(s) /\ s = [j \in 1..Len(s) |-> s[j]]
         /\ \A j \in 1..Len(s) : s[j] \in S
OBVIOUS

LEMMA Bytes ==
  ASSUME NEW s \in Strings
  PROVE  /\ Len(s) \in Nat /\ DOMAIN s = 1..Len(s) /\ s = [j \in 1..Len(s) |-> s[j]]
         /\ \A j \in 1..Len(s) : s[j] \in Int
<1>1. \A j \in 1..Len(s) : s[j] \in 0..255
  BY ElementOf DEF Strings
<1>2. 0..255 \subseteq Int
  OBVIOUS
<1>3. /\ Len(s) \in Nat /\ DOMAIN s = 1..Len(s) /\ s = [j \in 1..Len(s) |-> s[j]]
  BY ElementOf DEF Strings
<1> QED
  BY <1>1, <1>2, <1>3

\* s and t agree on n bytes, and there s ends or has the smaller byte.
LessAt(s, t, n) ==
  /\ n \in Nat /\ n <= Len(s) /\ n < Len(t)
  /\ \A j \in 1..n : s[j] = t[j]
  /\ n = Len(s) \/ (n < Len(s) /\ s[n + 1] < t[n + 1])

LEMMA PrefixesAgree ==
  ASSUME NEW s \in Strings, NEW t \in Strings, NEW n \in Nat, n <= Len(s), n <= Len(t)
  PROVE  SubSeq(s, 1, n) = SubSeq(t, 1, n) <=> \A j \in 1..n : s[j] = t[j]
<1>1. /\ Len(s) \in Nat /\ DOMAIN s = 1..Len(s) /\ Len(t) \in Nat /\ DOMAIN t = 1..Len(t)
  BY DEF Strings
<1>2. /\ SubSeq(s, 1, n) = [j \in 1..n |-> s[j]]
      /\ SubSeq(t, 1, n) = [j \in 1..n |-> t[j]]
  BY <1>1 DEF Strings
<1> QED
  BY <1>2

LEMMA LessAtSomePlace ==
  ASSUME NEW s \in Strings, NEW t \in Strings
  PROVE  Less(s, t) <=> \E n \in Nat : LessAt(s, t, n)
<1>1. /\ Len(s) \in Nat /\ Len(t) \in Nat
      /\ \A j \in 1..Len(s) : s[j] \in Int
      /\ \A j \in 1..Len(t) : t[j] \in Int
  BY Bytes
<1>2. SubSeq(s, 1, Len(s)) = s
  BY DEF Strings
<1>3. ASSUME Len(s) < Len(t), s = SubSeq(t, 1, Len(s)) PROVE LessAt(s, t, Len(s))
  BY <1>1, <1>2, <1>3, PrefixesAgree DEF LessAt
<1>4. ASSUME NEW i \in 1..Len(s) \cap 1..Len(t), s[i] < t[i],
             SubSeq(s, 1, i - 1) = SubSeq(t, 1, i - 1)
      PROVE  LessAt(s, t, i - 1)
  <2>1. i - 1 \in Nat /\ i - 1 < Len(s) /\ i - 1 < Len(t) /\ (i - 1) + 1 = i
    BY <1>1
  <2> QED
    BY <1>1, <1>4, <2>1, PrefixesAgree DEF LessAt
<1>5. ASSUME NEW n \in Nat, LessAt(s, t, n) PROVE Less(s, t)
  <2>1. n <= Len(s) /\ n < Len(t) /\ SubSeq(s, 1, n) = SubSeq(t, 1, n)
    BY <1>1, <1>5, PrefixesAgree DEF LessAt
  <2>2. CASE n = Len(s)
    BY <1>2, <2>1, <2>2 DEF Less
  <2>3. CASE n < Len(s) /\ s[n + 1] < t[n + 1]
    <3>1. n + 1 \in 1..Len(s) \cap 1..Len(t) /\ (n + 1) - 1 = n
      BY <1>1, <2>1, <2>3
    <3> QED
      BY <2>1, <2>3, <3>1 DEF Less
  <2> QED
    BY <1>5, <2>2, <2>3 DEF LessAt
<1> QED
  BY <1>1, <1>3, <1>4, <1>5 DEF Less

LEMMA LessIrreflexive ==
  ASSUME NEW s \in Strings
  PROVE  ~Less(s, s)
<1>1. Len(s) \in Nat /\ \A j \in 1..Len(s) : s[j] \in Int
  BY Bytes
<1>2. ASSUME NEW n \in Nat, LessAt(s, s, n) PROVE FALSE
  <2>1. n + 1 \in 1..Len(s) /\ s[n + 1] < s[n + 1]
    BY <1>1, <1>2 DEF LessAt
  <2> QED
    BY <1>1, <2>1
<1> QED
  BY <1>2, LessAtSomePlace

LEMMA LessTransitive ==
  ASSUME NEW s \in Strings, NEW t \in Strings, NEW u \in Strings, Less(s, t), Less(t, u)
  PROVE  Less(s, u)
<1>1. /\ Len(s) \in Nat /\ Len(t) \in Nat /\ Len(u) \in Nat
      /\ \A j \in 1..Len(s) : s[j] \in Int
      /\ \A j \in 1..Len(t) : t[j] \in Int
      /\ \A j \in 1..Len(u) : u[j] \in Int
  BY Bytes
<1>2. PICK n \in Nat : LessAt(s, t, n)
  BY LessAtSomePlace
<1>3. PICK m \in Nat : LessAt(t, u, m)
  BY LessAtSomePlace
<1>4. CASE n < m
  <2>1. /\ n <= Len(s) /\ n < Len(u)
        /\ \A j \in 1..n : s[j] = u[j]
    BY <1>1, <1>2, <1>3, <1>4 DEF LessAt
  <2>2. n + 1 \in 1..m /\ t[n + 1] = u[n + 1]
    BY <1>3, <1>4 DEF LessAt
  <2>3. LessAt(s, u, n)
    BY <1>2, <2>1, <2>2 DEF LessAt
  <2> QED
    BY <2>3, LessAtSomePlace
<1>5. CASE m = n
  <2>1. /\ n <= Len(s) /\ n < Len(t) /\ n < Len(u)
        /\ \A j \in 1..n : s[j] = u[j]
        /\ t[n + 1] < u[n + 1]
        /\ n = Len(s) \/ (n < Len(s) /\ s[n + 1] < t[n + 1])
    BY <1>1, <1>2, <1>3, <1>5 DEF LessAt
  <2>2. n + 1 \in 1..Len(t) /\ n + 1 \in 1..Len(u)
    BY <1>1, <2>1
  <2>3. LessAt(s, u, n)
    <3>1. CASE n = Len(s)
      BY <2>1, <3>1 DEF LessAt
    <3>2. CASE n < Len(s) /\ s[n + 1] < t[n + 1]
      <4>1. n + 1 \in 1..Len(s)
        BY <1>1, <3>2
      <4>2. s[n + 1] \in Int /\ t[n + 1] \in Int /\ u[n + 1] \in Int
        BY <1>1, <2>2, <4>1
      <4>3. s[n + 1] < u[n + 1]
        BY <2>1, <3>2, <4>2
      <4> QED
        BY <2>1, <3>2, <4>3 DEF LessAt
    <3> QED
      BY <2>1, <3>1, <3>2
  <2> QED
    BY <2>3, LessAtSomePlace
<1>6. CASE m < n
  <2>1. /\ m < Len(s) /\ m < Len(u)
        /\ \A j \in 1..m : s[j] = u[j]
    BY <1>1, <1>2, <1>3, <1>6 DEF LessAt
  <2>2. m + 1 \in 1..n /\ s[m + 1] = t[m + 1]
    BY <1>2, <1>6 DEF LessAt
  <2>3. t[m + 1] < u[m + 1]
    BY <1>1, <1>2, <1>3, <1>6 DEF LessAt
  <2>4. LessAt(s, u, m)
    BY <2>1, <2>2, <2>3 DEF LessAt
  <2> QED
    BY <2>4, LessAtSomePlace
<1> QED
  BY <1>4, <1>5, <1>6

\* Of two different strings, the first place where one ends or the bytes differ decides.
LEMMA LessTotal ==
  ASSUME NEW s \in Strings, NEW t \in Strings, s # t
  PROVE  Less(s, t) \/ Less(t, s)
<1>1. /\ Len(s) \in Nat /\ Len(t) \in Nat
      /\ \A j \in 1..Len(s) : s[j] \in Int
      /\ \A j \in 1..Len(t) : t[j] \in Int
  BY Bytes
<1> DEFINE Stops == {n \in Nat : n = Len(s) \/ n = Len(t) \/ (n < Len(s) /\ n < Len(t) /\ s[n + 1] # t[n + 1])}
<1>2. PICK n \in Stops : \A m \in Stops : n <= m
  <2>1. Len(s) \in Stops /\ Stops \subseteq Nat
    BY <1>1
  <2> HIDE DEF Stops
  <2> QED
    BY <2>1, LeastNatural
<1>3. n \in Nat /\ n <= Len(s) /\ n <= Len(t)
  BY <1>1, <1>2
<1>4. \A j \in 1..n : s[j] = t[j]
  <2> SUFFICES ASSUME NEW j \in 1..n, s[j] # t[j] PROVE FALSE
    OBVIOUS
  <2>1. j - 1 \in Nat /\ j - 1 < Len(s) /\ j - 1 < Len(t) /\ (j - 1) + 1 = j /\ j - 1 < n
    BY <1>1, <1>3
  <2>2. j - 1 \in Stops
    BY <2>1
  <2> QED
    BY <1>2, <1>3, <2>1, <2>2
<1>5. CASE n = Len(s) /\ n = Len(t)
  <2>1. s = [j \in 1..n |-> s[j]] /\ t = [j \in 1..n |-> t[j]]
    BY <1>5, Bytes
  <2>2. s = t
    BY <1>4, <2>1
  <2> QED
    BY <2>2
<1>6. CASE n = Len(s) /\ n < Len(t)
  <2>1. LessAt(s, t, n)
    BY <1>3, <1>4, <1>6 DEF LessAt
  <2> QED
    BY <1>3, <2>1, LessAtSomePlace
<1>7. CASE n = Len(t) /\ n < Len(s)
  <2>1. LessAt(t, s, n)
    BY <1>3, <1>4, <1>7 DEF LessAt
  <2> QED
    BY <1>3, <2>1, LessAtSomePlace
<1>8. CASE n < Len(s) /\ n < Len(t) /\ s[n + 1] # t[n + 1]
  <2>1. s[n + 1] \in Int /\ t[n + 1] \in Int
    BY <1>1, <1>3, <1>8
  <2>2. LessAt(s, t, n) \/ LessAt(t, s, n)
    BY <1>3, <1>4, <1>8, <2>1 DEF LessAt
  <2> QED
    BY <1>3, <2>2, LessAtSomePlace
<1> QED
  BY <1>1, <1>2, <1>3, <1>5, <1>6, <1>7, <1>8

------------------------------------------------------------------------------
(* What the loop has found after n labels.                                  *)

NameAt(ls, n) == ls[n].name

InversionIn(ls, n) == \E i \in 2..n : Less(NameAt(ls, i), NameAt(ls, i - 1))
RepeatIn(ls, n) == \E i \in 2..n : NameAt(ls, i) = NameAt(ls, i - 1)
MetricIn(ls, n) == \E i \in 1..n : NameAt(ls, i) = metricNameLabel
AloneIn(ls, n) == UNION {LabelReasons(ls[i]) : i \in 1..n}

FoundIn(ls, n) ==
  If(Len(ls) > MaxLabels, "excessive_label_count") \cup AloneIn(ls, n)
    \cup If(InversionIn(ls, n), "out_of_order_labels") \cup If(RepeatIn(ls, n), "duplicate_label_name")

IInv ==
  /\ labels \in Series
  /\ pc \in {"hash", "count", "labels", "done"}
  /\ pc \in {"hash", "count"} => reasons = {} /\ idx = 1 /\ inNameOrder = TRUE /\ metricSeen = FALSE
  /\ pc = "labels" =>
       /\ idx \in 1..(Len(labels) + 1)
       /\ idx > 1 => prevName = NameAt(labels, idx - 1)
       /\ inNameOrder \in BOOLEAN /\ (inNameOrder <=> ~InversionIn(labels, idx - 1))
       /\ metricSeen \in BOOLEAN /\ (metricSeen <=> MetricIn(labels, idx - 1))
       /\ reasons = FoundIn(labels, idx - 1)
  /\ ReasonsExact

LEMMA SeriesType ==
  ASSUME NEW ls \in Series
  PROVE  /\ Len(ls) \in Nat /\ DOMAIN ls = 1..Len(ls)
         /\ \A i \in 1..Len(ls) : ls[i] \in Label /\ NameAt(ls, i) \in Strings
<1>1. PICK n \in 0..MaxLen : ls \in [1..n -> Label]
  BY DEF Series
<1>2. n \in Nat
  BY LimitsAssumption
<1>3. ls \in Seq(Label)
  BY <1>1, <1>2
<1>4. \A i \in 1..Len(ls) : ls[i] \in Label
  BY <1>3, ElementOf
<1>5. \A i \in 1..Len(ls) : NameAt(ls, i) \in Names
  BY <1>4 DEF NameAt, Label
<1> QED
  BY <1>3, <1>4, <1>5, ElementOf, StringsAssumption DEF Strings

LEMMA NothingFoundYet ==
  ASSUME NEW ls
  PROVE  ~InversionIn(ls, 0) /\ ~RepeatIn(ls, 0) /\ ~MetricIn(ls, 0) /\ AloneIn(ls, 0) = {}
BY DEF InversionIn, RepeatIn, MetricIn, AloneIn

LEMMA OneMoreLabel ==
  ASSUME NEW ls, NEW n \in Nat
  PROVE  /\ InversionIn(ls, n + 1) <=> InversionIn(ls, n) \/ (n + 1 > 1 /\ Less(NameAt(ls, n + 1), NameAt(ls, n)))
         /\ RepeatIn(ls, n + 1) <=> RepeatIn(ls, n) \/ (n + 1 > 1 /\ NameAt(ls, n + 1) = NameAt(ls, n))
         /\ MetricIn(ls, n + 1) <=> MetricIn(ls, n) \/ NameAt(ls, n + 1) = metricNameLabel
         /\ AloneIn(ls, n + 1) = AloneIn(ls, n) \cup LabelReasons(ls[n + 1])
<1>1. 1..(n + 1) = 1..n \cup {n + 1}
  OBVIOUS
<1>2. \A i \in 2..(n + 1) : i \in 2..n \/ (i = n + 1 /\ n + 1 > 1)
  OBVIOUS
<1>3. /\ 2..n \subseteq 2..(n + 1)
      /\ n + 1 > 1 => n + 1 \in 2..(n + 1)
      /\ (n + 1) - 1 = n
  OBVIOUS
<1>4. InversionIn(ls, n + 1) <=> InversionIn(ls, n) \/ (n + 1 > 1 /\ Less(NameAt(ls, n + 1), NameAt(ls, n)))
  BY <1>2, <1>3 DEF InversionIn
<1>5. RepeatIn(ls, n + 1) <=> RepeatIn(ls, n) \/ (n + 1 > 1 /\ NameAt(ls, n + 1) = NameAt(ls, n))
  BY <1>2, <1>3 DEF RepeatIn
<1>6. MetricIn(ls, n + 1) <=> MetricIn(ls, n) \/ NameAt(ls, n + 1) = metricNameLabel
  BY <1>1 DEF MetricIn
<1>7. AloneIn(ls, n + 1) = AloneIn(ls, n) \cup LabelReasons(ls[n + 1])
  BY <1>1 DEF AloneIn
<1> QED
  BY <1>4, <1>5, <1>6, <1>7

------------------------------------------------------------------------------
(* What neighbours tell about the whole.                                    *)

Inverted(ls) == \E i, j \in 1..Len(ls) : i < j /\ Less(NameAt(ls, j), NameAt(ls, i))
Repeated(ls) == \E i, j \in 1..Len(ls) : i < j /\ NameAt(ls, i) = NameAt(ls, j)

\* The closest pair that is out of order are neighbours: the one before the later of a pair
\* further apart would be out of order with one of the two.
LEMMA InversionsShowBetweenNeighbours ==
  ASSUME NEW ls \in Series
  PROVE  Inverted(ls) <=> InversionIn(ls, Len(ls))
<1>1. /\ Len(ls) \in Nat
      /\ \A i \in 1..Len(ls) : NameAt(ls, i) \in Strings
  BY SeriesType
<1>2. ASSUME InversionIn(ls, Len(ls)) PROVE Inverted(ls)
  <2>1. PICK i \in 2..Len(ls) : Less(NameAt(ls, i), NameAt(ls, i - 1))
    BY <1>2 DEF InversionIn
  <2>2. i \in 1..Len(ls) /\ i - 1 \in 1..Len(ls) /\ i - 1 < i
    BY <1>1
  <2> QED
    BY <2>1, <2>2 DEF Inverted
<1>3. ASSUME Inverted(ls) PROVE InversionIn(ls, Len(ls))
  <2> DEFINE Gaps == {d \in Nat \ {0} : \E i \in 1..Len(ls) :
                        i + d \in 1..Len(ls) /\ Less(NameAt(ls, i + d), NameAt(ls, i))}
  <2>1. Gaps # {} /\ Gaps \subseteq Nat
    <3>1. PICK i, j \in 1..Len(ls) : i < j /\ Less(NameAt(ls, j), NameAt(ls, i))
      BY <1>3 DEF Inverted
    <3>2. j - i \in Nat \ {0} /\ i + (j - i) = j
      BY <1>1, <3>1
    <3>3. j - i \in Gaps
      BY <3>1, <3>2
    <3> QED
      BY <3>3
  <2>2. PICK d \in Gaps : \A e \in Gaps : d <= e
    <3> HIDE DEF Gaps
    <3> QED
      BY <2>1, LeastNatural
  <2>3. PICK i \in 1..Len(ls) : i + d \in 1..Len(ls) /\ Less(NameAt(ls, i + d), NameAt(ls, i))
    BY <2>2
  <2>4. CASE d = 1
    <3>1. i + 1 \in 2..Len(ls) /\ (i + 1) - 1 = i
      BY <1>1, <2>3, <2>4
    <3> QED
      BY <2>3, <2>4, <3>1 DEF InversionIn
  <2>5. CASE d > 1
    <3>1. /\ d - 1 \in Nat \ {0} /\ d - 1 < d /\ d \in Nat
          /\ i + (d - 1) \in 1..Len(ls)
          /\ (i + (d - 1)) + 1 = i + d
      BY <1>1, <2>2, <2>3, <2>5
    <3>2. ~Less(NameAt(ls, i + (d - 1)), NameAt(ls, i))
      <4>1. d - 1 \notin Gaps
        <5> HIDE DEF Gaps
        <5> QED
          BY <2>2, <3>1
      <4> QED
        BY <3>1, <4>1
    <3>3. ~Less(NameAt(ls, i + d), NameAt(ls, i + (d - 1)))
      <4>1. 1 \notin Gaps
        <5> HIDE DEF Gaps
        <5> QED
          BY <2>2, <2>5, <3>1
      <4> QED
        BY <2>3, <3>1, <4>1
    <3>4. /\ NameAt(ls, i) \in Strings /\ NameAt(ls, i + (d - 1)) \in Strings /\ NameAt(ls, i + d) \in Strings
      BY <1>1, <2>3, <3>1
    <3>5. NameAt(ls, i) = NameAt(ls, i + (d - 1)) \/ Less(NameAt(ls, i), NameAt(ls, i + (d - 1)))
      BY <3>2, <3>4, LessTotal
    <3> QED
      BY <2>3, <3>3, <3>4, <3>5, LessTransitive
  <2> QED
    BY <2>2, <2>4, <2>5
<1> QED
  BY <1>2, <1>3

\* Equal names are neighbours when the labels are in order.
LEMMA RepeatsShowBetweenNeighbours ==
  ASSUME NEW ls \in Series
  PROVE  Repeated(ls) <=> RepeatIn(ls, Len(ls)) \/ (InversionIn(ls, Len(ls)) /\ Repeated(ls))
<1>1. /\ Len(ls) \in Nat
      /\ \A i \in 1..Len(ls) : NameAt(ls, i) \in Strings
  BY SeriesType
<1>2. ASSUME RepeatIn(ls, Len(ls)) PROVE Repeated(ls)
  <2>1. PICK i \in 2..Len(ls) : NameAt(ls, i) = NameAt(ls, i - 1)
    BY <1>2 DEF RepeatIn
  <2>2. i \in 1..Len(ls) /\ i - 1 \in 1..Len(ls) /\ i - 1 < i
    BY <1>1
  <2> QED
    BY <2>1, <2>2 DEF Repeated
<1>3. ASSUME Repeated(ls), ~InversionIn(ls, Len(ls)) PROVE RepeatIn(ls, Len(ls))
  <2>1. PICK i, j \in 1..Len(ls) : i < j /\ NameAt(ls, i) = NameAt(ls, j)
    BY <1>3 DEF Repeated
  <2>2. /\ i + 1 \in 1..Len(ls) /\ i + 1 \in 2..Len(ls) /\ (i + 1) - 1 = i /\ i < i + 1
        /\ i + 1 = j \/ i + 1 < j
    BY <1>1, <2>1
  <2>3. ~Less(NameAt(ls, i + 1), NameAt(ls, i))
    BY <1>3, <2>2, InversionsShowBetweenNeighbours DEF Inverted
  <2>4. i + 1 = j \/ ~Less(NameAt(ls, j), NameAt(ls, i + 1))
    BY <1>3, <2>2, InversionsShowBetweenNeighbours DEF Inverted
  <2>5. NameAt(ls, i + 1) = NameAt(ls, i)
    BY <1>1, <2>1, <2>2, <2>3, <2>4, LessTotal
  <2> QED
    BY <2>2, <2>5 DEF RepeatIn
<1> QED
  BY <1>2, <1>3

------------------------------------------------------------------------------
(* The reasons.                                                             *)

\* What is wrong with labels by themselves, reason by reason.
LEMMA AloneMeaning ==
  ASSUME NEW ls \in Series, NEW r
  PROVE  LET named == {i \in DOMAIN ls : ls[i].name # << >>}
             metric == {i \in DOMAIN ls : ls[i].name = metricNameLabel}
         IN r \in AloneIn(ls, Len(ls)) <=>
              r \in If(named # DOMAIN ls, "empty_label_name")
                \cup If(\E i \in named : ls[i].name \notin LabelNames, "invalid_label_name")
                \cup If(\E i \in named : Len(ls[i].value) > MaxLabelValueLength, "excessive_label_value_length")
                \cup If(\E i \in named \ metric : ls[i].value = << >>, "empty_label_value")
                \cup If(\E i \in metric : ls[i].value = << >>, "empty_metric_name")
                \cup If(\E i \in metric : ls[i].value \notin MetricNames \cup {<< >>}, "invalid_metric_name")
<1> DEFINE named == {i \in DOMAIN ls : ls[i].name # << >>}
           metric == {i \in DOMAIN ls : ls[i].name = metricNameLabel}
<1>1. DOMAIN ls = 1..Len(ls)
  BY SeriesType
<1>2. metricNameLabel # << >> /\ metric \subseteq named
  BY StringsAssumption
<1>3. r \in AloneIn(ls, Len(ls)) <=> \E i \in DOMAIN ls : r \in LabelReasons(ls[i])
  BY <1>1 DEF AloneIn
<1>4. ASSUME NEW i \in DOMAIN ls
      PROVE  r \in LabelReasons(ls[i]) <=>
               \/ i \notin named /\ r = "empty_label_name"
               \/ i \in named /\ ls[i].name \notin LabelNames /\ r = "invalid_label_name"
               \/ i \in named /\ Len(ls[i].value) > MaxLabelValueLength
                    /\ r = "excessive_label_value_length"
               \/ i \in named \ metric /\ ls[i].value = << >> /\ r = "empty_label_value"
               \/ i \in metric /\ ls[i].value = << >> /\ r = "empty_metric_name"
               \/ i \in metric /\ ls[i].value \notin MetricNames \cup {<< >>}
                    /\ r = "invalid_metric_name"
  <2>1. CASE i \notin named
    <3>1. LabelReasons(ls[i]) = {"empty_label_name"} /\ i \notin metric
      BY <1>2, <2>1 DEF LabelReasons
    <3> QED
      BY <2>1, <3>1
  <2>2. CASE i \in metric
    <3>1. LabelReasons(ls[i]) =
            If(ls[i].name \notin LabelNames, "invalid_label_name")
              \cup If(Len(ls[i].value) > MaxLabelValueLength, "excessive_label_value_length")
              \cup (If(ls[i].value = << >>, "empty_metric_name")
                      \cup If(ls[i].value # << >> /\ ls[i].value \notin MetricNames, "invalid_metric_name"))
      BY <1>2, <2>2 DEF LabelReasons
    <3>2. i \in named
      BY <1>2, <2>2
    <3> HIDE DEF named, metric
    <3> QED
      BY <2>2, <3>1, <3>2 DEF If
  <2>3. CASE i \in named /\ i \notin metric
    <3>1. LabelReasons(ls[i]) =
            If(ls[i].name \notin LabelNames, "invalid_label_name")
              \cup If(Len(ls[i].value) > MaxLabelValueLength, "excessive_label_value_length")
              \cup If(ls[i].value = << >>, "empty_label_value")
      BY <2>3 DEF LabelReasons
    <3> HIDE DEF named, metric
    <3> QED
      BY <2>3, <3>1 DEF If
  <2> QED
    BY <2>1, <2>2, <2>3
<1>5. named # DOMAIN ls <=> \E i \in DOMAIN ls : i \notin named
  OBVIOUS
<1>6. named \subseteq DOMAIN ls /\ metric \subseteq DOMAIN ls
  OBVIOUS
<1> HIDE DEF named, metric
<1>7. r \in AloneIn(ls, Len(ls)) <=>
        \/ named # DOMAIN ls /\ r = "empty_label_name"
        \/ (\E i \in named : ls[i].name \notin LabelNames) /\ r = "invalid_label_name"
        \/ (\E i \in named : Len(ls[i].value) > MaxLabelValueLength)
             /\ r = "excessive_label_value_length"
        \/ (\E i \in named \ metric : ls[i].value = << >>) /\ r = "empty_label_value"
        \/ (\E i \in metric : ls[i].value = << >>) /\ r = "empty_metric_name"
        \/ (\E i \in metric : ls[i].value \notin MetricNames \cup {<< >>}) /\ r = "invalid_metric_name"
  BY <1>3, <1>4, <1>5, <1>6
<1>8. r \in AloneIn(ls, Len(ls)) <=>
        r \in If(named # DOMAIN ls, "empty_label_name")
          \cup If(\E i \in named : ls[i].name \notin LabelNames, "invalid_label_name")
          \cup If(\E i \in named : Len(ls[i].value) > MaxLabelValueLength, "excessive_label_value_length")
          \cup If(\E i \in named \ metric : ls[i].value = << >>, "empty_label_value")
          \cup If(\E i \in metric : ls[i].value = << >>, "empty_metric_name")
          \cup If(\E i \in metric : ls[i].value \notin MetricNames \cup {<< >>}, "invalid_metric_name")
  BY <1>7 DEF If
<1> QED
  BY <1>8 DEF named, metric

\* What the loop and the search have found when they are through is what the labels mean.
LEMMA FoundIsMeant ==
  ASSUME NEW ls \in Series
  PROVE  Meaning(ls) =
           FoundIn(ls, Len(ls))
             \cup If(InversionIn(ls, Len(ls)) /\ Repeated(ls), "duplicate_label_name")
             \cup If(~MetricIn(ls, Len(ls)), "missing_metric_name")
<1> DEFINE named == {i \in DOMAIN ls : ls[i].name # << >>}
           metric == {i \in DOMAIN ls : ls[i].name = metricNameLabel}
           alone == If(named # DOMAIN ls, "empty_label_name")
             \cup If(\E i \in named : ls[i].name \notin LabelNames, "invalid_label_name")
             \cup If(\E i \in named : Len(ls[i].value) > MaxLabelValueLength, "excessive_label_value_length")
             \cup If(\E i \in named \ metric : ls[i].value = << >>, "empty_label_value")
             \cup If(\E i \in metric : ls[i].value = << >>, "empty_metric_name")
             \cup If(\E i \in metric : ls[i].value \notin MetricNames \cup {<< >>}, "invalid_metric_name")
<1>1. DOMAIN ls = 1..Len(ls)
  BY SeriesType
<1>2. AloneIn(ls, Len(ls)) = alone
  <2>1. \A r : r \in AloneIn(ls, Len(ls)) <=> r \in alone
    BY AloneMeaning
  <2> HIDE DEF alone
  <2> QED
    BY <2>1
<1>3. metric = {} <=> ~MetricIn(ls, Len(ls))
  BY <1>1 DEF MetricIn, NameAt
<1>4. (\E i, j \in DOMAIN ls : i < j /\ ls[i].name = ls[j].name) <=> Repeated(ls)
  BY <1>1 DEF Repeated, NameAt
<1>5. (\E i, j \in DOMAIN ls : i < j /\ Less(ls[j].name, ls[i].name)) <=> Inverted(ls)
  BY <1>1 DEF Inverted, NameAt
<1>6. Meaning(ls) =
        If(metric = {}, "missing_metric_name")
          \cup If(Len(ls) > MaxLabels, "excessive_label_count")
          \cup If(\E i, j \in DOMAIN ls : i < j /\ ls[i].name = ls[j].name, "duplicate_label_name")
          \cup If(\E i, j \in DOMAIN ls : i < j /\ Less(ls[j].name, ls[i].name), "out_of_order_labels")
          \cup alone
  BY DEF Meaning
<1> HIDE DEF named, metric, alone
<1>7. ASSUME NEW r
      PROVE  r \in Meaning(ls) <=>
               \/ ~MetricIn(ls, Len(ls)) /\ r = "missing_metric_name"
               \/ Len(ls) > MaxLabels /\ r = "excessive_label_count"
               \/ Repeated(ls) /\ r = "duplicate_label_name"
               \/ InversionIn(ls, Len(ls)) /\ r = "out_of_order_labels"
               \/ r \in alone
  <2>1. Inverted(ls) <=> InversionIn(ls, Len(ls))
    BY InversionsShowBetweenNeighbours
  <2> QED
    BY <1>3, <1>4, <1>5, <1>6, <2>1 DEF If
<1>8. ASSUME NEW r
      PROVE  r \in FoundIn(ls, Len(ls))
                     \cup If(InversionIn(ls, Len(ls)) /\ Repeated(ls), "duplicate_label_name")
                     \cup If(~MetricIn(ls, Len(ls)), "missing_metric_name") <=>
               \/ ~MetricIn(ls, Len(ls)) /\ r = "missing_metric_name"
               \/ Len(ls) > MaxLabels /\ r = "excessive_label_count"
               \/ Repeated(ls) /\ r = "duplicate_label_name"
               \/ InversionIn(ls, Len(ls)) /\ r = "out_of_order_labels"
               \/ r \in alone
  BY <1>2, RepeatsShowBetweenNeighbours DEF FoundIn, If
<1> QED
  BY <1>7, <1>8

------------------------------------------------------------------------------
(* The invariant.                                                           *)

LEMMA InitIInv == Init => IInv
BY DEF Init, IInv, ReasonsExact

LEMMA HashKeepsIInv == IInv /\ HashSeries => IInv'
BY DEF IInv, HashSeries, ReasonsExact

LEMMA CheckCountKeepsIInv == IInv /\ CheckCount => IInv'
<1> SUFFICES ASSUME IInv, CheckCount PROVE IInv'
  OBVIOUS
<1>1. /\ labels \in Series /\ idx = 1 /\ reasons = {} /\ inNameOrder = TRUE /\ metricSeen = FALSE
      /\ UNCHANGED << labels, digest, idx, prevName, inNameOrder, metricSeen >>
  BY DEF IInv, CheckCount
<1>2. Len(labels) \in Nat /\ DOMAIN labels = 1..Len(labels)
  BY <1>1, SeriesType
<1>3. CASE labels = << >>
  <2>1. Len(labels) = 0 /\ pc' = "done"
    BY <1>3 DEF CheckCount
  <2>2. reasons' = {"missing_metric_name"} \cup If(Len(labels) > MaxLabels, "excessive_label_count")
    BY <1>1, <1>3 DEF CheckCount, Add, If
  <2>3. Meaning(labels) = {"missing_metric_name"} \cup If(Len(labels) > MaxLabels, "excessive_label_count")
    <3>1. /\ ~InversionIn(labels, Len(labels)) /\ ~RepeatIn(labels, Len(labels))
          /\ ~MetricIn(labels, Len(labels)) /\ AloneIn(labels, Len(labels)) = {}
      BY <2>1, NothingFoundYet
    <3> QED
      BY <1>1, <3>1, FoundIsMeant DEF FoundIn, If
  <2> QED
    BY <1>1, <2>1, <2>2, <2>3 DEF IInv, ReasonsExact
<1>4. CASE labels # << >>
  <2>1. pc' = "labels" /\ reasons' = If(Len(labels) > MaxLabels, "excessive_label_count")
    BY <1>1, <1>4 DEF CheckCount, Add, If
  <2>2. FoundIn(labels, 0) = If(Len(labels) > MaxLabels, "excessive_label_count")
    BY NothingFoundYet DEF FoundIn, If
  <2>3. idx' = 1 /\ idx' - 1 = 0 /\ 1 \in 1..(Len(labels) + 1) /\ labels' = labels
    BY <1>1, <1>2
  <2>4. ~InversionIn(labels, 0) /\ ~MetricIn(labels, 0)
    BY NothingFoundYet
  <2>5. labels' \in Series /\ idx' \in 1..(Len(labels') + 1) /\ ~(idx' > 1)
    BY <1>1, <2>3
  <2>6. /\ ~InversionIn(labels', idx' - 1) /\ ~MetricIn(labels', idx' - 1)
        /\ reasons' = FoundIn(labels', idx' - 1)
    BY <2>1, <2>2, <2>3, <2>4
  <2> QED
    BY <1>1, <2>1, <2>5, <2>6 DEF IInv, ReasonsExact
<1> QED
  BY <1>3, <1>4

LEMMA CheckLabelKeepsIInv == IInv /\ CheckLabel => IInv'
<1> SUFFICES ASSUME IInv, CheckLabel PROVE IInv'
  OBVIOUS
<1> DEFINE n == idx - 1
           l == labels[idx]
           below == idx > 1 /\ Less(l.name, prevName)
           same == idx > 1 /\ l.name = prevName
<1>1. /\ labels \in Series /\ pc = "labels" /\ idx \in 1..(Len(labels) + 1) /\ idx <= Len(labels)
      /\ idx > 1 => prevName = NameAt(labels, n)
      /\ inNameOrder \in BOOLEAN /\ (inNameOrder <=> ~InversionIn(labels, n))
      /\ metricSeen \in BOOLEAN /\ (metricSeen <=> MetricIn(labels, n))
      /\ reasons = FoundIn(labels, n)
      /\ UNCHANGED << labels, digest, pc >>
  BY DEF IInv, CheckLabel
<1>2. Len(labels) \in Nat /\ n \in Nat /\ n + 1 = idx /\ l.name = NameAt(labels, n + 1)
  BY <1>1, SeriesType DEF NameAt
<1>3. /\ reasons' = reasons \cup (LabelReasons(l) \cup If(below, "out_of_order_labels")
                                    \cup If(same, "duplicate_label_name"))
      /\ inNameOrder' = (inNameOrder /\ ~below)
      /\ prevName' = l.name
      /\ metricSeen' = (metricSeen \/ l.name = metricNameLabel)
      /\ idx' = idx + 1
  BY DEF CheckLabel, Add
<1>4. /\ InversionIn(labels, n + 1) <=> InversionIn(labels, n) \/ below
      /\ RepeatIn(labels, n + 1) <=> RepeatIn(labels, n) \/ same
      /\ MetricIn(labels, n + 1) <=> MetricIn(labels, n) \/ l.name = metricNameLabel
      /\ AloneIn(labels, n + 1) = AloneIn(labels, n) \cup LabelReasons(l)
  <2>1. labels[n + 1] = l /\ (n + 1 > 1 <=> idx > 1)
    BY <1>2
  <2> QED
    BY <1>1, <1>2, <2>1, OneMoreLabel
<1>5. /\ idx' - 1 = n + 1 /\ idx' \in 1..(Len(labels) + 1) /\ labels' = labels
      /\ prevName' = NameAt(labels, n + 1)
  BY <1>1, <1>2, <1>3
<1> HIDE DEF n, l, below, same
<1>6. reasons' = FoundIn(labels, n + 1)
  <2> DEFINE alone == AloneIn(labels, n)
             found == LabelReasons(l)
  <2>1. reasons' = If(Len(labels) > MaxLabels, "excessive_label_count") \cup alone
                     \cup If(InversionIn(labels, n), "out_of_order_labels")
                     \cup If(RepeatIn(labels, n), "duplicate_label_name")
                     \cup (found \cup If(below, "out_of_order_labels")
                             \cup If(same, "duplicate_label_name"))
    BY <1>1, <1>3 DEF FoundIn
  <2>2. FoundIn(labels, n + 1) =
          If(Len(labels) > MaxLabels, "excessive_label_count") \cup (alone \cup found)
            \cup If(InversionIn(labels, n) \/ below, "out_of_order_labels")
            \cup If(RepeatIn(labels, n) \/ same, "duplicate_label_name")
    BY <1>4 DEF FoundIn, If
  <2> HIDE DEF alone, found
  <2> QED
    BY <2>1, <2>2 DEF If
<1>7. /\ labels' \in Series /\ pc' = "labels" /\ idx' \in 1..(Len(labels') + 1)
      /\ prevName' = NameAt(labels', idx' - 1)
      /\ inNameOrder' \in BOOLEAN /\ (inNameOrder' <=> ~InversionIn(labels', idx' - 1))
      /\ metricSeen' \in BOOLEAN /\ (metricSeen' <=> MetricIn(labels', idx' - 1))
      /\ reasons' = FoundIn(labels', idx' - 1)
  <2>1. inNameOrder' \in BOOLEAN /\ (inNameOrder' <=> ~InversionIn(labels, n + 1))
    BY <1>1, <1>3, <1>4
  <2>2. metricSeen' \in BOOLEAN /\ (metricSeen' <=> MetricIn(labels, n + 1))
    BY <1>1, <1>3, <1>4
  <2> QED
    BY <1>1, <1>5, <1>6, <2>1, <2>2
<1> QED
  BY <1>7 DEF IInv, ReasonsExact

LEMMA CheckDuplicatesKeepsIInv == IInv /\ CheckDuplicates => IInv'
<1> SUFFICES ASSUME IInv, CheckDuplicates PROVE IInv'
  OBVIOUS
<1>1. /\ labels \in Series /\ idx \in 1..(Len(labels) + 1) /\ idx > Len(labels)
      /\ inNameOrder <=> ~InversionIn(labels, idx - 1)
      /\ metricSeen <=> MetricIn(labels, idx - 1)
      /\ reasons = FoundIn(labels, idx - 1)
      /\ pc' = "done" /\ labels' = labels
  BY DEF IInv, CheckDuplicates
<1>2. Len(labels) \in Nat /\ DOMAIN labels = 1..Len(labels)
  BY <1>1, SeriesType
<1>3. idx - 1 = Len(labels)
  BY <1>1, <1>2
<1>4. (\E i, j \in DOMAIN labels : i < j /\ labels[i].name = labels[j].name) <=> Repeated(labels)
  BY <1>2 DEF Repeated, NameAt
<1>5. reasons' = FoundIn(labels, Len(labels))
                   \cup If(InversionIn(labels, Len(labels)) /\ Repeated(labels), "duplicate_label_name")
                   \cup If(~MetricIn(labels, Len(labels)), "missing_metric_name")
  <2>1. reasons' = reasons
          \cup (If(~inNameOrder /\ (\E i, j \in DOMAIN labels : i < j /\ labels[i].name = labels[j].name),
                   "duplicate_label_name")
                 \cup If(~metricSeen, "missing_metric_name"))
    BY DEF CheckDuplicates, Add
  <2> QED
    BY <1>1, <1>3, <1>4, <2>1 DEF If
<1>6. reasons' = Meaning(labels)
  BY <1>1, <1>5, FoundIsMeant
<1> QED
  BY <1>1, <1>6 DEF IInv, ReasonsExact

LEMMA NextIInv == IInv /\ [Next]_vars => IInv'
<1> SUFFICES ASSUME IInv, [Next]_vars PROVE IInv'
  OBVIOUS
<1>1. CASE UNCHANGED vars
  BY <1>1 DEF vars, IInv, ReasonsExact
<1> QED
  BY <1>1, HashKeepsIInv, CheckCountKeepsIInv, CheckLabelKeepsIInv, CheckDuplicatesKeepsIInv DEF Next

\* For series of any length: the reasons validateSeries arrives at, with its look at neighbours
\* and a search for duplicates only when they are out of order, are exactly those that
\* hold of the labels (inspector.go, validateSeries and hasDuplicateLabelNames).
THEOREM ReasonsAreExact == Spec => []ReasonsExact
<1>1. Init => IInv
  BY InitIInv
<1>2. IInv /\ [Next]_vars => IInv'
  BY NextIInv
<1>3. IInv => ReasonsExact
  BY DEF IInv
<1> QED
  BY <1>1, <1>2, <1>3, PTL DEF Spec

------------------------------------------------------------------------------
(* The order of labels is a strict total order too.                         *)

LEMMA LabelType ==
  ASSUME NEW a \in Label
  PROVE  /\ a = [name |-> a.name, value |-> a.value]
         /\ a.name \in Strings /\ a.value \in Strings
BY StringsAssumption DEF Label, Strings

LEMMA BeforeIrreflexive ==
  ASSUME NEW a \in Label
  PROVE  ~Before(a, a)
BY LabelType, LessIrreflexive DEF Before

LEMMA BeforeTransitive ==
  ASSUME NEW a \in Label, NEW b \in Label, NEW c \in Label, Before(a, b), Before(b, c)
  PROVE  Before(a, c)
<1>1. /\ a.name \in Strings /\ a.value \in Strings /\ b.name \in Strings /\ b.value \in Strings
      /\ c.name \in Strings /\ c.value \in Strings
  BY LabelType
<1>2. Less(a.name, b.name) \/ (a.name = b.name /\ Less(a.value, b.value))
  BY DEF Before
<1>3. Less(b.name, c.name) \/ (b.name = c.name /\ Less(b.value, c.value))
  BY DEF Before
<1>4. CASE Less(a.name, b.name) /\ Less(b.name, c.name)
  BY <1>1, <1>4, LessTransitive DEF Before
<1>5. CASE Less(a.name, b.name) /\ b.name = c.name
  BY <1>5 DEF Before
<1>6. CASE a.name = b.name /\ Less(b.name, c.name)
  BY <1>6 DEF Before
<1>7. CASE a.name = b.name /\ b.name = c.name /\ Less(a.value, b.value) /\ Less(b.value, c.value)
  BY <1>1, <1>7, LessTransitive DEF Before
<1> QED
  BY <1>2, <1>3, <1>4, <1>5, <1>6, <1>7

LEMMA BeforeTotal ==
  ASSUME NEW a \in Label, NEW b \in Label, a # b
  PROVE  Before(a, b) \/ Before(b, a)
<1>1. /\ a = [name |-> a.name, value |-> a.value] /\ b = [name |-> b.name, value |-> b.value]
      /\ a.name \in Strings /\ a.value \in Strings /\ b.name \in Strings /\ b.value \in Strings
  BY LabelType
<1>2. a.name # b.name \/ a.value # b.value
  BY <1>1
<1> QED
  BY <1>1, <1>2, LessTotal DEF Before

\* What is not after one thing is not after what that is not after.
LEMMA NotAfterTransitive ==
  ASSUME NEW a \in Label, NEW b \in Label, NEW c \in Label, ~Before(b, a), ~Before(c, b)
  PROVE  ~Before(c, a)
<1> SUFFICES ASSUME Before(c, a) PROVE FALSE
  OBVIOUS
<1>1. a = b \/ Before(a, b)
  BY BeforeTotal
<1>2. Before(c, b)
  BY <1>1, BeforeTransitive
<1> QED
  BY <1>2

------------------------------------------------------------------------------
(* Sorting.  Any labels can be put in order: by selection, place by place.  *)

\* The labels of ls, moved.
Moved(ls, place) == [i \in 1..Len(ls) |-> ls[place[i]]]

Places(ls) == {place \in [1..Len(ls) -> 1..Len(ls)] : IsInjective(place)}

\* The first k places hold what belongs there.
Selected(ls, place, k) ==
  \A i, j \in 1..Len(ls) : i <= k /\ i < j => ~Before(ls[place[j]], ls[place[i]])

\* There is a first among the labels from some place on.
LEMMA FirstOfTheRest ==
  ASSUME NEW n \in Nat, NEW a, \A i \in 1..n : a[i] \in Label, NEW k \in 1..n
  PROVE  \E m \in k..n : \A j \in k..n : ~Before(a[j], a[m])
<1> DEFINE Up(d) == \E m \in k..(k + d) : \A j \in k..(k + d) : ~Before(a[j], a[m])
           S == {d \in Nat : k + d <= n => Up(d)}
<1>1. 0 \in S
  <2>1. k \in k..(k + 0) /\ \A j \in k..(k + 0) : j = k
    OBVIOUS
  <2> QED
    BY <2>1, BeforeIrreflexive
<1>2. ASSUME NEW d \in Nat, d \in S PROVE d + 1 \in S
  <2> SUFFICES ASSUME k + (d + 1) <= n PROVE Up(d + 1)
    OBVIOUS
  <2>1. PICK m \in k..(k + d) : \A j \in k..(k + d) : ~Before(a[j], a[m])
    BY <1>2
  <2> DEFINE e == k + (d + 1)
  <2>2. /\ e \in k..e /\ m \in k..e /\ e \in 1..n /\ m \in 1..n
        /\ \A j \in k..e : j = e \/ j \in k..(k + d)
        /\ \A j \in k..(k + d) : j \in 1..n
    BY <2>1
  <2>3. a[e] \in Label /\ a[m] \in Label
    BY <2>2
  <2> HIDE DEF e
  <2>4. CASE Before(a[e], a[m])
    <3>1. ASSUME NEW j \in k..e PROVE ~Before(a[j], a[e])
      <4>1. CASE j = e
        BY <2>3, <4>1, BeforeIrreflexive
      <4>2. CASE j \in k..(k + d)
        <5>1. a[j] \in Label /\ ~Before(a[j], a[m])
          BY <2>1, <2>2, <4>2
        <5> QED
          BY <2>3, <2>4, <5>1, BeforeTransitive
      <4> QED
        BY <2>2, <4>1, <4>2
    <3> QED
      BY <2>2, <3>1 DEF e
  <2>5. CASE ~Before(a[e], a[m])
    <3>1. ASSUME NEW j \in k..e PROVE ~Before(a[j], a[m])
      BY <2>1, <2>2, <2>5
    <3> QED
      BY <2>2, <3>1 DEF e
  <2> QED
    BY <2>4, <2>5
<1>3. S = Nat
  <2> HIDE DEF S
  <2>1. S \subseteq Nat
    BY DEF S
  <2> QED
    BY <1>1, <1>2, <2>1, NaturalInduction
<1>4. n - k \in Nat /\ k + (n - k) = n
  OBVIOUS
<1>5. Up(n - k)
  <2>1. n - k \in S
    BY <1>3, <1>4
  <2> HIDE DEF Up
  <2> QED
    BY <1>4, <2>1
<1>6. k..(k + (n - k)) = k..n
  BY <1>4
<1> QED
  BY <1>5, <1>6

\* Every selection is followed by another, by swapping what is first of the rest into place.
LEMMA SelectOne ==
  ASSUME NEW ls \in Series, NEW k \in Nat, k < Len(ls), NEW place \in Places(ls),
         Selected(ls, place, k)
  PROVE  \E other \in Places(ls) : Selected(ls, other, k + 1)
<1> DEFINE n == Len(ls)
           a == [i \in 1..n |-> ls[place[i]]]
<1>1. /\ n \in Nat /\ place \in [1..n -> 1..n]
      /\ \A i, j \in 1..n : place[i] = place[j] => i = j
  BY SeriesType DEF Places, IsInjective
<1>2. \A i \in 1..n : a[i] = ls[place[i]] /\ a[i] \in Label
  BY <1>1, SeriesType
<1>3. k + 1 \in 1..n
  BY <1>1
<1>4. PICK m \in (k + 1)..n : \A j \in (k + 1)..n : ~Before(a[j], a[m])
  <2> HIDE DEF a, n
  <2> QED
    BY <1>1, <1>2, <1>3, FirstOfTheRest
<1> DEFINE swap == [i \in 1..n |-> IF i = k + 1 THEN m ELSE IF i = m THEN k + 1 ELSE i]
           other == [i \in 1..n |-> place[swap[i]]]
<1>5. /\ m \in 1..n
      /\ swap \in [1..n -> 1..n] /\ swap[k + 1] = m
      /\ \A i, j \in 1..n : swap[i] = swap[j] => i = j
      /\ \A i \in 1..n : i <= k => swap[i] = i
      /\ \A i \in 1..n : i > k => swap[i] > k
  BY <1>1, <1>3, <1>4
<1> HIDE DEF swap, a
<1>6. other \in [1..n -> 1..n] /\ \A i \in 1..n : other[i] = place[swap[i]]
  BY <1>1, <1>5
<1>7. other \in Places(ls)
  <2>1. ASSUME NEW i \in 1..n, NEW j \in 1..n, other[i] = other[j] PROVE i = j
    BY <1>1, <1>5, <1>6, <2>1
  <2> HIDE DEF other
  <2> QED
    BY <1>6, <2>1 DEF Places, IsInjective
<1> HIDE DEF other
<1>8. ASSUME NEW i \in 1..n, NEW j \in 1..n, i <= k + 1, i < j
      PROVE  ~Before(ls[other[j]], ls[other[i]])
  <2>1. /\ swap[i] \in 1..n /\ swap[j] \in 1..n
        /\ ls[other[i]] = a[swap[i]] /\ ls[other[j]] = a[swap[j]]
    BY <1>2, <1>5, <1>6
  <2>2. CASE i = k + 1
    <3>1. swap[i] = m /\ swap[j] \in (k + 1)..n
      BY <1>1, <1>5, <1>8, <2>1, <2>2
    <3> QED
      BY <1>4, <2>1, <3>1
  <2>3. CASE i <= k
    <3>1. swap[i] = i /\ i < swap[j]
      BY <1>1, <1>5, <1>8, <2>1, <2>3
    <3> QED
      BY <1>2, <2>1, <2>3, <3>1 DEF Selected
  <2> QED
    BY <1>1, <1>8, <2>2, <2>3
<1>9. Selected(ls, other, k + 1)
  BY <1>8 DEF Selected
<1> QED
  BY <1>7, <1>9

LEMMA SomePlacesAreInOrder ==
  ASSUME NEW ls \in Series
  PROVE  \E place \in Places(ls) :
           \A i, j \in 1..Len(ls) : i < j => ~Before(ls[place[j]], ls[place[i]])
<1> DEFINE Can(k) == \E place \in Places(ls) : Selected(ls, place, k)
           S == {k \in Nat : k <= Len(ls) => Can(k)}
<1>1. Len(ls) \in Nat
  BY SeriesType
<1>2. 0 \in S
  <2> DEFINE same == [i \in 1..Len(ls) |-> i]
  <2>1. same \in Places(ls)
    BY DEF Places, IsInjective
  <2>2. Selected(ls, same, 0)
    BY <1>1 DEF Selected
  <2> QED
    BY <2>1, <2>2
<1>3. ASSUME NEW k \in Nat, k \in S PROVE k + 1 \in S
  <2> SUFFICES ASSUME k + 1 <= Len(ls) PROVE Can(k + 1)
    OBVIOUS
  <2>1. k < Len(ls) /\ Can(k)
    BY <1>1, <1>3
  <2> QED
    BY <2>1, SelectOne
<1>4. S = Nat
  <2>1. S \subseteq Nat
    BY DEF S
  <2> HIDE DEF S
  <2> QED
    BY <1>2, <1>3, <2>1, NaturalInduction
<1>5. Can(Len(ls))
  BY <1>1, <1>4
<1>6. PICK place \in Places(ls) : Selected(ls, place, Len(ls))
  BY <1>5
<1> QED
  BY <1>1, <1>6 DEF Selected

\* Neighbours in order are all in order.
LEMMA OrderAcross ==
  ASSUME NEW n \in Nat, NEW a, \A i \in 1..n : a[i] \in Label,
         \A i \in 2..n : ~Before(a[i], a[i - 1])
  PROVE  \A i, j \in 1..n : i < j => ~Before(a[j], a[i])
<1> SUFFICES ASSUME NEW i \in 1..n PROVE \A j \in 1..n : i < j => ~Before(a[j], a[i])
  OBVIOUS
<1> DEFINE S == {d \in Nat : i + d <= n => ~Before(a[i + d], a[i])}
<1>1. 0 \in S
  BY BeforeIrreflexive
<1>2. ASSUME NEW d \in Nat, d \in S PROVE d + 1 \in S
  <2> SUFFICES ASSUME i + (d + 1) <= n PROVE ~Before(a[i + (d + 1)], a[i])
    OBVIOUS
  <2>1. i + (d + 1) \in 2..n /\ (i + (d + 1)) - 1 = i + d /\ i + d \in 1..n
        /\ i + (d + 1) \in 1..n
    OBVIOUS
  <2>2. ~Before(a[i + d], a[i]) /\ ~Before(a[i + (d + 1)], a[i + d])
    BY <1>2, <2>1
  <2> QED
    BY <2>1, <2>2, NotAfterTransitive
<1>3. S = Nat
  <2>1. S \subseteq Nat
    BY DEF S
  <2> HIDE DEF S
  <2> QED
    BY <1>1, <1>2, <2>1, NaturalInduction
<1>4. ASSUME NEW j \in 1..n, i < j PROVE ~Before(a[j], a[i])
  <2>1. j - i \in Nat /\ i + (j - i) = j /\ j <= n
    BY <1>4
  <2>2. j - i \in S
    BY <1>3, <2>1
  <2> QED
    BY <2>1, <2>2
<1> QED
  BY <1>4

\* The labels in the order in which they are hashed.
Canonical(ls) == IF InCanonicalOrder(ls) THEN ls ELSE sortedPairs(ls)

LEMMA CanonicalIsMoved ==
  ASSUME NEW ls \in Series
  PROVE  /\ \A i, j \in 1..Len(ls) : i < j => ~Before(Canonical(ls)[j], Canonical(ls)[i])
         /\ \E place \in Places(ls) : Canonical(ls) = Moved(ls, place)
<1>1. /\ Len(ls) \in Nat /\ DOMAIN ls = 1..Len(ls)
      /\ \A i \in 1..Len(ls) : ls[i] \in Label
  BY SeriesType
<1>2. ASSUME NEW place \in Places(ls)
      PROVE  /\ \A i \in 1..Len(ls) : Moved(ls, place)[i] = ls[place[i]] /\ ls[place[i]] \in Label
             /\ Len(Moved(ls, place)) = Len(ls)
  <2>1. place \in [1..Len(ls) -> 1..Len(ls)]
    BY DEF Places
  <2>2. \A i \in 1..Len(ls) : Moved(ls, place)[i] = ls[place[i]] /\ ls[place[i]] \in Label
    BY <1>1, <2>1 DEF Moved
  <2>3. DOMAIN Moved(ls, place) = 1..Len(ls) /\ Moved(ls, place) \in Seq(Label)
    BY <1>1, <2>1 DEF Moved
  <2>4. Len(Moved(ls, place)) = Len(ls)
    <3>1. DOMAIN Moved(ls, place) = 1..Len(Moved(ls, place)) /\ Len(Moved(ls, place)) \in Nat
      BY <2>3, ElementOf
    <3> QED
      BY <1>1, <2>3, <3>1
  <2> QED
    BY <2>2, <2>4
<1>3. CASE InCanonicalOrder(ls)
  <2> DEFINE same == [i \in 1..Len(ls) |-> i]
  <2>1. same \in Places(ls)
    BY DEF Places, IsInjective
  <2>2. ls = [i \in 1..Len(ls) |-> ls[i]]
    <3>1. PICK n \in 0..MaxLen : ls \in [1..n -> Label]
      BY DEF Series
    <3> QED
      BY <1>1, <3>1
  <2>3. Moved(ls, same) = ls
    BY <2>2 DEF Moved
  <2>4. \A i \in 2..Len(ls) : ~Before(ls[i], ls[i - 1])
    BY <1>3 DEF InCanonicalOrder
  <2>5. \A i, j \in 1..Len(ls) : i < j => ~Before(ls[j], ls[i])
    BY <1>1, <2>4, OrderAcross
  <2> HIDE DEF same
  <2> QED
    BY <1>3, <2>1, <2>3, <2>5 DEF Canonical
<1>4. CASE ~InCanonicalOrder(ls)
  <2> DEFINE InOrder(place) == InCanonicalOrder(Moved(ls, place)) /\ IsInjective(place)
             best == CHOOSE place \in [DOMAIN ls -> DOMAIN ls] : InOrder(place)
  <2>1. sortedPairs(ls) = Moved(ls, best)
    BY <1>1 DEF sortedPairs, Moved
  <2>2. \E place \in [DOMAIN ls -> DOMAIN ls] : InOrder(place)
    <3>1. PICK place \in Places(ls) :
            \A i, j \in 1..Len(ls) : i < j => ~Before(ls[place[j]], ls[place[i]])
      BY SomePlacesAreInOrder
    <3>2. ASSUME NEW i \in 2..Len(Moved(ls, place))
          PROVE  ~Before(Moved(ls, place)[i], Moved(ls, place)[i - 1])
      <4>1. i \in 1..Len(ls) /\ i - 1 \in 1..Len(ls) /\ i - 1 < i
        BY <1>1, <1>2, <3>2
      <4> QED
        BY <1>2, <3>1, <4>1
    <3>3. InCanonicalOrder(Moved(ls, place))
      BY <3>2 DEF InCanonicalOrder
    <3> QED
      BY <1>1, <3>3 DEF Places
  <2>3. best \in [DOMAIN ls -> DOMAIN ls] /\ InOrder(best)
    <3> HIDE DEF InOrder
    <3> QED
      BY <2>2
  <2>4. best \in Places(ls)
    BY <1>1, <2>3 DEF Places
  <2> HIDE DEF best
  <2> DEFINE c == Moved(ls, best)
  <2>5. \A i \in 2..Len(ls) : ~Before(c[i], c[i - 1])
    BY <1>2, <2>3, <2>4 DEF InCanonicalOrder
  <2>6. \A i \in 1..Len(ls) : c[i] \in Label
    BY <1>2, <2>4
  <2> HIDE DEF c
  <2>7. \A i, j \in 1..Len(ls) : i < j => ~Before(c[j], c[i])
    BY <1>1, <2>5, <2>6, OrderAcross
  <2>8. Canonical(ls) = c
    BY <1>4, <2>1 DEF Canonical, c
  <2> QED
    BY <2>4, <2>7, <2>8 DEF c
<1> QED
  BY <1>3, <1>4

\* Moving labels makes them neither more nor fewer.
LEMMA MovedType ==
  ASSUME NEW ls \in Series, NEW place \in Places(ls)
  PROVE  LET c == Moved(ls, place) IN
         /\ c \in Series /\ Len(c) = Len(ls) /\ DOMAIN c = 1..Len(ls)
         /\ \A i \in 1..Len(ls) : place[i] \in 1..Len(ls) /\ c[i] = ls[place[i]]
         /\ \A k \in 1..Len(ls) : \E i \in 1..Len(ls) : place[i] = k
<1> DEFINE n == Len(ls)
           c == Moved(ls, place)
<1>1. /\ n \in Nat /\ DOMAIN ls = 1..n /\ \A i \in 1..n : ls[i] \in Label
      /\ place \in [1..n -> 1..n] /\ IsInjective(place)
  BY SeriesType DEF Places
<1>2. n <= MaxLen
  <2>1. PICK m \in 0..MaxLen : ls \in [1..m -> Label]
    BY DEF Series
  <2>2. m \in Nat /\ DOMAIN ls = 1..m
    BY <2>1, LimitsAssumption
  <2>3. m = n
    <3> HIDE DEF n
    <3>1. \A k \in Int : k \in 1..m <=> k \in 1..n
      BY <1>1, <2>2
    <3>2. m \in 1..m \/ m = 0
      BY <2>2
    <3>3. n \in 1..n \/ n = 0
      BY <1>1
    <3> QED
      BY <1>1, <2>2, <3>1, <3>2, <3>3
  <2> QED
    BY <2>1, <2>3, LimitsAssumption
<1>3. c \in [1..n -> Label] /\ \A i \in 1..n : c[i] = ls[place[i]]
  BY <1>1 DEF Moved
<1> HIDE DEF c
<1>4. c \in Series
  BY <1>1, <1>2, <1>3, LimitsAssumption DEF Series
<1>5. Len(c) = n
  <2>1. DOMAIN c = 1..Len(c) /\ Len(c) \in Nat
    BY <1>4, SeriesType
  <2> QED
    BY <1>1, <1>3, <2>1
<1>6. \A k \in 1..n : \E i \in 1..n : place[i] = k
  <2>1. IsFiniteSet(1..n)
    BY <1>1, FS_Interval
  <2>2. place \in Injection(1..n, 1..n)
    BY <1>1 DEF Injection
  <2>3. place \in Surjection(1..n, 1..n)
    BY <2>1, <2>2, FS_Injection
  <2> QED
    BY <2>3 DEF Surjection
<1> QED
  BY <1>1, <1>3, <1>4, <1>5, <1>6 DEF c

LEMMA OccurrencesKept ==
  ASSUME NEW ls \in Series, NEW place \in Places(ls), NEW l
  PROVE  Occurrences(Moved(ls, place), l) = Occurrences(ls, l)
<1> DEFINE n == Len(ls)
           c == Moved(ls, place)
           A == {i \in 1..n : c[i] = l}
           B == {i \in 1..n : ls[i] = l}
           f == [i \in A |-> place[i]]
<1>1. /\ n \in Nat /\ DOMAIN ls = 1..n /\ DOMAIN c = 1..n
      /\ \A i \in 1..n : place[i] \in 1..n /\ c[i] = ls[place[i]]
      /\ \A k \in 1..n : \E i \in 1..n : place[i] = k
      /\ \A i, j \in 1..n : place[i] = place[j] => i = j
  <2>1. /\ DOMAIN c = 1..n
        /\ \A i \in 1..n : place[i] \in 1..n /\ c[i] = ls[place[i]]
        /\ \A k \in 1..n : \E i \in 1..n : place[i] = k
    BY MovedType
  <2>2. \A i, j \in 1..n : place[i] = place[j] => i = j
    BY DEF Places, IsInjective
  <2>3. n \in Nat /\ DOMAIN ls = 1..n
    BY SeriesType
  <2> QED
    BY <2>1, <2>2, <2>3
<1> HIDE DEF c, n
<1>2. f \in Bijection(A, B)
  <2>1. f \in [A -> B] /\ IsInjective(f)
    BY <1>1 DEF IsInjective
  <2>2. ASSUME NEW k \in B PROVE \E i \in A : f[i] = k
    <3>1. k \in 1..n /\ ls[k] = l
      BY <2>2
    <3>2. PICK i \in 1..n : place[i] = k
      BY <1>1, <3>1
    <3>3. i \in A /\ f[i] = k
      BY <1>1, <3>1, <3>2
    <3> QED
      BY <3>3
  <2> HIDE DEF f, A, B
  <2> QED
    BY <2>1, <2>2 DEF Bijection, Injection, Surjection
<1>3. IsFiniteSet(A)
  <2>1. IsFiniteSet(1..n) /\ A \subseteq 1..n
    BY <1>1, FS_Interval
  <2> HIDE DEF A
  <2> QED
    BY <2>1, FS_Subset
<1>4. Cardinality(A) = Cardinality(B)
  <2> HIDE DEF A, B, f
  <2> QED
    BY <1>2, <1>3, FS_Bijection DEF ExistsBijection
<1>5. Occurrences(c, l) = Cardinality(A) /\ Occurrences(ls, l) = Cardinality(B)
  BY <1>1 DEF Occurrences
<1> QED
  BY <1>4, <1>5 DEF c

------------------------------------------------------------------------------
(* What is written.  The fields, names and values in turn, lie one behind   *)
(* the other, each with a NUL at its end.                                   *)

\* A flattened sequence is built up piece by piece.
LEMMA FlattenStepByStep ==
  ASSUME NEW s, NEW n \in Nat \ {0}, Len(s) = n
  PROVE  \E f : /\ FlattenSeq(s) = f[n] /\ f[1] = s[1]
                /\ \A i \in 2..n : f[i] = f[i - 1] \o s[i]
<1> DEFINE Next1(f, i) == IF i = 1 THEN s[i] ELSE f[i - 1] \o s[i]
           Flat(f, m) == f = [i \in 1..m |-> Next1(f, i)]
           S == {m \in Nat : \E f : Flat(f, m)}
<1>1. 0 \in S
  <2> DEFINE e == [i \in {} |-> 0]
  <2>1. e = [i \in 1..0 |-> Next1(e, i)]
    OBVIOUS
  <2> QED
    BY <2>1
<1>2. ASSUME NEW m \in Nat, m \in S PROVE m + 1 \in S
  <2>1. PICK f : Flat(f, m)
    BY <1>2
  <2> DEFINE g == [i \in 1..(m + 1) |-> IF i = m + 1 THEN Next1(f, i) ELSE f[i]]
             h == [i \in 1..(m + 1) |-> Next1(g, i)]
  <2>2. ASSUME NEW i \in 1..(m + 1) PROVE g[i] = Next1(g, i)
    <3>1. CASE i = 1 /\ i = m + 1
      BY <3>1
    <3>2. CASE i = 1 /\ i # m + 1
      <4>1. i \in 1..m /\ f[i] = s[i]
        BY <2>1, <3>2
      <4> QED
        BY <3>2, <4>1
    <3>3. CASE i # 1 /\ i = m + 1
      <4>1. i - 1 \in 1..(m + 1) /\ i - 1 # m + 1
        BY <3>3
      <4> QED
        BY <3>3, <4>1
    <3>4. CASE i # 1 /\ i # m + 1
      <4>1. i - 1 \in 1..(m + 1) /\ i - 1 # m + 1 /\ i \in 1..m
        BY <3>4
      <4>2. f[i] = f[i - 1] \o s[i]
        BY <2>1, <3>4, <4>1
      <4>3. g[i - 1] = f[i - 1] /\ g[i] = f[i]
        BY <3>4, <4>1
      <4> QED
        BY <3>4, <4>2, <4>3
    <3> QED
      BY <3>1, <3>2, <3>3, <3>4
  <2>3. g = h
    <3>1. \A i \in 1..(m + 1) : h[i] = Next1(g, i)
      OBVIOUS
    <3>2. DOMAIN g = 1..(m + 1) /\ DOMAIN h = 1..(m + 1)
          /\ g = [i \in 1..(m + 1) |-> g[i]] /\ h = [i \in 1..(m + 1) |-> h[i]]
      OBVIOUS
    <3> HIDE DEF g, h
    <3> QED
      BY <2>2, <3>1, <3>2
  <2>4. Flat(g, m + 1)
    BY <2>3
  <2> HIDE DEF Flat, g
  <2> QED
    BY <2>4
<1>3. S = Nat
  <2>1. S \subseteq Nat
    BY DEF S
  <2> HIDE DEF S
  <2> QED
    BY <1>1, <1>2, <2>1, NaturalInduction
<1> DEFINE flat == CHOOSE f : Flat(f, n)
<1>4. Flat(flat, n)
  <2>1. \E f : Flat(f, n)
    BY <1>3
  <2> HIDE DEF Flat
  <2> QED
    BY <2>1
<1>5. FlattenSeq(s) = flat[n]
  <2>1. n # 0
    OBVIOUS
  <2> QED
    BY <2>1 DEF FlattenSeq
<1> HIDE DEF flat
<1>6. \A i \in 1..n : flat[i] = Next1(flat, i)
  BY <1>4
<1>7. flat[1] = s[1]
  BY <1>6
<1>8. ASSUME NEW i \in 2..n PROVE flat[i] = flat[i - 1] \o s[i]
  <2>1. i \in 1..n /\ i # 1
    OBVIOUS
  <2> QED
    BY <1>6, <2>1
<1> QED
  BY <1>5, <1>7, <1>8

FieldsOf(c) ==
  [m \in 1..(2 * Len(c)) |-> IF m % 2 = 1 THEN c[(m + 1) \div 2].name ELSE c[m \div 2].value]

\* The field lies in the bytes behind from, and its NUL is at to.
Placed(bytes, field, from, to) ==
  /\ field \in Strings
  /\ to = from + Len(field) + 1
  /\ bytes[to] = NUL
  /\ \A j \in 1..Len(field) : bytes[from + j] = field[j]

\* The first m of the fields, with the places where they end.
Laid(bytes, fields, m, ends) ==
  /\ bytes \in Strings
  /\ ends \in [0..m -> Nat] /\ ends[0] = 0 /\ ends[m] = Len(bytes)
  /\ \A k \in 0..m : ends[k] <= Len(bytes)
  /\ \A j, k \in 0..m : j < k => ends[j] < ends[k]
  /\ \A k \in 1..m : Placed(bytes, fields[k], ends[k - 1], ends[k])

LEMMA NothingLaid ==
  ASSUME NEW fields
  PROVE  Laid(<< >>, fields, 0, [k \in 0..0 |-> 0])
<1> DEFINE none == [k \in 0..0 |-> 0]
<1>1. << >> \in Strings /\ Len(<< >>) = 0
  BY DEF Strings
<1>2. none \in [0..0 -> Nat] /\ \A k \in 0..0 : none[k] = 0
  OBVIOUS
<1>3. 0 \in 0..0 /\ \A j, k \in 0..0 : j = k /\ ~(j < k)
  OBVIOUS
<1> HIDE DEF none
<1>4. none[0] = 0
  BY <1>2, <1>3
<1>5. Laid(<< >>, fields, 0, none)
  BY <1>1, <1>2, <1>3, <1>4 DEF Laid
<1> QED
  BY <1>5 DEF none

LEMMA OneMoreField ==
  ASSUME NEW bytes, NEW fields, NEW m \in Nat, NEW ends, Laid(bytes, fields, m, ends),
         NEW field \in Strings, fields[m + 1] = field
  PROVE  LET more == (bytes \o field) \o << NUL >> IN
         Laid(more, fields, m + 1,
              [k \in 0..(m + 1) |-> IF k = m + 1 THEN Len(more) ELSE ends[k]])
<1> DEFINE more == (bytes \o field) \o << NUL >>
           further == [k \in 0..(m + 1) |-> IF k = m + 1 THEN Len(more) ELSE ends[k]]
<1>1. /\ bytes \in Strings /\ ends \in [0..m -> Nat] /\ ends[0] = 0 /\ ends[m] = Len(bytes)
      /\ \A k \in 0..m : ends[k] <= Len(bytes)
      /\ \A j, k \in 0..m : j < k => ends[j] < ends[k]
      /\ \A k \in 1..m : Placed(bytes, fields[k], ends[k - 1], ends[k])
  BY DEF Laid
<1>2. << NUL >> \in Strings /\ Len(<< NUL >>) = 1 /\ << NUL >>[1] = NUL
  BY DEF Strings, NUL
<1>3. /\ bytes \o field \in Strings /\ Len(bytes \o field) = Len(bytes) + Len(field)
      /\ \A i \in 1..(Len(bytes) + Len(field)) :
           (bytes \o field)[i] = IF i <= Len(bytes) THEN bytes[i] ELSE field[i - Len(bytes)]
  BY <1>1, ConcatProperties DEF Strings
<1>4. /\ more \in Strings /\ Len(more) = Len(bytes) + Len(field) + 1
      /\ \A i \in 1..(Len(bytes) + Len(field) + 1) :
           more[i] = IF i <= Len(bytes) + Len(field) THEN (bytes \o field)[i]
                     ELSE << NUL >>[i - (Len(bytes) + Len(field))]
  <2> DEFINE b == bytes \o field
             z == << NUL >>
  <2>1. b \in Seq(0..255) /\ z \in Seq(0..255) /\ Len(z) = 1 /\ Len(b) = Len(bytes) + Len(field)
    BY <1>2, <1>3 DEF Strings
  <2> HIDE DEF b, z
  <2>2. /\ b \o z \in Seq(0..255) /\ Len(b \o z) = Len(b) + 1
        /\ \A i \in 1..(Len(b) + 1) : (b \o z)[i] = IF i <= Len(b) THEN b[i] ELSE z[i - Len(b)]
    <3>1. /\ b \o z \in Seq(0..255) /\ Len(b \o z) = Len(b) + Len(z)
          /\ \A i \in 1..(Len(b) + Len(z)) : (b \o z)[i] = IF i <= Len(b) THEN b[i] ELSE z[i - Len(b)]
      <4>1. b \in Seq(0..255) /\ z \in Seq(0..255)
        BY <2>1
      <4> QED
        BY ONLY <4>1, ConcatProperties
    <3> QED
      BY <2>1, <3>1
  <2> QED
    BY <2>1, <2>2 DEF b, z, Strings
<1>5. Len(bytes) \in Nat /\ Len(field) \in Nat
  BY <1>1, Bytes
<1> HIDE DEF more
<1>6. /\ \A i \in 1..Len(bytes) : more[i] = bytes[i]
      /\ \A j \in 1..Len(field) : more[Len(bytes) + j] = field[j]
      /\ more[Len(more)] = NUL
  <2>1. ASSUME NEW i \in 1..Len(bytes) PROVE more[i] = bytes[i]
    BY <1>3, <1>4, <1>5
  <2>2. ASSUME NEW j \in 1..Len(field) PROVE more[Len(bytes) + j] = field[j]
    <3>1. /\ Len(bytes) + j \in 1..(Len(bytes) + Len(field))
          /\ Len(bytes) + j \in 1..(Len(bytes) + Len(field) + 1)
          /\ ~ (Len(bytes) + j <= Len(bytes)) /\ Len(bytes) + j - Len(bytes) = j
      BY <1>5
    <3> QED
      BY <1>3, <1>4, <3>1
  <2>3. more[Len(more)] = NUL
    <3>1. Len(more) \in 1..(Len(bytes) + Len(field) + 1) /\ ~ (Len(more) <= Len(bytes) + Len(field))
          /\ Len(more) - (Len(bytes) + Len(field)) = 1
      BY <1>4, <1>5
    <3> QED
      BY <1>2, <1>4, <3>1
  <2> QED
    BY <2>1, <2>2, <2>3
<1>7. /\ further \in [0..(m + 1) -> Nat] /\ further[0] = 0 /\ further[m + 1] = Len(more)
      /\ \A k \in 0..m : further[k] = ends[k] /\ ends[k] \in Nat
      /\ 0..(m + 1) = 0..m \cup {m + 1}
  <2>1. Len(more) \in Nat
    BY <1>4, <1>5
  <2>2. /\ 0..(m + 1) = 0..m \cup {m + 1} /\ 0 \in 0..m /\ m + 1 \notin 0..m
        /\ \A k \in 0..m : ends[k] \in Nat
    BY <1>1
  <2>3. \A k \in 0..(m + 1) : further[k] = IF k = m + 1 THEN Len(more) ELSE ends[k]
    OBVIOUS
  <2>4. \A k \in 0..m : further[k] = ends[k] /\ ends[k] \in Nat
    BY <2>2, <2>3
  <2>5. further[m + 1] = Len(more)
    BY <2>2, <2>3
  <2>6. further[0] = 0
    BY <1>1, <2>2, <2>4
  <2>7. further \in [0..(m + 1) -> Nat]
    BY <2>1, <2>2
  <2> QED
    BY <2>2, <2>4, <2>5, <2>6, <2>7
<1> HIDE DEF further
<1>8. ASSUME NEW k \in 0..(m + 1) PROVE further[k] <= Len(more)
  <2>1. Len(bytes) <= Len(more) /\ Len(more) \in Nat
    BY <1>4, <1>5
  <2>2. CASE k = m + 1
    BY <1>7, <2>1, <2>2
  <2>3. CASE k \in 0..m
    BY <1>1, <1>5, <1>7, <2>1, <2>3
  <2> QED
    BY <1>7, <2>2, <2>3
<1>9. ASSUME NEW j \in 0..(m + 1), NEW k \in 0..(m + 1), j < k PROVE further[j] < further[k]
  <2>1. j \in 0..m
    BY <1>9
  <2>2. CASE k = m + 1
    BY <1>1, <1>4, <1>5, <1>7, <2>1, <2>2
  <2>3. CASE k \in 0..m
    BY <1>1, <1>7, <1>9, <2>1, <2>3
  <2> QED
    BY <1>7, <2>2, <2>3
<1>10. ASSUME NEW k \in 1..(m + 1) PROVE Placed(more, fields[k], further[k - 1], further[k])
  <2>1. CASE k = m + 1
    <3>1. further[k - 1] = Len(bytes) /\ further[k] = Len(more) /\ fields[k] = field
      BY <1>1, <1>7, <2>1
    <3> QED
      BY <1>4, <1>6, <3>1 DEF Placed
  <2>2. CASE k \in 1..m
    <3>1. /\ k - 1 \in 0..m /\ k \in 0..m
          /\ further[k - 1] = ends[k - 1] /\ further[k] = ends[k]
          /\ ends[k - 1] \in Nat /\ ends[k] \in Nat /\ ends[k] <= Len(bytes)
      BY <1>1, <1>7, <2>2
    <3>2. /\ fields[k] \in Strings
          /\ ends[k] = ends[k - 1] + Len(fields[k]) + 1
          /\ bytes[ends[k]] = NUL
          /\ \A j \in 1..Len(fields[k]) : bytes[ends[k - 1] + j] = fields[k][j]
      BY <1>1, <2>2 DEF Placed
    <3>3. ends[k] \in 1..Len(bytes)
      <4>1. 0 \in 0..m /\ 0 < k
        BY <2>2
      <4>2. ends[0] < ends[k]
        BY <1>1, <3>1, <4>1
      <4> QED
        BY <1>1, <1>5, <3>1, <4>2
    <3>4. \A j \in 1..Len(fields[k]) : ends[k - 1] + j \in 1..Len(bytes)
      <4>1. Len(fields[k]) \in Nat
        BY <3>2, Bytes
      <4> QED
        BY <1>5, <3>1, <3>2, <4>1
    <3>5. /\ more[ends[k]] = NUL
          /\ \A j \in 1..Len(fields[k]) : more[ends[k - 1] + j] = fields[k][j]
      BY <1>6, <3>2, <3>3, <3>4
    <3> QED
      BY <3>1, <3>2, <3>5 DEF Placed
  <2> QED
    BY <2>1, <2>2
<1>11. Laid(more, fields, m + 1, further)
  BY <1>4, <1>7, <1>8, <1>9, <1>10 DEF Laid
<1> QED
  BY <1>11 DEF more, further

LEMMA LenOfFunction ==
  ASSUME NEW S, NEW f \in Seq(S), NEW n \in Nat, DOMAIN f = 1..n
  PROVE  Len(f) = n
<1>1. Len(f) \in Nat /\ DOMAIN f = 1..Len(f)
  BY ElementOf
<1> DEFINE m == Len(f)
<1> HIDE DEF m
<1>2. m \in Nat /\ \A k \in Int : k \in 1..m <=> k \in 1..n
  BY <1>1 DEF m
<1>3. (m \in 1..m \/ m = 0) /\ (n \in 1..n \/ n = 0)
  BY <1>2
<1>4. m = n
  BY <1>2, <1>3
<1> QED
  BY <1>4 DEF m

\* What is written for a label is its two fields, each with its NUL.
Piece(l) == l.name \o << NUL >> \o l.value \o << NUL >>

LEMMA PieceBehind ==
  ASSUME NEW bytes \in Strings, NEW l \in Label
  PROVE  /\ bytes \o Piece(l) = (((bytes \o l.name) \o << NUL >>) \o l.value) \o << NUL >>
         /\ Piece(l) \in Strings
<1> DEFINE a == l.name
           v == l.value
           z == << NUL >>
<1>0. PICK Byte : Byte = 0..255
  OBVIOUS
<1>1. a \in Seq(Byte) /\ v \in Seq(Byte) /\ z \in Seq(Byte) /\ bytes \in Seq(Byte)
  BY <1>0, LabelType DEF Strings, NUL
<1>2. Piece(l) = ((a \o z) \o v) \o z
  BY DEF Piece
<1> HIDE DEF a, v, z
<1>3. a \o z \in Seq(Byte) /\ (a \o z) \o v \in Seq(Byte) /\ ((a \o z) \o v) \o z \in Seq(Byte)
  <2>1. a \o z \in Seq(Byte)
    BY ONLY <1>1, ConcatProperties
  <2>2. (a \o z) \o v \in Seq(Byte)
    BY ONLY <1>1, <2>1, ConcatProperties
  <2>3. ((a \o z) \o v) \o z \in Seq(Byte)
    BY ONLY <1>1, <2>2, ConcatProperties
  <2> QED
    BY <2>1, <2>2, <2>3
<1>4. \A s, t, u \in Seq(Byte) : s \o (t \o u) = (s \o t) \o u
  BY ONLY ConcatAssociative
<1>5. bytes \o (((a \o z) \o v) \o z) = (bytes \o ((a \o z) \o v)) \o z
  BY ONLY <1>1, <1>3, <1>4, Zenon
<1>6. bytes \o ((a \o z) \o v) = (bytes \o (a \o z)) \o v
  BY ONLY <1>1, <1>3, <1>4, Zenon
<1>7. bytes \o (a \o z) = (bytes \o a) \o z
  BY ONLY <1>1, <1>3, <1>4, Zenon
<1>8. bytes \o Piece(l) = (((bytes \o a) \o z) \o v) \o z
  BY <1>2, <1>5, <1>6, <1>7
<1> QED
  BY <1>0, <1>2, <1>3, <1>8 DEF a, v, z, Strings

\* The fields of a label are two of the fields of the series.
LEMMA FieldsOfLabel ==
  ASSUME NEW c, Len(c) \in Nat, NEW i \in 1..Len(c)
  PROVE  FieldsOf(c)[2 * i - 1] = c[i].name /\ FieldsOf(c)[2 * i] = c[i].value
<1>1. /\ 2 * i - 1 \in 1..(2 * Len(c)) /\ 2 * i \in 1..(2 * Len(c))
      /\ (2 * i - 1) % 2 = 1 /\ (2 * i) % 2 # 1
      /\ ((2 * i - 1) + 1) \div 2 = i /\ (2 * i) \div 2 = i
  OBVIOUS
<1> QED
  BY <1>1 DEF FieldsOf

LEMMA WrittenIsLaid ==
  ASSUME NEW c \in Series
  PROVE  \E ends : Laid(Written(c), FieldsOf(c), 2 * Len(c), ends)
<1> DEFINE n == Len(c)
           fields == FieldsOf(c)
           pieces == [i \in DOMAIN c |-> Piece(c[i])]
<1>1. n \in Nat /\ DOMAIN c = 1..n /\ \A i \in 1..n : c[i] \in Label
  BY SeriesType
<1>2. Written(c) = FlattenSeq(pieces)
  BY DEF Written, Piece
<1>3. /\ pieces \in Seq(Strings) /\ Len(pieces) = n
      /\ \A i \in 1..n : pieces[i] = Piece(c[i]) /\ Piece(c[i]) \in Strings
  <2>1. << >> \in Strings
    BY DEF Strings
  <2>2. \A i \in 1..n : Piece(c[i]) \in Strings
    BY <1>1, <2>1, PieceBehind
  <2>3. pieces \in Seq(Strings) /\ DOMAIN pieces = 1..n
    BY <1>1, <2>2
  <2>4. Len(pieces) = n
    BY <1>1, <2>3, LenOfFunction
  <2> QED
    BY <1>1, <2>2, <2>3, <2>4
<1> HIDE DEF pieces
<1>4. CASE n = 0
  <2>1. Written(c) = << >>
    <3>1. pieces = << >>
      BY <1>3, <1>4, EmptySeq
    <3> QED
      BY <1>2, <1>3, <1>4, <3>1 DEF FlattenSeq
  <2>2. Laid(<< >>, fields, 0, [k \in 0..0 |-> 0])
    BY NothingLaid
  <2> QED
    BY <1>4, <2>1, <2>2
<1>5. CASE n # 0
  <2>1. PICK f : /\ FlattenSeq(pieces) = f[n] /\ f[1] = pieces[1]
                 /\ \A i \in 2..n : f[i] = f[i - 1] \o pieces[i]
    <3>1. n \in Nat \ {0} /\ Len(pieces) = n
      BY <1>1, <1>3, <1>5
    <3> HIDE DEF n
    <3> QED
      BY ONLY <3>1, FlattenStepByStep
  <2> DEFINE sofar == [k \in 0..n |-> IF k = 0 THEN << >> ELSE f[k]]
             Done(k) == \E ends : Laid(sofar[k], fields, 2 * k, ends)
             S == {k \in Nat : k <= n => Done(k)}
  <2>2. /\ sofar[0] = << >> /\ sofar[n] = Written(c)
        /\ \A k \in 1..n : sofar[k] = sofar[k - 1] \o Piece(c[k])
    <3>1. sofar[0] = << >>
      BY <1>1
    <3>2. sofar[n] = Written(c)
      BY <1>1, <1>2, <1>5, <2>1
    <3>3. ASSUME NEW k \in 1..n PROVE sofar[k] = sofar[k - 1] \o Piece(c[k])
      <4>1. CASE k = 1
        <5>1. << >> \o Piece(c[1]) = Piece(c[1])
          BY <1>3, <4>1, ConcatEmptySeq DEF Strings
        <5>2. sofar[1] = Piece(c[1])
          <6>1. 1 \in 0..n /\ 1 \in 1..n /\ sofar[1] = f[1]
            BY <1>1, <4>1
          <6> QED
            BY <1>3, <2>1, <6>1
        <5>3. k - 1 = 0
          BY <4>1
        <5> HIDE DEF sofar
        <5> QED
          BY <3>1, <4>1, <5>1, <5>2, <5>3
      <4>2. CASE k # 1
        <5>1. k \in 2..n /\ k - 1 \in 0..n /\ k - 1 # 0 /\ k \in 0..n /\ k # 0
          BY <4>2
        <5>2. sofar[k] = f[k] /\ sofar[k - 1] = f[k - 1]
          BY <5>1
        <5> HIDE DEF sofar
        <5> QED
          BY <1>3, <2>1, <5>1, <5>2
      <4> QED
        BY <4>1, <4>2
    <3> QED
      BY <3>1, <3>2, <3>3
  <2> HIDE DEF sofar
  <2>3. 0 \in S
    <3>1. Laid(sofar[0], fields, 2 * 0, [k \in 0..0 |-> 0])
      BY <2>2, NothingLaid
    <3> QED
      BY <3>1
  <2>4. ASSUME NEW k \in Nat, k \in S PROVE k + 1 \in S
    <3> SUFFICES ASSUME k + 1 <= n PROVE Done(k + 1)
      OBVIOUS
    <3>1. PICK ends : Laid(sofar[k], fields, 2 * k, ends)
      BY <1>1, <2>4
    <3> DEFINE l == c[k + 1]
               bytes == sofar[k]
               half == (bytes \o l.name) \o << NUL >>
               whole == (half \o l.value) \o << NUL >>
    <3>2. /\ k + 1 \in 1..n /\ (k + 1) - 1 = k /\ l \in Label
          /\ l.name \in Strings /\ l.value \in Strings /\ bytes \in Strings
      BY <1>1, <3>1, LabelType DEF Laid
    <3>3. /\ fields[2 * k + 1] = l.name /\ fields[(2 * k + 1) + 1] = l.value
      <4>1. 2 * (k + 1) - 1 = 2 * k + 1 /\ 2 * (k + 1) = (2 * k + 1) + 1
        OBVIOUS
      <4>2. fields[2 * (k + 1) - 1] = l.name /\ fields[2 * (k + 1)] = l.value
        BY <1>1, <3>2, FieldsOfLabel
      <4> QED
        BY <4>1, <4>2
    <3>4. sofar[k + 1] = whole
      <4>1. bytes \o Piece(l) = whole
        BY <3>2, PieceBehind
      <4> QED
        BY <2>2, <3>2, <4>1
    <3> HIDE DEF l, bytes, fields
    <3>5. \E e : Laid(half, fields, 2 * k + 1, e)
      <4>1. 2 * k \in Nat /\ Laid(bytes, fields, 2 * k, ends)
        BY <3>1 DEF bytes
      <4> QED
        BY <3>2, <3>3, <4>1, OneMoreField
    <3>6. PICK e : Laid(half, fields, 2 * k + 1, e)
      BY <3>5
    <3> HIDE DEF half
    <3>7. \E d : Laid(whole, fields, (2 * k + 1) + 1, d)
      <4>1. 2 * k + 1 \in Nat
        OBVIOUS
      <4> QED
        BY <3>2, <3>3, <3>6, <4>1, OneMoreField
    <3>8. (2 * k + 1) + 1 = 2 * (k + 1)
      OBVIOUS
    <3> HIDE DEF whole
    <3> QED
      BY <3>4, <3>7, <3>8
  <2>5. S = Nat
    <3>1. S \subseteq Nat
      BY DEF S
    <3> HIDE DEF S
    <3> QED
      BY <2>3, <2>4, <3>1, NaturalInduction
  <2>6. Done(n)
    BY <1>1, <2>5
  <2> QED
    BY <2>2, <2>6
<1> QED
  BY <1>4, <1>5

------------------------------------------------------------------------------
(* Reading back.  No NUL lies in a field, so the NULs tell where each ends. *)

NoNUL(fields, m) == \A k \in 1..m : \A j \in 1..Len(fields[k]) : fields[k][j] # NUL

\* What ReadBack reads with.
NULsIn(bytes, i) == {j \in 1..i : bytes[j] = NUL}
NULCount(bytes, i) == Cardinality(NULsIn(bytes, i))
EndOf(bytes, n) ==
  IF n = 0 THEN 0 ELSE CHOOSE i \in DOMAIN bytes : bytes[i] = NUL /\ NULCount(bytes, i) = n
FieldOf(bytes, n) == SubSeq(bytes, EndOf(bytes, n - 1) + 1, EndOf(bytes, n) - 1)

LEMMA ReadBackReads ==
  ASSUME NEW bytes
  PROVE  ReadBack(bytes) =
           [n \in 1..(NULCount(bytes, Len(bytes)) \div 2) |->
              [name |-> FieldOf(bytes, 2 * n - 1), value |-> FieldOf(bytes, 2 * n)]]
BY DEF ReadBack, FieldOf, EndOf, NULCount, NULsIn

LEMMA NULsAreEnds ==
  ASSUME NEW bytes, NEW fields, NEW m \in Nat, NEW ends, Laid(bytes, fields, m, ends),
         NoNUL(fields, m), NEW i \in 1..Len(bytes), bytes[i] = NUL
  PROVE  \E k \in 1..m : ends[k] = i
<1>1. /\ bytes \in Strings /\ ends \in [0..m -> Nat] /\ ends[0] = 0 /\ ends[m] = Len(bytes)
      /\ \A k \in 1..m : Placed(bytes, fields[k], ends[k - 1], ends[k])
  BY DEF Laid
<1>2. Len(bytes) \in Nat
  BY <1>1, Bytes
<1> DEFINE S == {k \in 0..m : i <= ends[k]}
<1>3. S \subseteq Nat /\ m \in S
  BY <1>1, <1>2
<1>4. PICK k \in S : \A q \in S : k <= q
  <2> HIDE DEF S
  <2> QED
    BY <1>3, LeastNatural
<1>5. k \in 1..m /\ k - 1 \in 0..m /\ i <= ends[k]
  BY <1>1, <1>4
<1>6. ends[k - 1] < i
  <2>1. ~ (i <= ends[k - 1])
    BY <1>4, <1>5
  <2> QED
    BY <1>1, <1>5, <2>1
<1>7. /\ ends[k] \in Nat /\ ends[k - 1] \in Nat
      /\ fields[k] \in Strings /\ ends[k] = ends[k - 1] + Len(fields[k]) + 1
      /\ \A j \in 1..Len(fields[k]) : bytes[ends[k - 1] + j] = fields[k][j]
  BY <1>1, <1>5 DEF Placed
<1>8. CASE i # ends[k]
  <2>1. Len(fields[k]) \in Nat
    BY <1>7, Bytes
  <2>2. i - ends[k - 1] \in 1..Len(fields[k]) /\ ends[k - 1] + (i - ends[k - 1]) = i
    BY <1>5, <1>6, <1>7, <1>8, <2>1
  <2>3. bytes[i] = fields[k][i - ends[k - 1]]
    BY <1>7, <2>2
  <2> QED
    BY <1>5, <2>2, <2>3 DEF NoNUL
<1> QED
  BY <1>5, <1>8

LEMMA NULsCounted ==
  ASSUME NEW bytes, NEW fields, NEW m \in Nat, NEW ends, Laid(bytes, fields, m, ends),
         NoNUL(fields, m), NEW k \in 0..m
  PROVE  NULCount(bytes, ends[k]) = k
<1> DEFINE T == NULsIn(bytes, ends[k])
           f == [q \in 1..k |-> ends[q]]
<1>1. /\ bytes \in Strings /\ ends \in [0..m -> Nat] /\ ends[0] = 0
      /\ \A q \in 0..m : ends[q] <= Len(bytes)
      /\ \A j, q \in 0..m : j < q => ends[j] < ends[q]
      /\ \A q \in 1..m : Placed(bytes, fields[q], ends[q - 1], ends[q])
      /\ Len(bytes) \in Nat
  BY Bytes DEF Laid
<1>2. ASSUME NEW q \in 1..k PROVE ends[q] \in T
  <2>1. q \in 1..m /\ q \in 0..m /\ 0 \in 0..m /\ 0 < q /\ (q = k \/ q < k)
    OBVIOUS
  <2>2. ends[q] \in Nat /\ 0 < ends[q] /\ ends[q] <= ends[k] /\ ends[k] \in Nat
    BY <1>1, <2>1
  <2>3. bytes[ends[q]] = NUL
    BY <1>1, <2>1 DEF Placed
  <2> QED
    BY <2>2, <2>3 DEF NULsIn
<1>3. ASSUME NEW i \in T PROVE \E q \in 1..k : ends[q] = i
  <2>1. i \in 1..ends[k] /\ bytes[i] = NUL /\ i \in 1..Len(bytes)
    BY <1>1 DEF NULsIn
  <2>2. PICK q \in 1..m : ends[q] = i
    BY <2>1, NULsAreEnds
  <2>3. ~ (k < q)
    BY <1>1, <2>1, <2>2
  <2> QED
    BY <2>2, <2>3
<1>4. ASSUME NEW p \in 1..k, NEW q \in 1..k, ends[p] = ends[q] PROVE p = q
  <2>1. p \in 0..m /\ q \in 0..m /\ (p < q \/ q < p \/ p = q)
    OBVIOUS
  <2>2. ends[p] \in Nat /\ ends[q] \in Nat
    BY <1>1, <2>1
  <2> QED
    BY <1>1, <1>4, <2>1, <2>2
<1> HIDE DEF T
<1>5. f \in Bijection(1..k, T)
  <2>1. f \in [1..k -> T]
    BY <1>2
  <2>2. IsInjective(f)
    BY <1>4 DEF IsInjective
  <2>3. \A i \in T : \E q \in 1..k : f[q] = i
    BY <1>3
  <2> HIDE DEF f
  <2> QED
    BY <2>1, <2>2, <2>3 DEF Bijection, Injection, Surjection
<1>6. IsFiniteSet(1..k) /\ Cardinality(1..k) = k
  BY FS_Interval
<1>7. Cardinality(T) = k
  <2> HIDE DEF f
  <2> QED
    BY <1>5, <1>6, FS_Bijection DEF ExistsBijection
<1> QED
  BY <1>7 DEF T, NULCount

LEMMA EndsFound ==
  ASSUME NEW bytes, NEW fields, NEW m \in Nat, NEW ends, Laid(bytes, fields, m, ends),
         NoNUL(fields, m), NEW k \in 0..m
  PROVE  EndOf(bytes, k) = ends[k]
<1>1. CASE k = 0
  BY <1>1 DEF EndOf, Laid
<1>2. CASE k # 0
  <2> DEFINE Is(i) == bytes[i] = NUL /\ NULCount(bytes, i) = k
  <2>1. /\ k \in 1..m /\ bytes \in Strings /\ DOMAIN bytes = 1..Len(bytes) /\ Len(bytes) \in Nat
        /\ ends \in [0..m -> Nat] /\ ends[0] = 0 /\ ends[k] <= Len(bytes)
        /\ 0 \in 0..m /\ ends[0] < ends[k]
        /\ Placed(bytes, fields[k], ends[k - 1], ends[k])
    BY <1>2, Bytes DEF Laid
  <2>2. ends[k] \in DOMAIN bytes /\ Is(ends[k])
    <3>1. ends[k] \in DOMAIN bytes
      BY <2>1
    <3>2. NULCount(bytes, ends[k]) = k
      BY NULsCounted
    <3> QED
      BY <2>1, <3>1, <3>2 DEF Placed
  <2>3. ASSUME NEW i \in DOMAIN bytes, Is(i) PROVE i = ends[k]
    <3>1. PICK q \in 1..m : ends[q] = i
      BY <2>1, <2>3, NULsAreEnds
    <3>2. q \in 0..m
      OBVIOUS
    <3>3. NULCount(bytes, ends[q]) = q
      BY <3>2, NULsCounted
    <3> QED
      BY <2>3, <3>1, <3>3
  <2>4. EndOf(bytes, k) = CHOOSE i \in DOMAIN bytes : Is(i)
    BY <1>2 DEF EndOf
  <2> HIDE DEF Is
  <2> QED
    BY <2>2, <2>3, <2>4
<1> QED
  BY <1>1, <1>2

LEMMA FieldsFound ==
  ASSUME NEW bytes, NEW fields, NEW m \in Nat, NEW ends, Laid(bytes, fields, m, ends),
         NoNUL(fields, m), NEW k \in 1..m
  PROVE  FieldOf(bytes, k) = fields[k]
<1> DEFINE a == ends[k - 1]
           field == fields[k]
           n == Len(field)
           r == SubSeq(bytes, a + 1, a + n)
<1>1. /\ bytes \in Strings /\ Len(bytes) \in Nat /\ \A i \in 1..Len(bytes) : bytes[i] \in 0..255
      /\ k \in 0..m /\ k - 1 \in 0..m /\ a \in Nat /\ ends[k] \in Nat /\ ends[k] <= Len(bytes)
      /\ field \in Strings /\ ends[k] = a + n + 1
      /\ \A j \in 1..n : bytes[a + j] = field[j]
  <2>1. /\ bytes \in Strings /\ ends \in [0..m -> Nat]
        /\ \A q \in 0..m : ends[q] <= Len(bytes)
        /\ Placed(bytes, fields[k], ends[k - 1], ends[k])
    BY DEF Laid
  <2>2. Len(bytes) \in Nat /\ \A i \in 1..Len(bytes) : bytes[i] \in 0..255
    BY <2>1, ElementOf DEF Strings
  <2>3. k \in 0..m /\ k - 1 \in 0..m
    OBVIOUS
  <2> QED
    BY <2>1, <2>2, <2>3 DEF Placed
<1>2. n \in Nat
  BY <1>1, Bytes
<1>3. EndOf(bytes, k - 1) = a /\ EndOf(bytes, k) = ends[k]
  BY <1>1, EndsFound
<1>4. FieldOf(bytes, k) = r
  <2> HIDE DEF a, n
  <2>1. ends[k] - 1 = a + n
    BY <1>1, <1>2
  <2> QED
    BY <1>3, <2>1 DEF FieldOf
<1> HIDE DEF a, field, n
<1>5. r \in Strings /\ Len(r) = n /\ \A i \in 1..n : r[i] = bytes[a + i]
  <2>1. \A i \in (a + 1)..(a + n) : bytes[i] \in 0..255
    BY <1>1, <1>2
  <2>2. /\ r \in Seq(0..255)
        /\ Len(r) = IF a + 1 <= a + n THEN (a + n) - (a + 1) + 1 ELSE 0
        /\ \A i \in 1..((a + n) - (a + 1) + 1) : r[i] = bytes[(a + 1) + i - 1]
    <3>1. PICK p \in Int, q \in Int : p = a + 1 /\ q = a + n
      BY <1>1, <1>2
    <3>2. \A i \in p..q : bytes[i] \in 0..255
      BY <2>1, <3>1
    <3>3. /\ SubSeq(bytes, p, q) \in Seq(0..255)
          /\ Len(SubSeq(bytes, p, q)) = IF p <= q THEN q - p + 1 ELSE 0
          /\ \A i \in 1..(q - p + 1) : SubSeq(bytes, p, q)[i] = bytes[p + i - 1]
      BY ONLY <3>2, SubSeqProperties
    <3> QED
      BY <3>1, <3>3
  <2> HIDE DEF r
  <2>3. /\ (a + n) - (a + 1) + 1 = n /\ (a + 1 <= a + n <=> n > 0)
        /\ \A i \in 1..n : (a + 1) + i - 1 = a + i
    BY <1>1, <1>2
  <2> QED
    BY <1>2, <2>2, <2>3 DEF Strings
<1> HIDE DEF r
<1>6. r = field
  <2>1. r = [i \in 1..n |-> r[i]] /\ field = [i \in 1..n |-> field[i]]
    BY <1>1, <1>5, Bytes DEF n
  <2> QED
    BY <1>1, <1>5, <2>1
<1> QED
  BY <1>4, <1>6 DEF field

------------------------------------------------------------------------------
(* The hash.                                                                *)

LEMMA CanonicalType ==
  ASSUME NEW ls \in Series
  PROVE  /\ canonicalHash(ls) = Written(Canonical(ls)) /\ canonicalHash(ls) \in Strings
         /\ Canonical(ls) \in Series
         /\ \E place \in Places(ls) : Canonical(ls) = Moved(ls, place)
<1>1. PICK place \in Places(ls) : Canonical(ls) = Moved(ls, place)
  BY CanonicalIsMoved
<1>2. Canonical(ls) \in Series
  BY <1>1, MovedType
<1>3. canonicalHash(ls) = Written(Canonical(ls))
  BY DEF canonicalHash, Canonical
<1>4. Written(Canonical(ls)) \in Strings
  BY <1>2, WrittenIsLaid DEF Laid
<1> QED
  BY <1>1, <1>2, <1>3, <1>4

NULFree(ls) ==
  \A i \in DOMAIN ls : NUL \notin Range(ls[i].name) \cup Range(ls[i].value)

LEMMA FieldsWithoutNUL ==
  ASSUME NEW c \in Series, NULFree(c)
  PROVE  NoNUL(FieldsOf(c), 2 * Len(c))
<1>1. /\ Len(c) \in Nat /\ DOMAIN c = 1..Len(c)
      /\ \A i \in 1..Len(c) : c[i] \in Label
  BY SeriesType
<1>2. ASSUME NEW s \in Strings, NUL \notin Range(s), NEW j \in 1..Len(s) PROVE s[j] # NUL
  BY <1>2, Bytes DEF Range
<1>3. ASSUME NEW k \in 1..(2 * Len(c)), NEW j \in 1..Len(FieldsOf(c)[k]) PROVE FieldsOf(c)[k][j] # NUL
  <2>1. CASE k % 2 = 1
    <3>1. PICK i \in 1..Len(c) : k = 2 * i - 1
      <4>1. (k + 1) \div 2 \in 1..Len(c) /\ k = 2 * ((k + 1) \div 2) - 1
        BY <1>1, <2>1
      <4> QED
        BY <4>1
    <3>2. FieldsOf(c)[k] = c[i].name /\ c[i].name \in Strings /\ NUL \notin Range(c[i].name)
      BY <1>1, <3>1, FieldsOfLabel, LabelType DEF NULFree
    <3> QED
      BY <1>2, <1>3, <3>2
  <2>2. CASE k % 2 # 1
    <3>1. PICK i \in 1..Len(c) : k = 2 * i
      <4>1. k \div 2 \in 1..Len(c) /\ k = 2 * (k \div 2)
        BY <1>1, <2>2
      <4> QED
        BY <4>1
    <3>2. FieldsOf(c)[k] = c[i].value /\ c[i].value \in Strings /\ NUL \notin Range(c[i].value)
      BY <1>1, <3>1, FieldsOfLabel, LabelType DEF NULFree
    <3> QED
      BY <1>2, <1>3, <3>2
  <2> QED
    BY <2>1, <2>2
<1> QED
  BY <1>3 DEF NoNUL

LEMMA WrittenReadsBack ==
  ASSUME NEW c \in Series, NULFree(c)
  PROVE  ReadBack(Written(c)) = c
<1> DEFINE bytes == Written(c)
           fields == FieldsOf(c)
           n == Len(c)
<1>1. /\ n \in Nat /\ c \in Seq(Label) /\ DOMAIN c = 1..n
      /\ \A i \in 1..n : c[i] = [name |-> c[i].name, value |-> c[i].value]
  <2>1. PICK m \in 0..MaxLen : c \in [1..m -> Label]
    BY DEF Series
  <2>2. m \in Nat
    BY LimitsAssumption
  <2>3. c \in Seq(Label)
    BY <2>1, <2>2
  <2>4. \A i \in 1..n : c[i] \in Label
    BY SeriesType
  <2>5. \A i \in 1..n : c[i] = [name |-> c[i].name, value |-> c[i].value]
    BY <2>4, LabelType
  <2> QED
    BY <2>3, <2>5, SeriesType
<1>2. PICK ends : Laid(bytes, fields, 2 * n, ends)
  BY WrittenIsLaid
<1>3. NoNUL(fields, 2 * n) /\ 2 * n \in Nat
  BY <1>1, FieldsWithoutNUL
<1>4. NULCount(bytes, Len(bytes)) \div 2 = n
  <2>1. 2 * n \in 0..(2 * n) /\ (2 * n) \div 2 = n
    <3>1. n \in Nat
      BY <1>1
    <3> HIDE DEF n
    <3> QED
      BY <3>1
  <2>2. NULCount(bytes, ends[2 * n]) = 2 * n
    <3> DEFINE w == 2 * n
    <3>1. w \in Nat /\ w \in 0..w /\ Laid(bytes, fields, w, ends) /\ NoNUL(fields, w)
      BY <1>2, <1>3, <2>1
    <3> HIDE DEF bytes, fields, n, w
    <3>2. NULCount(bytes, ends[w]) = w
      BY <3>1, NULsCounted
    <3> QED
      BY <3>2 DEF w
  <2>3. ends[2 * n] = Len(bytes)
    BY <1>2 DEF Laid
  <2> QED
    BY <2>1, <2>2, <2>3
<1>5. ASSUME NEW i \in 1..n
      PROVE  FieldOf(bytes, 2 * i - 1) = c[i].name /\ FieldOf(bytes, 2 * i) = c[i].value
  <2>1. 2 * i - 1 \in 1..(2 * n) /\ 2 * i \in 1..(2 * n)
    BY <1>1
  <2>2. FieldOf(bytes, 2 * i - 1) = fields[2 * i - 1] /\ FieldOf(bytes, 2 * i) = fields[2 * i]
    <3> HIDE DEF bytes, fields, n
    <3> QED
      BY <1>2, <1>3, <2>1, FieldsFound
  <2> QED
    BY <1>1, <2>2, FieldsOfLabel
<1>6. ReadBack(bytes) =
        [i \in 1..n |-> [name |-> FieldOf(bytes, 2 * i - 1), value |-> FieldOf(bytes, 2 * i)]]
  BY <1>4, ReadBackReads
<1>7. \A i \in 1..n :
        [name |-> FieldOf(bytes, 2 * i - 1), value |-> FieldOf(bytes, 2 * i)] = c[i]
  BY <1>1, <1>5
<1> HIDE DEF bytes
<1>8. ReadBack(bytes) = [i \in 1..n |-> c[i]]
  BY <1>6, <1>7
<1>9. c = [i \in 1..n |-> c[i]]
  BY <1>1
<1> QED
  BY <1>8, <1>9 DEF bytes

HashInv ==
  /\ labels \in Series
  /\ pc \in {"hash", "count", "labels", "done"}
  /\ pc # "hash" => digest = canonicalHash(labels)

LEMMA HashInvAlways == Spec => []HashInv
<1>1. Init => HashInv
  BY DEF Init, HashInv
<1>2. HashInv /\ [Next]_vars => HashInv'
  BY DEF HashInv, Next, vars, HashSeries, CheckCount, CheckLabel, CheckDuplicates
<1> QED
  BY <1>1, <1>2, PTL DEF Spec

\* The hash identifies the series, for series of any length over any strings without a NUL: what
\* canonicalHash of hash.go writes, sorted when labelsInCanonicalOrder says no, can be
\* read back as the labels in their one order, none lost and none twice.
THEOREM DigestsIdentifySeries == Spec => []DigestIdentifiesSeries
<1>1. ASSUME HashInv PROVE DigestIdentifiesSeries
  <2> SUFFICES ASSUME pc # "hash", NULFree(labels)
               PROVE  LET canonical == ReadBack(digest) IN
                      /\ \A i, j \in DOMAIN canonical : i < j => ~Before(canonical[j], canonical[i])
                      /\ \A l : Occurrences(canonical, l) = Occurrences(labels, l)
    BY DEF DigestIdentifiesSeries, NULFree
  <2> DEFINE c == Canonical(labels)
  <2>1. labels \in Series /\ digest = Written(c) /\ c \in Series
    BY <1>1, CanonicalType DEF HashInv
  <2>2. PICK place \in Places(labels) : c = Moved(labels, place)
    BY <2>1, CanonicalType
  <2>3. /\ DOMAIN c = 1..Len(labels) /\ DOMAIN labels = 1..Len(labels)
        /\ \A i \in 1..Len(labels) : place[i] \in 1..Len(labels) /\ c[i] = labels[place[i]]
    BY <2>1, <2>2, MovedType, SeriesType
  <2>4. NULFree(c)
    BY <2>3 DEF NULFree
  <2>5. ReadBack(digest) = c
    BY <2>1, <2>4, WrittenReadsBack
  <2>6. \A i, j \in DOMAIN c : i < j => ~Before(c[j], c[i])
    BY <2>1, <2>3, CanonicalIsMoved
  <2>7. \A l : Occurrences(c, l) = Occurrences(labels, l)
    BY <2>1, <2>2, OccurrencesKept
  <2> HIDE DEF c
  <2> QED
    BY <2>5, <2>6, <2>7
<1> QED
  BY <1>1, HashInvAlways, PTL

------------------------------------------------------------------------------
(* Types.                                                                   *)

\* What is wrong with a label is never its place.
LEMMA LabelReasonsType ==
  ASSUME NEW l
  PROVE  LabelReasons(l) \subseteq Reasons \ {"out_of_order_labels"}
BY DEF LabelReasons, If, Reasons

\* The loop of validateSeries is one label ahead of the name it remembers, and the flag it returns
\* agrees with the reason it adds; whatever is hashed is a string of bytes.
THEOREM LabelsTypeOK == Spec => []TypeOK
<1> DEFINE TInv == TypeOK /\ labels \in Series
<1>1. Init => TInv
  <2> SUFFICES ASSUME Init PROVE TInv
    OBVIOUS
  <2>1. PICK m \in 0..MaxLen : labels \in [1..m -> Label]
    BY DEF Init, Series
  <2>2. m \in Nat /\ labels \in Seq(Label) /\ DOMAIN labels = 1..m
    BY <2>1, LimitsAssumption
  <2>3. Len(labels) = m
    BY <2>2, LenOfFunction
  <2>4. << >> \in Seq(0..255) /\ 1 \in 1..(Len(labels) + 1)
    BY <2>2, <2>3
  <2>5. Len(labels) <= MaxLen
    BY <2>1, <2>3, LimitsAssumption
  <2>6. inNameOrder <=> "out_of_order_labels" \notin reasons
    BY DEF Init
  <2>7. reasons \subseteq Reasons /\ inNameOrder \in BOOLEAN /\ metricSeen \in BOOLEAN
    BY DEF Init
  <2>8. prevName = IF idx = 1 THEN << >> ELSE labels[idx - 1].name
    BY DEF Init
  <2>9. /\ labels \in Series /\ digest \in Seq(0..255) /\ idx \in 1..(Len(labels) + 1)
        /\ pc \in {"hash", "count", "labels", "done"}
    BY <2>4 DEF Init
  <2> QED
    BY <2>2, <2>5, <2>6, <2>7, <2>8, <2>9 DEF TypeOK
<1>2. TInv /\ [Next]_vars => TInv'
  <2> SUFFICES ASSUME TypeOK, labels \in Series, [Next]_vars PROVE TInv'
    OBVIOUS
  <2>1. Len(labels) \in Nat
    BY SeriesType
  <2>2. CASE HashSeries
    <3>1. digest' \in Seq(0..255)
      BY <2>2, CanonicalType DEF HashSeries, Strings
    <3> QED
      BY <2>2, <3>1 DEF HashSeries, TypeOK
  <2>3. CASE CheckCount
    <3> DEFINE found == If(labels = << >>, "missing_metric_name")
                          \cup If(Len(labels) > MaxLabels, "excessive_label_count")
    <3>1. found \subseteq Reasons \ {"out_of_order_labels"}
      BY DEF If, Reasons
    <3>2. reasons' = reasons \cup found /\ pc' \in {"done", "labels"}
          /\ UNCHANGED << labels, digest, idx, prevName, inNameOrder, metricSeen >>
      BY <2>3 DEF CheckCount, Add
    <3> HIDE DEF found
    <3>3. reasons' \subseteq Reasons
          /\ ("out_of_order_labels" \in reasons' <=> "out_of_order_labels" \in reasons)
      BY <3>1, <3>2 DEF TypeOK
    <3> QED
      BY <3>2, <3>3 DEF TypeOK
  <2>4. CASE CheckLabel
    <3> DEFINE l == labels[idx]
               below == idx > 1 /\ Less(l.name, prevName)
               same == idx > 1 /\ l.name = prevName
               found == LabelReasons(l)
    <3>1. /\ reasons' = reasons \cup (found \cup If(below, "out_of_order_labels")
                                        \cup If(same, "duplicate_label_name"))
          /\ inNameOrder' = (inNameOrder /\ ~below)
          /\ prevName' = l.name /\ idx' = idx + 1
          /\ metricSeen' = (metricSeen \/ l.name = metricNameLabel)
          /\ UNCHANGED << labels, digest, pc >>
      BY <2>4 DEF CheckLabel, Add
    <3>2. found \subseteq Reasons \ {"out_of_order_labels"}
      BY LabelReasonsType
    <3>3. /\ idx \in 1..Len(labels) /\ reasons \subseteq Reasons
          /\ inNameOrder \in BOOLEAN /\ metricSeen \in BOOLEAN
          /\ inNameOrder <=> "out_of_order_labels" \notin reasons
      BY <2>1, <2>4 DEF TypeOK, CheckLabel
    <3>4. idx' \in 1..(Len(labels) + 1) /\ idx' # 1 /\ labels[idx' - 1] = l
      <4>1. idx + 1 \in 1..(Len(labels) + 1) /\ idx + 1 # 1 /\ (idx + 1) - 1 = idx
        BY <2>1, <3>3
      <4> QED
        BY <3>1, <4>1
    <3> HIDE DEF l, below, same, found
    <3>5. reasons' \subseteq Reasons
      BY <3>1, <3>2, <3>3 DEF If, Reasons
    <3>6. "out_of_order_labels" \in reasons' <=> ("out_of_order_labels" \in reasons \/ below)
      BY <3>1, <3>2 DEF If
    <3>7. inNameOrder' \in BOOLEAN /\ metricSeen' \in BOOLEAN
          /\ (inNameOrder' <=> "out_of_order_labels" \notin reasons')
      <4>1. inNameOrder' \in BOOLEAN /\ metricSeen' \in BOOLEAN
        BY <3>1
      <4>2. inNameOrder' <=> (inNameOrder /\ ~below)
        BY <3>1
      <4> QED
        BY <3>3, <3>6, <4>1, <4>2
    <3>8. prevName' = labels[idx' - 1].name
      BY <3>1, <3>4
    <3>9. UNCHANGED << labels, digest, pc >>
      BY <3>1
    <3> QED
      BY <3>4, <3>5, <3>7, <3>8, <3>9 DEF TypeOK
  <2>5. CASE CheckDuplicates
    <3> DEFINE found ==
          If(~inNameOrder /\ (\E i, j \in DOMAIN labels : i < j /\ labels[i].name = labels[j].name),
             "duplicate_label_name")
            \cup If(~metricSeen, "missing_metric_name")
    <3>1. found \subseteq Reasons \ {"out_of_order_labels"}
      BY DEF If, Reasons
    <3>2. reasons' = reasons \cup found /\ pc' = "done"
          /\ UNCHANGED << labels, digest, idx, prevName, inNameOrder, metricSeen >>
      BY <2>5 DEF CheckDuplicates, Add
    <3> HIDE DEF found
    <3>3. reasons' \subseteq Reasons
          /\ ("out_of_order_labels" \in reasons' <=> "out_of_order_labels" \in reasons)
      BY <3>1, <3>2 DEF TypeOK
    <3> QED
      BY <3>2, <3>3 DEF TypeOK
  <2>6. CASE UNCHANGED vars
    BY <2>6 DEF vars, TypeOK
  <2> QED
    BY <2>2, <2>3, <2>4, <2>5, <2>6 DEF Next
<1> QED
  BY <1>1, <1>2, PTL DEF Spec
==============================================================================
