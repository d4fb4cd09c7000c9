-------------------------------- MODULE Labels --------------------------------
(***************************************************************************)
(* What an inspection makes of the labels of one series: the canonical     *)
(* hash of internal/inspector/hash.go, by which the detectors know the     *)
(* series, and validateSeries of internal/inspector/inspector.go, a loop   *)
(* over the labels and a second one when they are out of order.  A string  *)
(* is a sequence of bytes, and the hash is what is written to the digest:  *)
(* two digests that collide are not modelled.                              *)
(***************************************************************************)
EXTENDS Integers, Sequences, FiniteSets, SequencesExt

CONSTANTS
  Names, Values,        \* the label names and values there are: sequences of bytes
  metricNameLabel,      \* "__name__"
  LabelNames,           \* the names that match labelNameRE
  MetricNames,          \* the values that match metricNameRE
  MaxLabels,            \* cfg.MaxLabels
  MaxLabelValueLength,  \* cfg.MaxLabelValueLength
  MaxLen                \* bound of the model: labels in a series

NUL == 0

ASSUME StringsAssumption ==
  /\ Names \subseteq Seq(0..255) /\ Values \subseteq Seq(0..255)
  /\ metricNameLabel \in LabelNames /\ LabelNames \subseteq Names \ {<< >>}
  /\ MetricNames \subseteq Values \ {<< >>}
ASSUME LimitsAssumption == MaxLabels \in Nat \ {0} /\ MaxLabelValueLength \in Nat /\ MaxLen \in Nat

VARIABLES
  labels,      \* the labels of the series
  digest,      \* the bytes hashed
  pc,          \* where the inspection is
  idx,         \* the label the loop is at
  prevName, inNameOrder, metricSeen, reasons

vars == << labels, digest, pc, idx, prevName, inNameOrder, metricSeen, reasons >>

Label == [name : Names, value : Values]

Reasons == { "missing_metric_name", "empty_metric_name", "invalid_metric_name",
             "empty_label_name", "invalid_label_name", "duplicate_label_name",
             "out_of_order_labels", "empty_label_value", "excessive_label_value_length",
             "excessive_label_count" }

Series == UNION {[1..n -> Label] : n \in 0..MaxLen}

\* Any series may come.
Init ==
  /\ labels \in Series
  /\ digest = << >>
  /\ pc = "hash"
  /\ idx = 1
  /\ prevName = << >>
  /\ inNameOrder = TRUE
  /\ metricSeen = FALSE
  /\ reasons = {}

------------------------------------------------------------------------------
(* The canonical hash.                                                      *)

\* The order of strings.
Less(s, t) ==
  \/ Len(s) < Len(t) /\ s = SubSeq(t, 1, Len(s))
  \/ \E i \in 1..Len(s) \cap 1..Len(t) : s[i] < t[i] /\ SubSeq(s, 1, i - 1) = SubSeq(t, 1, i - 1)

\* The order of labels: by name, then by value.
Before(a, b) ==
  \/ Less(a.name, b.name)
  \/ a.name = b.name /\ Less(a.value, b.value)

\* Slip of InCanonicalOrder: the values of equal names are not compared.
InCanonicalOrderByName(ls) == \A i \in 2..Len(ls) : ~Less(ls[i].name, ls[i - 1].name)

InCanonicalOrder(ls) == \A i \in 2..Len(ls) : ~Before(ls[i], ls[i - 1])

Written(ls) ==
  FlattenSeq([i \in DOMAIN ls |-> ls[i].name \o << NUL >> \o ls[i].value \o << NUL >>])

\* The labels, moved to where they are in order.
sortedPairs(ls) ==
  LET Moved(place) == [i \in DOMAIN ls |-> ls[place[i]]] IN
  Moved(CHOOSE place \in [DOMAIN ls -> DOMAIN ls] :
          InCanonicalOrder(Moved(place)) /\ IsInjective(place))

canonicalHash(ls) == Written(IF InCanonicalOrder(ls) THEN ls ELSE sortedPairs(ls))

HashSeries ==
  /\ pc = "hash"
  /\ digest' = canonicalHash(labels)
  /\ pc' = "count"
  /\ UNCHANGED << labels, idx, prevName, inNameOrder, metricSeen, reasons >>

------------------------------------------------------------------------------
(* validateSeries.                                                          *)

Add(found) == reasons' = reasons \cup found

If(condition, reason) == IF condition THEN {reason} ELSE {}

CheckCount ==
  /\ pc = "count"
  /\ Add(If(labels = << >>, "missing_metric_name")
           \cup If(Len(labels) > MaxLabels, "excessive_label_count"))
  /\ pc' = IF labels = << >> THEN "done" ELSE "labels"
  /\ UNCHANGED << labels, digest, idx, prevName, inNameOrder, metricSeen >>

\* What is wrong with a label by itself.  The value of a label without a name is not
\* looked at.
LabelReasons(l) ==
  IF l.name = << >> THEN {"empty_label_name"}
  ELSE If(l.name \notin LabelNames, "invalid_label_name")
         \cup If(Len(l.value) > MaxLabelValueLength, "excessive_label_value_length")
         \cup (IF l.name = metricNameLabel
               THEN If(l.value = << >>, "empty_metric_name")
                      \cup If(l.value # << >> /\ l.value \notin MetricNames, "invalid_metric_name")
               ELSE If(l.value = << >>, "empty_label_value"))

\* Slip of CheckLabel: the order found wrong is not remembered.
CheckLabelStaysInOrder ==
  LET l == labels[idx] IN
  /\ pc = "labels"
  /\ idx <= Len(labels)
  /\ Add(LabelReasons(l)
           \cup If(idx > 1 /\ Less(l.name, prevName), "out_of_order_labels")
           \cup If(idx > 1 /\ l.name = prevName, "duplicate_label_name"))
  /\ prevName' = l.name
  /\ metricSeen' = (metricSeen \/ l.name = metricNameLabel)
  /\ idx' = idx + 1
  /\ UNCHANGED << labels, digest, pc, inNameOrder >>

CheckLabel ==
  LET l == labels[idx] IN
  /\ pc = "labels"
  /\ idx <= Len(labels)
  /\ Add(LabelReasons(l)
           \cup If(idx > 1 /\ Less(l.name, prevName), "out_of_order_labels")
           \cup If(idx > 1 /\ l.name = prevName, "duplicate_label_name"))
  /\ inNameOrder' = (inNameOrder /\ ~(idx > 1 /\ Less(l.name, prevName)))
  /\ prevName' = l.name
  /\ metricSeen' = (metricSeen \/ l.name = metricNameLabel)
  /\ idx' = idx + 1
  /\ UNCHANGED << labels, digest, pc >>

\* Labels out of order are searched for duplicates that are not neighbours.
CheckDuplicates ==
  /\ pc = "labels"
  /\ idx > Len(labels)
  /\ Add(If(~inNameOrder /\ (\E i, j \in DOMAIN labels : i < j /\ labels[i].name = labels[j].name),
            "duplicate_label_name")
           \cup If(~metricSeen, "missing_metric_name"))
  /\ pc' = "done"
  /\ UNCHANGED << labels, digest, idx, prevName, inNameOrder, metricSeen >>

Next == HashSeries \/ CheckCount \/ CheckLabel \/ CheckDuplicates

Spec == Init /\ [][Next]_vars

------------------------------------------------------------------------------
(* Types.                                                                   *)

\* The type invariant: the flag agrees with the reason it stands for, and the loop is
\* one label ahead of the name it remembers.
TypeOK ==
  /\ labels \in Seq(Label) /\ Len(labels) <= MaxLen
  /\ digest \in Seq(0..255)
  /\ pc \in {"hash", "count", "labels", "done"}
  /\ idx \in 1..(Len(labels) + 1)
  /\ prevName = IF idx = 1 THEN << >> ELSE labels[idx - 1].name
  /\ inNameOrder \in BOOLEAN /\ metricSeen \in BOOLEAN
  /\ reasons \subseteq Reasons
  /\ inNameOrder <=> "out_of_order_labels" \notin reasons

------------------------------------------------------------------------------
(* Safety.                                                                  *)

\* What the reasons mean, without a loop.
Meaning(ls) ==
  LET named == {i \in DOMAIN ls : ls[i].name # << >>}
      metric == {i \in DOMAIN ls : ls[i].name = metricNameLabel}
  IN
  If(metric = {}, "missing_metric_name")
    \cup If(Len(ls) > MaxLabels, "excessive_label_count")
    \cup If(\E i, j \in DOMAIN ls : i < j /\ ls[i].name = ls[j].name, "duplicate_label_name")
    \cup If(\E i, j \in DOMAIN ls : i < j /\ Less(ls[j].name, ls[i].name), "out_of_order_labels")
    \cup If(named # DOMAIN ls, "empty_label_name")
    \cup If(\E i \in named : ls[i].name \notin LabelNames, "invalid_label_name")
    \cup If(\E i \in named : Len(ls[i].value) > MaxLabelValueLength, "excessive_label_value_length")
    \cup If(\E i \in named \ metric : ls[i].value = << >>, "empty_label_value")
    \cup If(\E i \in metric : ls[i].value = << >>, "empty_metric_name")
    \cup If(\E i \in metric : ls[i].value \notin MetricNames \cup {<< >>}, "invalid_metric_name")

\* Neighbours are compared, and names searched only when out of order; still every
\* duplicate is found wherever it is, every inversion shows between neighbours, and
\* the reasons are exactly those that hold of the series.
ReasonsExact == pc = "done" => reasons = Meaning(labels)

\* The labels that were written, read back from the digest.
ReadBack(bytes) ==
  LET NULsTo(i) == Cardinality({j \in 1..i : bytes[j] = NUL})
      End(n) == IF n = 0 THEN 0
                ELSE CHOOSE i \in DOMAIN bytes : bytes[i] = NUL /\ NULsTo(i) = n
      Field(n) == SubSeq(bytes, End(n - 1) + 1, End(n) - 1)
  IN [n \in 1..(NULsTo(Len(bytes)) \div 2) |->
        [name |-> Field(2 * n - 1), value |-> Field(2 * n)]]

Occurrences(ls, l) == Cardinality({i \in DOMAIN ls : ls[i] = l})

\* The hash identifies the series: what is hashed can be read back as the labels of the
\* series in their one canonical order.  So the order in which a sender lists the
\* labels, equal names among them, makes no difference, and any other
\* difference does, as long as no string contains a NUL.
DigestIdentifiesSeries ==
  pc # "hash" /\ (\A i \in DOMAIN labels : NUL \notin Range(labels[i].name) \cup Range(labels[i].value)) =>
    LET canonical == ReadBack(digest) IN
    /\ \A i, j \in DOMAIN canonical : i < j => ~Before(canonical[j], canonical[i])
    /\ \A l \in Range(labels) \cup Range(canonical) :
         Occurrences(canonical, l) = Occurrences(labels, l)

------------------------------------------------------------------------------
(* What the README says: the top-series gauge "represents exact canonical   *)
(* series", each row by its fingerprint.                                    *)

\* Two series nothing is wrong with have the same fingerprint only if they are the same.
ExactCanonicalSeries ==
  pc = "done" /\ reasons = {} =>
    \A other \in Series : Meaning(other) = {} /\ canonicalHash(other) = digest => other = labels
==============================================================================
