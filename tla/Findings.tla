------------------------------- MODULE Findings -------------------------------
(***************************************************************************)
(* What becomes of a finding: observeBadSample and observeBadSeries of     *)
(* internal/inspector/inspector.go, with the collector of the top series   *)
(* in metrics.go and the sampler of finding logs in diagnostics.go.        *)
(* Handlers report findings concurrently and scrapes read the top series.  *)
(* Both components forget what they hold when a window is over; the        *)
(* collector reads the clock under its mutex, the sampler is given a       *)
(* reading from before.                                                    *)
(***************************************************************************)
EXTENDS Integers, FiniteSets, FiniteSetsExt, Functions

CONSTANTS
  Workers,      \* the goroutines that inspect requests
  Keys,         \* topSeriesKeys; a findingLogKey only adds the kind, which the reason decides
  maxSeries,    \* cfg.TopSeriesSize
  PruneFactor,  \* 50: entries per series to report at which the map is pruned
  KeepFactor,   \* 25: and how many are kept
  Window,       \* cfg.TopSeriesWindow
  firstLimit,   \* cfg.LogFirstExamplesPerWindow
  MaxTime,      \* bound of the model: the clock stops here
  MaxFindings   \* bound of the model: findings reported

ASSUME SizesAssumption ==
  /\ maxSeries \in Nat \ {0} /\ KeepFactor \in Nat \ {0} /\ PruneFactor \in Nat
  /\ PruneFactor >= KeepFactor
ASSUME WindowAssumption == Window \in Nat \ {0} /\ firstLimit \in Nat
ASSUME BoundsAssumption == MaxTime \in Nat /\ MaxFindings \in Nat

VARIABLES
  now,       \* the clock
  top,       \* the collector: windowStart and its entries, topSeriesKey -> count
  sampler,   \* the sampler: windowStart and the keys seen
  worker,    \* where each worker is, its finding and its reading of the clock
  scrape,    \* the last scrape: when, and the entries it reported
  reported,  \* findings begun
  tally,     \* history of the collector's window: how often each key was observed,
             \* when first, and how often the map was pruned
  examples   \* history: first examples logged

vars == << now, top, sampler, worker, scrape, reported, tally, examples >>

Idle == [pc |-> "idle"]
Empty == [k \in {} |-> 0]
NoTally == [observed |-> [k \in Keys |-> 0], since |-> Empty, prunes |-> 0]

Init ==
  /\ now = 0
  /\ top = [windowStart |-> 0, entries |-> Empty]
  /\ sampler = [windowStart |-> 0, seen |-> {}]
  /\ worker = [w \in Workers |-> Idle]
  /\ scrape = [at |-> 0, report |-> Empty]
  /\ reported = 0
  /\ tally = NoTally
  /\ examples = 0

------------------------------------------------------------------------------
(* The collector.                                                           *)

Expired(windowStart, t) == t - windowStart >= Window

resetExpired(t) ==
  IF Expired(top.windowStart, t) THEN [windowStart |-> t, entries |-> Empty] ELSE top

TallyAt(t) == IF Expired(top.windowStart, t) THEN NoTally ELSE tally

Counted(entries, k) ==
  [j \in DOMAIN entries \cup {k} |->
     (IF j \in DOMAIN entries THEN entries[j] ELSE 0) + (IF j = k THEN 1 ELSE 0)]

Keep == maxSeries * KeepFactor
PruneAbove == maxSeries * PruneFactor

\* kept are the first n of the entries by falling count, in any order among equals.
LeadersOf(entries, n, kept) ==
  /\ kept \subseteq DOMAIN entries
  /\ Cardinality(kept) = IF Cardinality(DOMAIN entries) < n THEN Cardinality(DOMAIN entries) ELSE n
  /\ \A k \in kept, j \in DOMAIN entries \ kept : entries[k] >= entries[j]

\* Slips of Pruned: the order is the wrong way round; the limit is one too many.
PrunedFromTheTop(entries, kept) ==
  IF Cardinality(DOMAIN entries) > PruneAbove
  THEN LeadersOf([k \in DOMAIN entries |-> -entries[k]], Keep, kept)
  ELSE kept = DOMAIN entries

PrunedLate(entries, kept) ==
  IF Cardinality(DOMAIN entries) > PruneAbove + 1
  THEN LeadersOf(entries, Keep, kept) ELSE kept = DOMAIN entries

\* kept are the keys that an observation leaves in the map.
Pruned(entries, kept) ==
  IF Cardinality(DOMAIN entries) > PruneAbove
  THEN LeadersOf(entries, Keep, kept) ELSE kept = DOMAIN entries

------------------------------------------------------------------------------
(* A finding is counted, shown to the collector, and perhaps logged.        *)

Report(w, k) ==
  /\ worker[w] = Idle
  /\ reported < MaxFindings
  /\ reported' = reported + 1
  /\ worker' = [worker EXCEPT ![w] = [pc |-> "observe", key |-> k]]
  /\ UNCHANGED << now, top, sampler, scrape, tally, examples >>

\* Observe, under the mutex of the collector.
Observe(w, kept) ==
  LET key == worker[w].key
      reset == resetExpired(now)
      before == TallyAt(now)
      entries == Counted(reset.entries, key)
  IN
  /\ worker[w].pc = "observe"
  /\ Pruned(entries, kept)
  /\ top' = [reset EXCEPT !.entries = Restrict(entries, kept)]
  /\ worker' = [worker EXCEPT ![w].pc = "clock"]
  /\ tally' =
       [ observed |-> [before.observed EXCEPT ![key] = @ + 1],
         since |-> [k \in DOMAIN before.since \cup {key} |->
                      IF k \in DOMAIN before.since THEN before.since[k] ELSE now],
         prunes |-> before.prunes + (IF kept = DOMAIN entries THEN 0 ELSE 1) ]
  /\ UNCHANGED << now, sampler, scrape, reported, examples >>

\* sampleLog reads the clock before ShouldLog takes the mutex of the sampler.
ReadClock(w) ==
  /\ worker[w].pc = "clock"
  /\ worker' = [worker EXCEPT ![w] = [pc |-> "log", key |-> worker[w].key, clock |-> now]]
  /\ UNCHANGED << now, top, sampler, scrape, reported, tally, examples >>

\* Slip of SamplerWindow: a reading far older than the window starts one too.
SamplerWindowEitherWay(t) ==
  IF Expired(sampler.windowStart, t) \/ Expired(t, sampler.windowStart)
  THEN [windowStart |-> t, seen |-> {}] ELSE sampler

SamplerWindow(t) ==
  IF Expired(sampler.windowStart, t) THEN [windowStart |-> t, seen |-> {}] ELSE sampler

\* ShouldLog.  A finding that is no first example may be logged too, by chance, which
\* leaves nothing behind.
ShouldLog(w) ==
  LET s == SamplerWindow(worker[w].clock)
      isFirst == worker[w].key \notin s.seen /\ Cardinality(s.seen) < firstLimit
  IN
  /\ worker[w].pc = "log"
  /\ sampler' = IF isFirst THEN [s EXCEPT !.seen = @ \cup {worker[w].key}] ELSE s
  /\ examples' = IF isFirst THEN examples + 1 ELSE examples
  /\ worker' = [worker EXCEPT ![w] = Idle]
  /\ UNCHANGED << now, top, scrape, reported, tally >>

------------------------------------------------------------------------------
(* A scrape.                                                                *)

\* Slip of Collect: a window that is over is reported.
CollectKeepsWindow(shown) ==
  /\ LeadersOf(top.entries, maxSeries, shown)
  /\ scrape' = [at |-> now, report |-> Restrict(top.entries, shown)]
  /\ UNCHANGED << now, top, sampler, worker, reported, tally, examples >>

\* Collect.  Entries of equal count are ordered by name and fingerprint, and not at all
\* when they differ only in identity or reason: here in any order.
Collect(shown) ==
  LET reset == resetExpired(now) IN
  /\ LeadersOf(reset.entries, maxSeries, shown)
  /\ top' = reset
  /\ scrape' = [at |-> now, report |-> Restrict(reset.entries, shown)]
  /\ tally' = TallyAt(now)
  /\ UNCHANGED << now, sampler, worker, reported, examples >>

Tick ==
  /\ now < MaxTime
  /\ now' = now + 1
  /\ UNCHANGED << top, sampler, worker, scrape, reported, tally, examples >>

Next ==
  \/ \E w \in Workers, k \in Keys : Report(w, k)
  \/ \E w \in Workers, kept \in SUBSET Keys : Observe(w, kept)
  \/ \E w \in Workers : ReadClock(w) \/ ShouldLog(w)
  \/ \E shown \in SUBSET Keys : Collect(shown)
  \/ Tick

Spec == Init /\ [][Next]_vars

------------------------------------------------------------------------------
(* Types.                                                                   *)

Times == 0..MaxTime

Workings ==
  {Idle} \cup [pc : {"observe", "clock"}, key : Keys]
    \cup [pc : {"log"}, key : Keys, clock : Times]

Reports(entries) == DOMAIN entries \subseteq Keys /\ \A k \in DOMAIN entries : entries[k] \in 1..MaxFindings

\* The type invariant, with the sizes: neither the map of the collector nor the set of
\* the sampler grows with the number of series, and no report is longer than asked for.
TypeOK ==
  /\ now \in Times
  /\ top.windowStart \in 0..now /\ Reports(top.entries)
  /\ Cardinality(DOMAIN top.entries) <= PruneAbove
  /\ sampler.windowStart \in 0..now /\ sampler.seen \subseteq Keys
  /\ Cardinality(sampler.seen) <= firstLimit
  /\ worker \in [Workers -> Workings]
  /\ scrape.at \in 0..now /\ Reports(scrape.report)
  /\ Cardinality(DOMAIN scrape.report) <= maxSeries
  /\ reported \in 0..MaxFindings
  /\ tally.observed \in [Keys -> 0..MaxFindings]
  /\ DOMAIN tally.since \subseteq Keys /\ \A k \in DOMAIN tally.since : tally.since[k] \in 0..now
  /\ tally.prunes \in 0..MaxFindings
  /\ examples \in 0..MaxFindings

------------------------------------------------------------------------------
(* Safety.                                                                  *)

\* The count that as many entries as survive a prune have reached.
KeptFloor(entries) ==
  Max({0} \cup {entries[k] : k \in {k \in DOMAIN entries :
                  Cardinality({j \in DOMAIN entries : entries[j] >= entries[k]}) >= Keep}})

\* The most a series can have lost to pruning in the window.
Slack(entries, past) == past.prunes * KeptFloor(entries)

\* What is tracked is never overstated, and understated by no more than the floor for
\* each prune of the window: exact until the first prune, and a series that comes
\* back again and again after being dropped is never far behind its real count.
UndercountBounded ==
  \A k \in Keys :
    LET count == IF k \in DOMAIN top.entries THEN top.entries[k] ELSE 0 IN
    count <= tally.observed[k] /\ tally.observed[k] <= count + Slack(top.entries, tally)

\* A scrape reports the top series: one it leaves out was observed, in the window, no more
\* often than any it reports, but for what pruning lost; it leaves none out while there is
\* room; and it counts no finding of a window ago, however long nobody looked: all it
\* reports was first observed within the last Window.
ScrapeIsTop ==
  [][scrape' # scrape =>
       LET report == scrape'.report IN
       /\ \A k \in Keys \ DOMAIN report :
            /\ \A j \in DOMAIN report :
                 tally'.observed[k] <= report[j] + Slack(top'.entries, tally')
            /\ Cardinality(DOMAIN report) < maxSeries => tally'.observed[k] = 0
       /\ \A k \in DOMAIN report : tally'.since[k] > scrape'.at - Window]_vars

\* First examples are bounded over time: firstLimit for each Window begun, however late
\* the readings of the clock arrive at the sampler.
FirstExamplesBounded == examples <= firstLimit * (now \div Window + 1)
==============================================================================
