------------------------------ MODULE Inspection ------------------------------
(***************************************************************************)
(* The inspection of decoded requests, inspectReceived of                  *)
(* internal/inspector/inspector.go, with the two stateful detectors and    *)
(* the caches they share.  Handlers inspect concurrently; each reads the   *)
(* clock once to judge its samples, and the caches read it again for every *)
(* look-up.  A handler unwinds when it has to count something under an     *)
(* identity the metrics library refuses.  What the detectors compared and  *)
(* what they reported is kept in history variables.                        *)
(***************************************************************************)
EXTENDS StateCache, Integers, TLC

CONSTANTS
  Workers,        \* the goroutines that inspect requests
  Tenants, Paths, Series, Values,
  Unknown,        \* unknownIdentity
  Requests,       \* the decoded requests
  StaleCutoff, FutureSkew, CacheTTL, CacheSize, DefaultShards,
  DuplicateDetection, CrossPathDetection,  \* the detectors not disabled
  SampleHash,     \* sampleCacheShard, on sampleKeys
  PathHash,       \* pathCacheShard, on pathKeys
  MaxTime,        \* bound of the model: the clock stops here
  MaxRequests,    \* bound of the model: requests inspected
  MaxDelay        \* the longest an inspection takes

Times == 0..MaxTime

SampleKeys == [tenant : Tenants \cup {Unknown}, series : Series, ts : Times]
PathKeys == [tenant : Tenants \cup {Unknown}, series : Series]

Caches == {"sample_conflicts", "cross_path"}

Reasons == { "bad_labels", "cross_path_collision", "diagnostic_writer_id_missing",
             "stale_sample", "future_sample", "duplicate_timestamp_different_value" }

Results == {"ok", "bad_data", "empty"}

\* A series: whether validateSeries objects to its labels, whether it is one of the
\* diagnostic metrics, its float samples and the timestamps of its histograms.
SeriesData == [ series : Series, malformed : BOOLEAN, diagnostic : BOOLEAN,
                samples : Seq([ts : Times, value : Values]), hists : Seq(Times) ]

\* writer: the writer_id of the request, if that identity is configured.
\* valid: whether all its identity values are UTF-8, and so can be values of a metric's labels.
ASSUME RequestsAssumption ==
  \A req \in Requests :
    /\ req.valid \in BOOLEAN
    /\ req.tenant \in Tenants \cup {Unknown}
    /\ req.path \in Paths \cup {Unknown}
    /\ req.writer \in {"unconfigured", "unknown", "known"}
    /\ req.timeseries \in Seq(SeriesData)

ASSUME WorkersAssumption == IsFiniteSet(Workers)
ASSUME UnknownAssumption == Unknown \notin Tenants \cup Paths
ASSUME TimesAssumption ==
  /\ StaleCutoff \in Nat /\ FutureSkew \in Nat /\ CacheTTL \in Nat
  /\ MaxTime \in Nat /\ MaxRequests \in Nat /\ MaxDelay \in Nat
ASSUME DetectionAssumption == DuplicateDetection \in BOOLEAN /\ CrossPathDetection \in BOOLEAN
ASSUME CacheSizeAssumption ==
  /\ CacheSize \in Nat \ {0} /\ DefaultShards \in Nat \ {0}
  /\ SampleHash \in [SampleKeys -> Nat] /\ PathHash \in [PathKeys -> Nat]

VARIABLES
  now,         \* the clock
  samples,     \* the sample_conflicts cache
  paths,       \* the cross_path cache
  operations,  \* cache_operations_total, by cache and outcome
  evictions,   \* cache_evictions_total, by cache
  findings,    \* bad_series_total and bad_samples_total, by reason
  samplesTotal,\* samples_total, of all identities
  results,     \* inspections finished, by result
  worker,      \* where each worker is in its inspection, and its local variables
  started,     \* inspections begun
  offered,     \* history: the samples looked up
  offeredPaths,\* history: the paths looked up
  conflicts,   \* history: the conflicts reported
  collisions,  \* history: the collisions reported
  forgotten,   \* history: the sampleKeys evicted while remembered
  expired,     \* history: the number of entries found expired, by cache
  unwound      \* history: the number of samples in requests whose handler unwound

counters == << operations, evictions, findings, samplesTotal, results >>
lookedUp == << offered, offeredPaths, conflicts, collisions, forgotten, expired >>
history == << lookedUp, unwound >>
vars == << now, samples, paths, counters, worker, started, history >>

Idle == [pc |-> "idle"]

Init ==
  /\ now = 0
  /\ samples = newStateCache(CacheSize, CacheTTL, DefaultShards)
  /\ paths = newStateCache(CacheSize, CacheTTL, DefaultShards)
  /\ operations = [c \in Caches |-> [o \in {"hit", "miss"} |-> 0]]
  /\ evictions = [c \in Caches |-> 0]
  /\ findings = [r \in Reasons |-> 0]
  /\ samplesTotal = 0
  /\ results = [r \in Results |-> 0]
  /\ worker = [w \in Workers |-> Idle]
  /\ started = 0
  /\ offered = {} /\ offeredPaths = {} /\ conflicts = {} /\ collisions = {}
  /\ forgotten = {} /\ expired = [c \in Caches |-> 0] /\ unwound = 0

------------------------------------------------------------------------------
(* Where a worker is.                                                       *)

Timeseries(w) == worker[w].req.timeseries[worker[w].s]
Sample(w) == Timeseries(w).samples[worker[w].j]

\* Slip of SampleKey: the samples of all tenants share their keys.
SampleKeyOfAnyTenant(w) ==
  [tenant |-> Unknown, series |-> Timeseries(w).series, ts |-> Sample(w).ts]

SampleKey(w) ==
  [tenant |-> worker[w].req.tenant, series |-> Timeseries(w).series, ts |-> Sample(w).ts]

PathKey(w) == [tenant |-> worker[w].req.tenant, series |-> Timeseries(w).series]

isStale(ts, nowMs) == ts < nowMs - StaleCutoff
isFuture(ts, nowMs) == ts > nowMs + FutureSkew

\* What a sample claims, whatever the key it is looked up under, and whether its request
\* has a valid identity.
Offer(w) == [ tenant |-> worker[w].req.tenant, series |-> Timeseries(w).series,
              ts |-> Sample(w).ts, value |-> Sample(w).value, valid |-> worker[w].req.valid ]

\* Floats and histograms, of bad series too.
TotalSamples(req) ==
  SumFunction([n \in DOMAIN req.timeseries |->
                 Len(req.timeseries[n].samples) + Len(req.timeseries[n].hists)])

\* Findings are counted under the identity of the request, and WithLabelValues panics when a
\* value is not UTF-8: the finding is not counted, and the handler is gone.
Panics(w, reasons) == reasons # {} /\ ~worker[w].req.valid

Unwind(w) ==
  /\ worker' = [worker EXCEPT ![w] = Idle]
  /\ unwound' = unwound + TotalSamples(worker[w].req)

\* One finding for each of the reasons that apply.
Observe(w, reasons) ==
  findings' = IF Panics(w, reasons) THEN findings
              ELSE [r \in Reasons |-> findings[r] + (IF r \in reasons THEN 1 ELSE 0)]

\* After these findings the worker is at x.
GoesOn(w, reasons, x) ==
  IF Panics(w, reasons) THEN Unwind(w)
  ELSE /\ worker' = [worker EXCEPT ![w] = [x EXCEPT !.bad = @ \/ reasons # {}]]
       /\ UNCHANGED unwound

\* No inspection takes longer than MaxDelay.
InTime(t) == \A w \in Workers : worker[w] # Idle => t <= worker[w].nowMs + MaxDelay

NoReply == [hit |-> FALSE, existing |-> Unknown, evicted |-> 0]

\* Slip of CountOperation: evictions are counted with the hits.
CountOperationEvictionsOfHits(w, c) ==
  LET reply == worker[w].reply IN
  /\ operations' = [operations EXCEPT ![c][IF reply.hit THEN "hit" ELSE "miss"] = @ + 1]
  /\ evictions' = [evictions EXCEPT ![c] = IF reply.hit THEN @ + reply.evicted ELSE @]

\* The outcome of a look-up is counted when the lock is gone, under no identity.
CountOperation(w, c) ==
  LET reply == worker[w].reply IN
  /\ operations' = [operations EXCEPT ![c][IF reply.hit THEN "hit" ELSE "miss"] = @ + 1]
  /\ evictions' = [evictions EXCEPT ![c] = @ + reply.evicted]

------------------------------------------------------------------------------
(* inspectReceived.                                                         *)

Begin(w, req) ==
  /\ worker[w] = Idle
  /\ started < MaxRequests
  /\ started' = started + 1
  /\ worker' = [worker EXCEPT ![w] =
       [ pc |-> "series", req |-> req, nowMs |-> now, s |-> 1, j |-> 1,
         bad |-> FALSE, reply |-> NoReply ]]
  /\ UNCHANGED << now, samples, paths, counters, history >>

\* A capture session counts a matching series, under its identity, before anything else does.
\* Whether there is one and it matches the series is left open.
CaptureUnwinds(w) ==
  /\ worker[w].pc = "series"
  /\ worker[w].s <= Len(worker[w].req.timeseries)
  /\ ~worker[w].req.valid
  /\ Timeseries(w).samples # << >> \/ Timeseries(w).hists # << >>
  /\ Unwind(w)
  /\ UNCHANGED << now, samples, paths, counters, started, lookedUp >>

\* The labels of the next series; a series with bad ones goes to no detector.
ValidateSeries(w) ==
  LET reasons == IF Timeseries(w).malformed THEN {"bad_labels"} ELSE {}
      next == IF Timeseries(w).malformed THEN "samples"
              ELSE IF CrossPathDetection /\ worker[w].req.path # Unknown THEN "paths" ELSE "writer"
  IN
  /\ worker[w].pc = "series"
  /\ worker[w].s <= Len(worker[w].req.timeseries)
  /\ Observe(w, reasons)
  /\ GoesOn(w, reasons, [worker[w] EXCEPT !.pc = next])
  /\ UNCHANGED << now, samples, paths, operations, evictions, samplesTotal, results, started, lookedUp >>

\* detectCrossPathCollision, under the lock of the shard.
LookupPath(w, later) ==
  /\ worker[w].pc = "paths"
  /\ later >= now /\ InTime(later)
  /\ LET key == PathKey(w)
         path == worker[w].req.path
         hit == ShardedHit(paths, PathHash, key, now)
         put == ShardedGetOrPut(paths, PathHash, key, path, now, later)
     IN
     /\ paths' = put.cache
     /\ worker' = [worker EXCEPT ![w].pc = "report_path",
          ![w].reply = [ hit |-> hit, evicted |-> put.evicted,
                         existing |-> IF hit THEN Existing(paths, PathHash, key) ELSE Unknown ]]
     /\ offeredPaths' = offeredPaths \cup {[key |-> key, path |-> path]}
     /\ expired' = [expired EXCEPT !["cross_path"] =
                      IF ~hit /\ key \in KeysIn(paths) THEN @ + 1 ELSE @]
  /\ now' = later
  /\ UNCHANGED << samples, counters, started, offered, conflicts, collisions, forgotten, unwound >>

ReportPath(w) ==
  LET reply == worker[w].reply
      reasons == IF reply.hit /\ reply.existing # worker[w].req.path THEN {"cross_path_collision"} ELSE {}
      collision == [key |-> PathKey(w), first |-> reply.existing, path |-> worker[w].req.path]
  IN
  /\ worker[w].pc = "report_path"
  /\ CountOperation(w, "cross_path")
  /\ Observe(w, reasons)
  /\ GoesOn(w, reasons, [worker[w] EXCEPT !.pc = "writer", !.reply = NoReply])
  /\ collisions' = collisions \cup
       (IF reasons = {} \/ Panics(w, reasons) THEN {} ELSE {collision})
  /\ UNCHANGED << now, samples, paths, samplesTotal, results, started, offered, offeredPaths, conflicts,
                  forgotten, expired >>

CheckWriter(w) ==
  LET reasons == IF Timeseries(w).diagnostic /\ worker[w].req.writer = "unknown"
                 THEN {"diagnostic_writer_id_missing"} ELSE {}
  IN
  /\ worker[w].pc = "writer"
  /\ Observe(w, reasons)
  /\ GoesOn(w, reasons, [worker[w] EXCEPT !.pc = "samples"])
  /\ UNCHANGED << now, samples, paths, operations, evictions, samplesTotal, results, started, lookedUp >>

\* What is wrong with the timestamp of the sample, by the clock the inspection began with.
BadTimes(w) ==
  (IF isStale(Sample(w).ts, worker[w].nowMs) THEN {"stale_sample"} ELSE {})
    \cup (IF isFuture(Sample(w).ts, worker[w].nowMs) THEN {"future_sample"} ELSE {})

\* Slip of JudgeSample: a stale sample is reported, and looked up all the same.
JudgeSampleLooksUpStale(w) ==
  /\ worker[w].pc = "samples"
  /\ worker[w].j <= Len(Timeseries(w).samples)
  /\ Observe(w, BadTimes(w))
  /\ GoesOn(w, BadTimes(w),
       IF ~Timeseries(w).malformed /\ "future_sample" \notin BadTimes(w) /\ DuplicateDetection
       THEN [worker[w] EXCEPT !.pc = "lookup"]
       ELSE [worker[w] EXCEPT !.j = @ + 1])
  /\ UNCHANGED << now, samples, paths, operations, evictions, samplesTotal, results, started, lookedUp >>

\* A sample that is stale, or in the future, or of a series with bad labels is not looked up.
JudgeSample(w) ==
  /\ worker[w].pc = "samples"
  /\ worker[w].j <= Len(Timeseries(w).samples)
  /\ Observe(w, BadTimes(w))
  /\ GoesOn(w, BadTimes(w),
       IF ~Timeseries(w).malformed /\ BadTimes(w) = {} /\ DuplicateDetection
       THEN [worker[w] EXCEPT !.pc = "lookup"]
       ELSE [worker[w] EXCEPT !.j = @ + 1])
  /\ UNCHANGED << now, samples, paths, operations, evictions, samplesTotal, results, started, lookedUp >>

\* detectDuplicateSample, under the lock of the shard: the clock is read again.
LookupSample(w, later) ==
  /\ worker[w].pc = "lookup"
  /\ later >= now /\ InTime(later)
  /\ LET key == SampleKey(w)
         hit == ShardedHit(samples, SampleHash, key, now)
         put == ShardedGetOrPut(samples, SampleHash, key, Sample(w).value, now, later)
     IN
     /\ samples' = put.cache
     /\ worker' = [worker EXCEPT ![w].pc = "report",
          ![w].reply = [ hit |-> hit, evicted |-> put.evicted,
                         existing |-> IF hit THEN Existing(samples, SampleHash, key) ELSE Unknown ]]
     /\ offered' = offered \cup {Offer(w)}
     /\ forgotten' = forgotten \cup (KeysIn(samples) \ KeysIn(put.cache))
     /\ expired' = [expired EXCEPT !["sample_conflicts"] =
                      IF ~hit /\ key \in KeysIn(samples) THEN @ + 1 ELSE @]
  /\ now' = later
  /\ UNCHANGED << paths, counters, started, offeredPaths, conflicts, collisions, unwound >>

\* The hit is counted before the finding: a handler that panics here has compared two values
\* and reports nothing.
ReportSample(w) ==
  LET reply == worker[w].reply
      reasons == IF reply.hit /\ reply.existing # Sample(w).value
                 THEN {"duplicate_timestamp_different_value"} ELSE {}
      conflict == [offer |-> Offer(w), previous |-> reply.existing]
  IN
  /\ worker[w].pc = "report"
  /\ CountOperation(w, "sample_conflicts")
  /\ Observe(w, reasons)
  /\ GoesOn(w, reasons, [worker[w] EXCEPT !.pc = "samples", !.j = @ + 1, !.reply = NoReply])
  /\ conflicts' = conflicts \cup
       (IF reasons = {} \/ Panics(w, reasons) THEN {} ELSE {conflict})
  /\ UNCHANGED << now, samples, paths, samplesTotal, results, started, offered, offeredPaths, collisions,
                  forgotten, expired >>

\* After the samples of a series its histograms are judged, and never looked up; a panic comes
\* with the first finding.
JudgeHistograms(w) ==
  LET hists == Timeseries(w).hists
      stale == {n \in 1..Len(hists) : isStale(hists[n], worker[w].nowMs)}
      future == {n \in 1..Len(hists) : isFuture(hists[n], worker[w].nowMs)}
  IN
  /\ worker[w].pc = "samples"
  /\ worker[w].j > Len(Timeseries(w).samples)
  /\ findings' = IF Panics(w, stale \cup future) THEN findings
                 ELSE [findings EXCEPT !["stale_sample"] = @ + Cardinality(stale),
                                       !["future_sample"] = @ + Cardinality(future)]
  /\ GoesOn(w, stale \cup future, [worker[w] EXCEPT !.pc = "series", !.s = @ + 1, !.j = 1])
  /\ UNCHANGED << now, samples, paths, operations, evictions, samplesTotal, results, started, lookedUp >>

\* The result receiveHTTP counts the request under.
Result(w) ==
  CASE worker[w].bad -> "bad_data"
    [] ~worker[w].bad /\ worker[w].req.timeseries = << >> -> "empty"
    [] OTHER -> "ok"

\* samples_total is counted under the identity, too, and last of all.
Finish(w) ==
  /\ worker[w].pc = "series"
  /\ worker[w].s > Len(worker[w].req.timeseries)
  /\ IF worker[w].req.valid
     THEN /\ samplesTotal' = samplesTotal + TotalSamples(worker[w].req)
          /\ results' = [results EXCEPT ![Result(w)] = @ + 1]
          /\ worker' = [worker EXCEPT ![w] = Idle]
          /\ UNCHANGED unwound
     ELSE Unwind(w) /\ UNCHANGED << samplesTotal, results >>
  /\ UNCHANGED << now, samples, paths, operations, evictions, findings, started, lookedUp >>

Tick ==
  /\ now < MaxTime
  /\ InTime(now + 1)
  /\ now' = now + 1
  /\ UNCHANGED << samples, paths, counters, worker, started, history >>

Next ==
  \/ \E w \in Workers, req \in Requests : Begin(w, req)
  \/ \E w \in Workers, later \in Times : LookupPath(w, later) \/ LookupSample(w, later)
  \/ \E w \in Workers :
       \/ CaptureUnwinds(w)
       \/ ValidateSeries(w)
       \/ ReportPath(w)
       \/ CheckWriter(w)
       \/ JudgeSample(w)
       \/ ReportSample(w)
       \/ JudgeHistograms(w)
       \/ Finish(w)
  \/ Tick

Spec == Init /\ [][Next]_vars

------------------------------------------------------------------------------
(* Types.                                                                   *)

PCs == {"series", "paths", "report_path", "writer", "samples", "lookup", "report"}

Offers == [ tenant : Tenants \cup {Unknown}, series : Series, ts : Times, value : Values,
            valid : BOOLEAN ]

Replies == [hit : BOOLEAN, existing : Values \cup Paths \cup {Unknown}, evicted : {0, 1}]

\* The type invariant: the shards of both caches are well-formed, and the sample and
\* series a worker is at are there.
TypeOK ==
  /\ now \in Times
  /\ ShardsWellFormed(SampleKeys, Values, SampleHash, samples)
  /\ ShardsWellFormed(PathKeys, Paths, PathHash, paths)
  /\ operations \in [Caches -> [{"hit", "miss"} -> Nat]]
  /\ evictions \in [Caches -> Nat]
  /\ findings \in [Reasons -> Nat]
  /\ samplesTotal \in Nat
  /\ results \in [Results -> Nat]
  /\ worker \in [Workers -> {Idle} \cup
       [pc : PCs, req : Requests, nowMs : Times, s : Nat, j : Nat, bad : BOOLEAN, reply : Replies]]
  /\ started \in 0..MaxRequests
  /\ offered \subseteq Offers /\ forgotten \subseteq SampleKeys
  /\ conflicts \subseteq [offer : Offers, previous : Values]
  /\ offeredPaths \subseteq [key : PathKeys, path : Paths]
  /\ collisions \subseteq [key : PathKeys, first : Paths, path : Paths]
  /\ expired \in [Caches -> Nat] /\ unwound \in Nat

------------------------------------------------------------------------------
(* Safety.                                                                  *)

KeyOf(o) == [tenant |-> o.tenant, series |-> o.series, ts |-> o.ts]

\* No false alarm: a conflict names two different values, and the one it calls previous
\* was really sent before, by the same tenant, for the same series and timestamp;
\* a collision names two different paths that both really carried the series for the tenant.
\* Slots are recycled, shards are shared and handlers interleave meanwhile.
FindingsAreReal ==
  /\ \A c \in conflicts :
       /\ c.previous # c.offer.value
       /\ \E o \in offered : KeyOf(o) = KeyOf(c.offer) /\ o.value = c.previous
  /\ \A c \in collisions : c.first # c.path /\ [key |-> c.key, path |-> c.first] \in offeredPaths

\* The retention that a conflict needs to be seen.  The defaults (25h against 23h, 10min
\* and the duration of an inspection) have it; nothing in normalize enforces it.
Retained == CacheTTL >= StaleCutoff + FutureSkew + MaxDelay

\* Reported, or looked up by a worker that has still to report it.
Reported(o, first) ==
  \/ [offer |-> o, previous |-> first] \in conflicts
  \/ \E w \in Workers : /\ worker[w].pc = "report"
                         /\ Offer(w) = o
                         /\ worker[w].reply.hit
                         /\ worker[w].reply.existing = first

\* No missed conflict: of all the values sent for one timestamp of a series, one is the
\* first and each of the others is reported against it, however the handlers interleave
\* and however long ago the first one was, unless the cache had to evict the key, or the
\* request that sent it has an identity the metrics library refuses: its handler panics over
\* the report.  (Such a request can still send the first value, and the others are compared
\* with it.)  In particular no entry expires before its sample has become stale, although
\* the one is judged by the clock of the look-up and the other by the clock at the
\* beginning of the inspection.
ConflictsDetected ==
  Retained =>
    \A key \in {KeyOf(o) : o \in offered} \ forgotten :
      \E first \in Values :
        \A o \in offered :
          KeyOf(o) = key /\ o.valid /\ o.value # first => Reported(o, first)

\* Not counted yet: the look-ups of the cache whose outcome is still with its worker.
Uncounted(c) ==
  {w \in Workers : worker[w].pc = (IF c = "sample_conflicts" THEN "report" ELSE "report_path")}

\* The counters explain the size of each cache: what was missed was stored, and what is
\* no longer there was counted as evicted, or was found expired by a look-up
\* that missed.  And samples_total has every look-up of a sample in it, but for those of
\* inspections that are not over and of those that panicked: a look-up counted by a handler
\* that unwinds stays counted, and its samples never are.
EntriesAccounted ==
  /\ operations["sample_conflicts"]["hit"] + operations["sample_conflicts"]["miss"]
       <= samplesTotal + unwound
            + SumFunction([w \in Workers |-> IF worker[w] = Idle THEN 0
                                             ELSE TotalSamples(worker[w].req)])
  /\ \A c \in Caches :
       LET misses == {w \in Uncounted(c) : ~worker[w].reply.hit}
           entries == IF c = "sample_conflicts" THEN TotalLen(samples)
                                                ELSE TotalLen(paths)
       IN entries + expired[c] =
            operations[c]["miss"] + Cardinality(misses)
              - evictions[c] - Cardinality({w \in misses : worker[w].reply.evicted = 1})
==============================================================================
