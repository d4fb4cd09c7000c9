--------------------------- MODULE InspectionProofs ---------------------------
(***************************************************************************)
(* The stateful detectors for every number of handlers, requests, caches   *)
(* and delays: no false alarm, no missed conflict, and counters that       *)
(* explain the caches.                                                     *)
(***************************************************************************)
EXTENDS Inspection, SharedFacts

------------------------------------------------------------------------------
(* The inductive invariant.                                                 *)

\* A worker under way, and what it is at, as functions of its record.
Busy == [pc : PCs, req : Requests, nowMs : Times, s : Nat, j : Nat, bad : BOOLEAN, reply : Replies]

SeriesAt(x) == x.req.timeseries[x.s]
SampleAt(x) == SeriesAt(x).samples[x.j]
SampleKeyAt(x) == [tenant |-> x.req.tenant, series |-> SeriesAt(x).series, ts |-> SampleAt(x).ts]
PathKeyAt(x) == [tenant |-> x.req.tenant, series |-> SeriesAt(x).series]
OfferAt(x) == [ tenant |-> x.req.tenant, series |-> SeriesAt(x).series,
                ts |-> SampleAt(x).ts, value |-> SampleAt(x).value, valid |-> x.req.valid ]

\* Some request offered what the entry of a key claims.
Offered(k, v, os) == \E o \in os : KeyOf(o) = k /\ o.value = v

\* A worker is within its request, judges by a recent reading of the clock, and what it was
\* answered had been offered.
InRequest(x) ==
  /\ x.s \in 1..(Len(x.req.timeseries) + 1)
  /\ x.j \in Nat \ {0}
  /\ x.pc # "series" =>
       x.s \in 1..Len(x.req.timeseries) /\ x.j <= Len(SeriesAt(x).samples) + 1
  /\ x.pc \in {"series", "paths", "report_path", "writer"} => x.j = 1
  /\ x.pc \in {"lookup", "report"} => x.j <= Len(SeriesAt(x).samples)
  /\ x.pc \in {"paths", "report_path"} => x.req.path # Unknown

InTimeAt(x, t) == x.nowMs <= t /\ t <= x.nowMs + MaxDelay

Judged(x) ==
  x.pc = "lookup" => ~isStale(SampleAt(x).ts, x.nowMs) /\ ~isFuture(SampleAt(x).ts, x.nowMs)

Answered(x, os, ps) ==
  /\ x.pc = "report" =>
       /\ OfferAt(x) \in os
       /\ x.reply.hit => /\ x.reply.evicted = 0 /\ x.reply.existing \in Values
                         /\ Offered(SampleKeyAt(x), x.reply.existing, os)
  /\ x.pc = "report_path" /\ x.reply.hit =>
       /\ x.reply.evicted = 0 /\ x.reply.existing \in Paths
       /\ [key |-> PathKeyAt(x), path |-> x.reply.existing] \in ps

WorkersOK ==
  /\ worker \in [Workers -> {Idle} \cup Busy]
  /\ \A w \in Workers : worker[w] # Idle =>
       /\ InRequest(worker[w]) /\ InTimeAt(worker[w], now) /\ Judged(worker[w])
       /\ Answered(worker[w], offered, offeredPaths)

\* Every entry was offered, and expires no sooner than its sample can still be looked up.
CachesOK ==
  /\ Sharded(SampleKeys, Values, CacheTTL, SampleHash, samples)
  /\ Sharded(PathKeys, Paths, CacheTTL, PathHash, paths)
  /\ \A k \in KeysIn(samples) :
       /\ Offered(k, Entry(samples, SampleHash, k).value, offered)
       /\ k.ts + CacheTTL <= Entry(samples, SampleHash, k).expiresAt + FutureSkew
  /\ \A k \in KeysIn(paths) :
       [key |-> k, path |-> Entry(paths, PathHash, k).value] \in offeredPaths

CountersOK ==
  /\ now \in Times
  /\ operations \in [Caches -> [{"hit", "miss"} -> Nat]]
  /\ evictions \in [Caches -> Nat]
  /\ findings \in [Reasons -> Nat]
  /\ samplesTotal \in Nat
  /\ results \in [Results -> Nat]
  /\ started \in 0..MaxRequests
  /\ expired \in [Caches -> Nat]
  /\ unwound \in Nat

HistoryOK ==
  /\ offered \subseteq Offers /\ forgotten \subseteq SampleKeys
  /\ offeredPaths \subseteq [key : PathKeys, path : Paths]
  /\ conflicts \subseteq [offer : Offers, previous : Values]
  /\ collisions \subseteq [key : PathKeys, first : Paths, path : Paths]
  /\ FindingsAreReal

\* Each offer of a key that was never evicted is of the value remembered, or reported against it
\* if its request can be reported at all.
FirstRemembered ==
  \A o \in offered : KeyOf(o) \notin forgotten =>
    /\ KeyOf(o) \in KeysIn(samples)
    /\ o.valid /\ o.value # Entry(samples, SampleHash, KeyOf(o)).value =>
         Reported(o, Entry(samples, SampleHash, KeyOf(o)).value)

IInv ==
  /\ WorkersOK /\ CachesOK /\ CountersOK /\ HistoryOK
  /\ Retained => FirstRemembered

------------------------------------------------------------------------------
(* Accounts.                                                                *)

Load(req) == [n \in DOMAIN req.timeseries |->
                Len(req.timeseries[n].samples) + Len(req.timeseries[n].hists)]

\* The samples a worker is through with.
Through(x) == IF x = Idle THEN 0
              ELSE SumFunctionOnSet(Load(x.req), 1..(x.s - 1)) + x.j - 1

ThroughAll == [w \in Workers |-> Through(worker[w])]

LookupsAccounted ==
  operations["sample_conflicts"]["hit"] + operations["sample_conflicts"]["miss"]
    <= samplesTotal + unwound + SumFunctionOnSet(ThroughAll, Workers)

\* A worker that has still to count its miss, and one that has still to count its eviction.
Missed(x, c) == x.pc = (IF c = "sample_conflicts" THEN "report" ELSE "report_path") /\ ~x.reply.hit
Displaced(x, c) == Missed(x, c) /\ x.reply.evicted = 1

MissedIn(c) == {w \in Workers : Missed(worker[w], c)}
DisplacedIn(c) == {w \in Workers : Displaced(worker[w], c)}

CacheLen(c) == IF c = "sample_conflicts" THEN TotalLen(samples) ELSE TotalLen(paths)

CacheAccounted(c) ==
  CacheLen(c) + expired[c] =
    operations[c]["miss"] + Cardinality(MissedIn(c)) - evictions[c] - Cardinality(DisplacedIn(c))

AInv == IInv /\ LookupsAccounted /\ \A c \in Caches : CacheAccounted(c)

------------------------------------------------------------------------------
(* Where a worker is.                                                       *)

LEMMA RequestTypes ==
  ASSUME NEW req \in Requests
  PROVE  /\ req.tenant \in Tenants \cup {Unknown} /\ req.path \in Paths \cup {Unknown}
         /\ req.valid \in BOOLEAN
         /\ req.timeseries \in Seq(SeriesData) /\ Len(req.timeseries) \in Nat
         /\ \A n \in 1..Len(req.timeseries) : req.timeseries[n] \in SeriesData
BY RequestsAssumption

LEMMA SeriesTypes ==
  ASSUME NEW d \in SeriesData
  PROVE  /\ d.series \in Series /\ d.malformed \in BOOLEAN
         /\ Len(d.samples) \in Nat /\ Len(d.hists) \in Nat
         /\ \A n \in 1..Len(d.samples) : d.samples[n] \in [ts : Times, value : Values]
         /\ \A n \in 1..Len(d.hists) : d.hists[n] \in Times
<1>1. d.series \in Series /\ d.malformed \in BOOLEAN
  BY DEF SeriesData
<1>2. d.samples \in Seq([ts : Times, value : Values])
  BY DEF SeriesData
<1>3. d.hists \in Seq(Times)
  BY DEF SeriesData
<1> DEFINE Q == [ts : Times, value : Values]
<1> HIDE DEF Q
<1>4. Len(d.samples) \in Nat /\ \A n \in 1..Len(d.samples) : d.samples[n] \in Q
  BY <1>2, ElementOfSeq, LenProperties DEF Q
<1>5. Len(d.hists) \in Nat /\ \A n \in 1..Len(d.hists) : d.hists[n] \in Times
  BY <1>3
<1> QED
  BY <1>1, <1>4, <1>5 DEF Q

LEMMA AtSeries ==
  ASSUME NEW x \in Busy, x.s \in 1..Len(x.req.timeseries)
  PROVE  SeriesAt(x) \in SeriesData /\ PathKeyAt(x) \in PathKeys
<1>1. SeriesAt(x) \in SeriesData
  BY RequestTypes DEF Busy, SeriesAt
<1>2. SeriesAt(x).series \in Series
  BY <1>1, SeriesTypes
<1>3. x.req.tenant \in Tenants \cup {Unknown}
  BY RequestTypes DEF Busy
<1> QED
  BY <1>1, <1>2, <1>3 DEF PathKeyAt, PathKeys

LEMMA AtSample ==
  ASSUME NEW x \in Busy, x.s \in 1..Len(x.req.timeseries),
         x.j \in 1..Len(SeriesAt(x).samples)
  PROVE  /\ SampleAt(x).ts \in Times /\ SampleAt(x).value \in Values
         /\ SampleKeyAt(x) \in SampleKeys /\ OfferAt(x) \in Offers
         /\ KeyOf(OfferAt(x)) = SampleKeyAt(x) /\ OfferAt(x).valid = x.req.valid
         /\ SampleKeyAt(x).ts = SampleAt(x).ts /\ OfferAt(x).value = SampleAt(x).value
<1>1. SeriesAt(x) \in SeriesData
  BY AtSeries
<1>2. SeriesAt(x).series \in Series /\ SampleAt(x) \in [ts : Times, value : Values]
  BY <1>1, SeriesTypes DEF SampleAt
<1>3. x.req.tenant \in Tenants \cup {Unknown} /\ x.req.valid \in BOOLEAN
  BY RequestTypes DEF Busy
<1> QED
  BY <1>2, <1>3 DEF SampleKeyAt, SampleKeys, OfferAt, Offers, KeyOf

LEMMA AtWorker ==
  ASSUME NEW w
  PROVE  /\ Timeseries(w) = SeriesAt(worker[w]) /\ Sample(w) = SampleAt(worker[w])
         /\ SampleKey(w) = SampleKeyAt(worker[w]) /\ PathKey(w) = PathKeyAt(worker[w])
         /\ Offer(w) = OfferAt(worker[w])
BY DEF Timeseries, Sample, SampleKey, PathKey, Offer, SeriesAt, SampleAt, SampleKeyAt, PathKeyAt, OfferAt

\* A worker at a step of its inspection is under way.
LEMMA AtWork ==
  ASSUME WorkersOK, NEW w \in Workers, worker[w].pc \in PCs
  PROVE  /\ worker[w] \in Busy /\ worker[w] # Idle /\ InRequest(worker[w])
         /\ InTimeAt(worker[w], now) /\ Judged(worker[w])
         /\ Answered(worker[w], offered, offeredPaths)
<1>1. worker[w] # Idle
  BY DEF Idle, PCs
<1> QED
  BY <1>1 DEF WorkersOK

LEMMA IdleIsNotBusy == Idle \notin Busy /\ Idle.pc = "idle" /\ \A x \in Busy : x.pc \in PCs /\ x # Idle
<1>1. Idle.pc = "idle" /\ "idle" \notin PCs
  BY DEF Idle, PCs
<1>2. \A x \in Busy : x.pc \in PCs
  BY DEF Busy
<1> QED
  BY <1>1, <1>2

\* What holds of a worker that waits stays true as the clock runs and offers come in.
LEMMA StaysAnswered ==
  ASSUME NEW x, NEW os, NEW ps, Answered(x, os, ps), NEW os2, NEW ps2,
         os \subseteq os2, ps \subseteq ps2
  PROVE  Answered(x, os2, ps2)
BY DEF Answered, Offered

\* One worker moves to y.
LEMMA WorkerMoves ==
  ASSUME WorkersOK, CountersOK, NEW w \in Workers, NEW y, worker' = [worker EXCEPT ![w] = y],
         y \in {Idle} \cup Busy,
         y # Idle => /\ InRequest(y) /\ InTimeAt(y, now') /\ Judged(y)
                     /\ Answered(y, offered', offeredPaths'),
         now' \in Times, now <= now', now' = now \/ InTime(now'),
         offered \subseteq offered', offeredPaths \subseteq offeredPaths'
  PROVE  WorkersOK'
<1>1. worker' \in [Workers -> {Idle} \cup Busy]
  BY DEF WorkersOK
<1>2. ASSUME NEW u \in Workers, worker'[u] # Idle
      PROVE  /\ InRequest(worker'[u]) /\ InTimeAt(worker'[u], now') /\ Judged(worker'[u])
             /\ Answered(worker'[u], offered', offeredPaths')
  <2>1. CASE u = w
    BY <1>2, <2>1 DEF WorkersOK
  <2>2. CASE u # w
    <3> DEFINE x == worker[u]
    <3>1. worker'[u] = x /\ x # Idle /\ x \in Busy
      BY <1>2, <2>2 DEF WorkersOK
    <3>2. /\ InRequest(x) /\ InTimeAt(x, now) /\ Judged(x) /\ Answered(x, offered, offeredPaths)
      BY <3>1 DEF WorkersOK
    <3>3. now' = now \/ now' <= x.nowMs + MaxDelay
      BY <3>1 DEF InTime
    <3>4. x.nowMs \in Nat /\ now \in Nat /\ now' \in Nat
      BY <3>1, TimesAssumption DEF Busy, Times, CountersOK
    <3> HIDE DEF x
    <3>5. InTimeAt(x, now')
      BY <3>2, <3>3, <3>4 DEF InTimeAt
    <3>6. Answered(x, offered', offeredPaths')
      BY <3>2, StaysAnswered
    <3> QED
      BY <3>1, <3>2, <3>5, <3>6
  <2> QED
    BY <2>1, <2>2
<1> QED
  BY <1>1, <1>2 DEF WorkersOK

\* What was reported stays reported while no worker leaves its report without a conflict.
LEMMA StaysReported ==
  ASSUME NEW o, NEW first, Reported(o, first), WorkersOK, conflicts \subseteq conflicts',
         NEW w \in Workers, NEW y, worker' = [worker EXCEPT ![w] = y],
         worker[w].pc # "report"
  PROVE  Reported(o, first)'
<1>1. CASE [offer |-> o, previous |-> first] \in conflicts
  BY <1>1 DEF Reported
<1>2. CASE \E u \in Workers : /\ worker[u].pc = "report" /\ Offer(u) = o
                              /\ worker[u].reply.hit /\ worker[u].reply.existing = first
  <2>1. PICK u \in Workers : /\ worker[u].pc = "report" /\ Offer(u) = o
                             /\ worker[u].reply.hit /\ worker[u].reply.existing = first
    BY <1>2
  <2>2. worker'[u] = worker[u]
    BY <2>1 DEF WorkersOK
  <2>3. Offer(u)' = Offer(u)
    BY <2>2 DEF Offer, Timeseries, Sample
  <2> QED
    BY <2>1, <2>2, <2>3 DEF Reported
<1> QED
  BY <1>1, <1>2 DEF Reported

LEMMA StaysRemembered ==
  ASSUME WorkersOK, FirstRemembered, NEW w \in Workers, NEW y, worker' = [worker EXCEPT ![w] = y],
         worker[w].pc # "report", conflicts \subseteq conflicts', UNCHANGED << samples, offered, forgotten >>
  PROVE  FirstRemembered'
<1>1. ASSUME NEW o \in offered, KeyOf(o) \notin forgotten
      PROVE  /\ KeyOf(o) \in KeysIn(samples)
             /\ o.valid /\ o.value # Entry(samples, SampleHash, KeyOf(o)).value =>
                  Reported(o, Entry(samples, SampleHash, KeyOf(o)).value)'
  BY <1>1, StaysReported DEF FirstRemembered
<1> QED
  BY <1>1 DEF FirstRemembered

\* A step that changes no more than where the worker is and the counters.
LEMMA QuietStep ==
  ASSUME IInv, NEW w \in Workers, NEW y, worker' = [worker EXCEPT ![w] = y],
         \/ y = Idle
         \/ /\ y \in Busy /\ InRequest(y) /\ InTimeAt(y, now) /\ Judged(y)
            /\ y.pc \notin {"report", "report_path"},
         worker[w].pc # "report",
         UNCHANGED << now, samples, paths, lookedUp >>
  PROVE  WorkersOK' /\ CachesOK' /\ HistoryOK' /\ (Retained => FirstRemembered')
<1>1. /\ now' = now /\ samples' = samples /\ paths' = paths /\ offered' = offered
      /\ offeredPaths' = offeredPaths /\ conflicts' = conflicts /\ collisions' = collisions
      /\ forgotten' = forgotten
  BY DEF lookedUp
<1>2. now \in Times /\ now <= now
  BY TimesAssumption DEF IInv, CountersOK, Times
<1>3. y # Idle => /\ InRequest(y) /\ InTimeAt(y, now') /\ Judged(y)
                  /\ Answered(y, offered', offeredPaths')
  BY <1>1 DEF Answered
<1>4. y \in {Idle} \cup Busy
  OBVIOUS
<1>5. WorkersOK'
  BY <1>1, <1>2, <1>3, <1>4, WorkerMoves DEF IInv
<1>6. CachesOK' /\ HistoryOK'
  BY <1>1 DEF IInv, CachesOK, HistoryOK, FindingsAreReal
<1>7. Retained => FirstRemembered'
  BY <1>1, StaysRemembered DEF IInv
<1> QED
  BY <1>5, <1>6, <1>7

------------------------------------------------------------------------------
(* The steps that do not look anything up.                                  *)

\* The samples of a request are counted with a natural number.
LEMMA LoadTypes ==
  ASSUME NEW req \in Requests
  PROVE  /\ DOMAIN req.timeseries = 1..Len(req.timeseries) /\ Len(req.timeseries) \in Nat
         /\ IsFiniteSet(1..Len(req.timeseries))
         /\ \A n \in 1..Len(req.timeseries) :
              /\ Load(req)[n] = Len(req.timeseries[n].samples) + Len(req.timeseries[n].hists)
              /\ Load(req)[n] \in Nat /\ Len(req.timeseries[n].samples) \in Nat
              /\ Load(req)[n] >= Len(req.timeseries[n].samples)
         /\ TotalSamples(req) = SumFunctionOnSet(Load(req), 1..Len(req.timeseries))
         /\ TotalSamples(req) \in Nat
<1>1. DOMAIN req.timeseries = 1..Len(req.timeseries) /\ Len(req.timeseries) \in Nat
  BY RequestTypes, LenProperties
<1>2. \A n \in 1..Len(req.timeseries) :
         Len(req.timeseries[n].samples) \in Nat /\ Len(req.timeseries[n].hists) \in Nat
  BY RequestTypes, SeriesTypes
<1>3. IsFiniteSet(1..Len(req.timeseries))
  BY <1>1, FS_Interval
<1>4. /\ TotalSamples(req) = SumFunctionOnSet(Load(req), DOMAIN Load(req))
      /\ DOMAIN Load(req) = DOMAIN req.timeseries
  BY DEF TotalSamples, SumFunction, SumFunctionOnSet, FoldFunction, FoldFunctionOnSet, Load
<1>5. \A n \in 1..Len(req.timeseries) :
        /\ Load(req)[n] = Len(req.timeseries[n].samples) + Len(req.timeseries[n].hists)
        /\ Load(req)[n] \in Nat /\ Len(req.timeseries[n].samples) \in Nat
        /\ Load(req)[n] >= Len(req.timeseries[n].samples)
  <2>1. \A n \in 1..Len(req.timeseries) :
          Load(req)[n] = Len(req.timeseries[n].samples) + Len(req.timeseries[n].hists)
    BY <1>1 DEF Load
  <2>2. ASSUME NEW n \in 1..Len(req.timeseries)
        PROVE  /\ Load(req)[n] \in Nat /\ Len(req.timeseries[n].samples) \in Nat
               /\ Load(req)[n] >= Len(req.timeseries[n].samples)
    <3> DEFINE a == Len(req.timeseries[n].samples)
               b == Len(req.timeseries[n].hists)
    <3>1. a \in Nat /\ b \in Nat /\ Load(req)[n] = a + b
      BY <1>2, <2>1
    <3> HIDE DEF a, b
    <3> QED
      BY <3>1 DEF a
  <2> QED
    BY <2>1, <2>2
<1>6. SumFunctionOnSet(Load(req), 1..Len(req.timeseries)) \in Nat
  BY <1>3, <1>5, SumOfSubset
<1> QED
  BY <1>1, <1>3, <1>4, <1>5, <1>6

LEMMA ObserveCounts ==
  ASSUME CountersOK, NEW w, NEW R, Observe(w, R)
  PROVE  findings' \in [Reasons -> Nat]
BY DEF CountersOK, Observe

LEMMA BusyFields ==
  ASSUME NEW x \in Busy
  PROVE  /\ x.pc \in PCs /\ x.req \in Requests /\ x.nowMs \in Times /\ x.s \in Nat /\ x.j \in Nat
         /\ x.bad \in BOOLEAN /\ x.reply \in Replies
         /\ x = [ pc |-> x.pc, req |-> x.req, nowMs |-> x.nowMs, s |-> x.s, j |-> x.j,
                   bad |-> x.bad, reply |-> x.reply ]
BY DEF Busy

\* Two records of a worker at the same place of the same request.
SamePlace(x, z) ==
  z.pc = x.pc /\ z.req = x.req /\ z.nowMs = x.nowMs /\ z.s = x.s /\ z.j = x.j /\ z.reply = x.reply

LEMMA PlaceDecides ==
  ASSUME NEW x, NEW z, SamePlace(x, z)
  PROVE  /\ InRequest(x) => InRequest(z)
         /\ Judged(x) => Judged(z)
         /\ \A t : InTimeAt(x, t) => InTimeAt(z, t)
         /\ \A os, ps : Answered(x, os, ps) => Answered(z, os, ps)
<1>1. SeriesAt(z) = SeriesAt(x) /\ SampleAt(z) = SampleAt(x)
  BY DEF SamePlace, SeriesAt, SampleAt
<1>2. SampleKeyAt(z) = SampleKeyAt(x) /\ PathKeyAt(z) = PathKeyAt(x) /\ OfferAt(z) = OfferAt(x)
  BY <1>1 DEF SamePlace, SampleKeyAt, PathKeyAt, OfferAt
<1>3. InRequest(x) => InRequest(z)
  BY <1>1 DEF SamePlace, InRequest
<1>4. Judged(x) => Judged(z)
  BY <1>1 DEF SamePlace, Judged
<1>5. \A t : InTimeAt(x, t) => InTimeAt(z, t)
  BY DEF SamePlace, InTimeAt
<1>6. \A os, ps : Answered(x, os, ps) => Answered(z, os, ps)
  BY <1>2 DEF SamePlace, Answered
<1> QED
  BY <1>3, <1>4, <1>5, <1>6

\* A worker that observes something unwinds, or goes on to x.
LEMMA GoesOnMoves ==
  ASSUME NEW w \in Workers, NEW R, NEW x \in Busy, GoesOn(w, R, x), worker[w] \in Busy, unwound \in Nat
  PROVE  \E z : /\ worker' = [worker EXCEPT ![w] = z] /\ unwound' \in Nat
                /\ \/ /\ Panics(w, R) /\ z = Idle
                      /\ unwound' = unwound + TotalSamples(worker[w].req)
                   \/ ~Panics(w, R) /\ z \in Busy /\ SamePlace(x, z) /\ unwound' = unwound
<1>1. CASE Panics(w, R)
  <2>1. TotalSamples(worker[w].req) \in Nat
    BY BusyFields, LoadTypes
  <2>2. worker' = [worker EXCEPT ![w] = Idle] /\ unwound' = unwound + TotalSamples(worker[w].req)
    BY <1>1 DEF GoesOn, Unwind
  <2>3. unwound' \in Nat
    BY <2>1, <2>2
  <2> WITNESS Idle
  <2> QED
    BY <1>1, <2>2, <2>3
<1>2. CASE ~Panics(w, R)
  <2> DEFINE bad == x.bad \/ R # {}
             z == [x EXCEPT !.bad = bad]
  <2>1. worker' = [worker EXCEPT ![w] = z] /\ unwound' = unwound
    BY <1>2 DEF GoesOn
  <2>2. bad \in BOOLEAN
    BY DEF Busy
  <2> HIDE DEF bad
  <2>3. z \in Busy /\ SamePlace(x, z)
    BY <2>2 DEF Busy, SamePlace
  <2> QED
    BY <1>2, <2>1, <2>3
<1> QED
  BY <1>1, <1>2

LEMMA QuietlyGoesOn ==
  ASSUME IInv, NEW w \in Workers, NEW R, NEW x \in Busy, GoesOn(w, R, x), worker[w] \in Busy,
         InRequest(x), InTimeAt(x, now), Judged(x), x.pc \notin {"report", "report_path"},
         worker[w].pc # "report", UNCHANGED << now, samples, paths, lookedUp >>
  PROVE  WorkersOK' /\ CachesOK' /\ HistoryOK' /\ (Retained => FirstRemembered') /\ unwound' \in Nat
<1>1. unwound \in Nat
  BY DEF IInv, CountersOK
<1>2. PICK z : /\ worker' = [worker EXCEPT ![w] = z] /\ unwound' \in Nat
               /\ z = Idle \/ (z \in Busy /\ SamePlace(x, z))
  BY <1>1, GoesOnMoves
<1>3. z # Idle => InRequest(z) /\ InTimeAt(z, now) /\ Judged(z)
  BY <1>2, PlaceDecides
<1>4. z # Idle => z \in Busy /\ z.pc \notin {"report", "report_path"}
  BY <1>2 DEF SamePlace
<1> QED
  BY <1>2, <1>3, <1>4, QuietStep

LEMMA BeginStep ==
  ASSUME IInv, NEW w \in Workers, NEW req \in Requests, Begin(w, req)
  PROVE  IInv'
<1> DEFINE y == [ pc |-> "series", req |-> req, nowMs |-> now, s |-> 1, j |-> 1,
                  bad |-> FALSE, reply |-> NoReply ]
<1>1. /\ worker' = [worker EXCEPT ![w] = y] /\ worker[w] = Idle
      /\ UNCHANGED << now, samples, paths, lookedUp >>
  BY DEF Begin, history
<1>2. now \in Times /\ now \in Nat
  BY DEF IInv, CountersOK, Times
<1>3. NoReply \in Replies
  BY DEF NoReply, Replies
<1>4. y \in Busy /\ y.pc = "series"
  BY <1>2, <1>3 DEF Busy, PCs
<1>5. InRequest(y)
  BY RequestTypes DEF InRequest
<1>6. InTimeAt(y, now) /\ Judged(y)
  BY <1>2, TimesAssumption DEF InTimeAt, Judged
<1>7. worker[w].pc # "report"
  BY <1>1, IdleIsNotBusy
<1> HIDE DEF y
<1>8. WorkersOK' /\ CachesOK' /\ HistoryOK' /\ (Retained => FirstRemembered')
  BY <1>1, <1>4, <1>5, <1>6, <1>7, QuietStep
<1>9. CountersOK'
  BY TimesAssumption DEF IInv, CountersOK, Begin, counters, history, lookedUp
<1> QED
  BY <1>8, <1>9 DEF IInv

LEMMA CaptureUnwindsStep ==
  ASSUME IInv, NEW w \in Workers, CaptureUnwinds(w)
  PROVE  IInv'
<1>1. /\ worker[w].pc = "series" /\ worker' = [worker EXCEPT ![w] = Idle]
      /\ unwound' = unwound + TotalSamples(worker[w].req)
      /\ UNCHANGED << now, samples, paths, counters, started, lookedUp >>
  BY DEF CaptureUnwinds, Unwind
<1>2. worker[w] \in Busy
  BY <1>1, AtWork DEF IInv, PCs
<1>3. TotalSamples(worker[w].req) \in Nat
  BY <1>2, LoadTypes, BusyFields
<1>4. WorkersOK' /\ CachesOK' /\ HistoryOK' /\ (Retained => FirstRemembered')
  BY <1>1, QuietStep
<1>5. CountersOK'
  BY <1>1, <1>3 DEF IInv, CountersOK, counters, lookedUp
<1> QED
  BY <1>4, <1>5 DEF IInv

LEMMA ValidateSeriesStep ==
  ASSUME IInv, NEW w \in Workers, ValidateSeries(w)
  PROVE  IInv'
<1> DEFINE x == worker[w]
           bad == Timeseries(w).malformed
           R == IF bad THEN {"bad_labels"} ELSE {}
           pc == IF bad THEN "samples"
                 ELSE IF CrossPathDetection /\ x.req.path # Unknown THEN "paths" ELSE "writer"
           y == [x EXCEPT !.pc = pc]
<1>1. /\ x.pc = "series" /\ x.s <= Len(x.req.timeseries) /\ Observe(w, R) /\ GoesOn(w, R, y)
      /\ UNCHANGED << now, samples, paths, operations, evictions, samplesTotal, results, started, lookedUp >>
  BY DEF ValidateSeries
<1>2. x \in Busy /\ x # Idle /\ InRequest(x) /\ InTimeAt(x, now)
  BY <1>1, AtWork DEF IInv, PCs
<1>3. x.req \in Requests /\ Len(x.req.timeseries) \in Nat /\ x.s \in 1..Len(x.req.timeseries)
  BY <1>1, <1>2, BusyFields, RequestTypes DEF InRequest
<1>4. Len(SeriesAt(x).samples) \in Nat
  BY <1>2, <1>3, AtSeries, SeriesTypes
<1> HIDE DEF bad, R
<1>5. y \in Busy /\ y.pc = pc /\ y.req = x.req /\ y.s = x.s /\ y.j = x.j /\ y.nowMs = x.nowMs
  BY <1>2 DEF Busy, PCs
<1>6. pc \in {"samples", "paths", "writer"} /\ (pc = "paths" => x.req.path # Unknown)
  OBVIOUS
<1> HIDE DEF y, pc
<1>7. x.j = 1 /\ SeriesAt(y) = SeriesAt(x)
  BY <1>1, <1>2, <1>5 DEF InRequest, SeriesAt
<1>8. InRequest(y)
  BY <1>3, <1>4, <1>5, <1>6, <1>7 DEF InRequest
<1>9. InTimeAt(y, now) /\ Judged(y)
  BY <1>2, <1>5, <1>6 DEF InTimeAt, Judged
<1>10. /\ WorkersOK' /\ CachesOK' /\ HistoryOK' /\ (Retained => FirstRemembered')
       /\ unwound' \in Nat
  BY <1>1, <1>2, <1>5, <1>6, <1>8, <1>9, QuietlyGoesOn
<1>11. CountersOK'
  BY <1>1, <1>10, ObserveCounts DEF IInv, CountersOK, lookedUp
<1> QED
  BY <1>10, <1>11 DEF IInv

LEMMA CheckWriterStep ==
  ASSUME IInv, NEW w \in Workers, CheckWriter(w)
  PROVE  IInv'
<1> DEFINE x == worker[w]
           R == IF Timeseries(w).diagnostic /\ x.req.writer = "unknown"
                THEN {"diagnostic_writer_id_missing"} ELSE {}
           y == [x EXCEPT !.pc = "samples"]
<1>1. /\ x.pc = "writer" /\ Observe(w, R) /\ GoesOn(w, R, y)
      /\ UNCHANGED << now, samples, paths, operations, evictions, samplesTotal, results, started, lookedUp >>
  BY DEF CheckWriter
<1>2. x \in Busy /\ x # Idle /\ InRequest(x) /\ InTimeAt(x, now)
  BY <1>1, AtWork DEF IInv, PCs
<1>3. x.req \in Requests /\ Len(x.req.timeseries) \in Nat /\ x.s \in 1..Len(x.req.timeseries)
  BY <1>1, <1>2, BusyFields, RequestTypes DEF InRequest
<1>4. Len(SeriesAt(x).samples) \in Nat
  BY <1>2, <1>3, AtSeries, SeriesTypes
<1> HIDE DEF R
<1>5. y \in Busy /\ y.pc = "samples" /\ y.req = x.req /\ y.s = x.s /\ y.j = x.j /\ y.nowMs = x.nowMs
  BY <1>2 DEF Busy, PCs
<1> HIDE DEF y
<1>6. x.j = 1 /\ SeriesAt(y) = SeriesAt(x)
  BY <1>1, <1>2, <1>5 DEF InRequest, SeriesAt
<1>7. InRequest(y)
  BY <1>3, <1>4, <1>5, <1>6 DEF InRequest
<1>8. InTimeAt(y, now) /\ Judged(y)
  BY <1>2, <1>5 DEF InTimeAt, Judged
<1>9. /\ WorkersOK' /\ CachesOK' /\ HistoryOK' /\ (Retained => FirstRemembered')
      /\ unwound' \in Nat
  BY <1>1, <1>2, <1>5, <1>7, <1>8, QuietlyGoesOn
<1>10. CountersOK'
  BY <1>1, <1>9, ObserveCounts DEF IInv, CountersOK, lookedUp
<1> QED
  BY <1>9, <1>10 DEF IInv

LEMMA JudgeSampleStep ==
  ASSUME IInv, NEW w \in Workers, JudgeSample(w)
  PROVE  IInv'
<1> DEFINE x == worker[w]
           R == BadTimes(w)
           looked == ~Timeseries(w).malformed /\ R = {} /\ DuplicateDetection
           y == IF looked THEN [x EXCEPT !.pc = "lookup"] ELSE [x EXCEPT !.j = @ + 1]
<1>1. /\ x.pc = "samples" /\ Observe(w, R) /\ GoesOn(w, R, y)
      /\ UNCHANGED << now, samples, paths, operations, evictions, samplesTotal, results, started, lookedUp >>
  BY DEF JudgeSample
<1>2. x \in Busy /\ x # Idle /\ InRequest(x) /\ InTimeAt(x, now)
  BY <1>1, AtWork DEF IInv, PCs
<1>3. x.req \in Requests /\ Len(x.req.timeseries) \in Nat /\ x.s \in 1..Len(x.req.timeseries)
  BY <1>1, <1>2, BusyFields, RequestTypes DEF InRequest
<1>4. Len(SeriesAt(x).samples) \in Nat /\ x.j \in 1..Len(SeriesAt(x).samples)
  BY <1>2, <1>3, AtSeries, SeriesTypes, AtWorker DEF JudgeSample, InRequest
<1>5. looked => ~isStale(SampleAt(x).ts, x.nowMs) /\ ~isFuture(SampleAt(x).ts, x.nowMs)
  BY AtWorker DEF BadTimes
<1> HIDE DEF R, looked, x
<1>6. /\ y \in Busy /\ InRequest(y) /\ InTimeAt(y, now) /\ Judged(y)
      /\ y.pc \notin {"report", "report_path"}
  <2>1. CASE looked
    <3> DEFINE z == [x EXCEPT !.pc = "lookup"]
    <3>1. y = z
      BY <2>1
    <3>2. z \in Busy /\ z.pc = "lookup" /\ z.req = x.req /\ z.s = x.s /\ z.j = x.j /\ z.nowMs = x.nowMs
      BY <1>2 DEF Busy, PCs
    <3> HIDE DEF z, y
    <3>3. SeriesAt(z) = SeriesAt(x) /\ SampleAt(z) = SampleAt(x)
      BY <3>2 DEF SeriesAt, SampleAt
    <3>4. InRequest(z)
      BY <1>3, <1>4, <3>2, <3>3 DEF InRequest
    <3>5. Judged(z) /\ InTimeAt(z, now)
      BY <1>2, <1>5, <2>1, <3>2, <3>3 DEF Judged, InTimeAt
    <3> QED
      BY <3>1, <3>2, <3>4, <3>5
  <2>2. CASE ~looked
    <3> DEFINE n == x.j + 1
               z == [x EXCEPT !.j = n]
    <3>1. y = z
      BY <2>2
    <3>2. n \in Nat
      BY <1>2 DEF Busy
    <3> HIDE DEF n
    <3>3. z \in Busy /\ z.pc = "samples" /\ z.req = x.req /\ z.s = x.s /\ z.j = n /\ z.nowMs = x.nowMs
      BY <1>1, <1>2, <3>2 DEF Busy, PCs, x
    <3> HIDE DEF z, y
    <3>4. SeriesAt(z) = SeriesAt(x)
      BY <3>3 DEF SeriesAt
    <3>5. InRequest(z)
      BY <1>3, <1>4, <3>3, <3>4 DEF InRequest, n
    <3>6. Judged(z) /\ InTimeAt(z, now)
      BY <1>2, <3>3 DEF Judged, InTimeAt
    <3> QED
      BY <3>1, <3>3, <3>5, <3>6
  <2> QED
    BY <2>1, <2>2
<1> HIDE DEF y
<1>7. /\ WorkersOK' /\ CachesOK' /\ HistoryOK' /\ (Retained => FirstRemembered')
      /\ unwound' \in Nat
  BY <1>1, <1>2, <1>6, QuietlyGoesOn DEF x
<1>8. CountersOK'
  BY <1>1, <1>7, ObserveCounts DEF IInv, CountersOK, lookedUp
<1> QED
  BY <1>7, <1>8 DEF IInv

LEMMA JudgeHistogramsStep ==
  ASSUME IInv, NEW w \in Workers, JudgeHistograms(w)
  PROVE  IInv'
<1> DEFINE x == worker[w]
           hists == Timeseries(w).hists
           stale == {n \in 1..Len(hists) : isStale(hists[n], x.nowMs)}
           future == {n \in 1..Len(hists) : isFuture(hists[n], x.nowMs)}
           R == stale \cup future
           next == x.s + 1
           y == [x EXCEPT !.pc = "series", !.s = next, !.j = 1]
<1>1. /\ x.pc = "samples" /\ GoesOn(w, R, y)
      /\ findings' = IF Panics(w, R) THEN findings
                     ELSE [findings EXCEPT !["stale_sample"] = @ + Cardinality(stale),
                                           !["future_sample"] = @ + Cardinality(future)]
      /\ UNCHANGED << now, samples, paths, operations, evictions, samplesTotal, results, started, lookedUp >>
  BY DEF JudgeHistograms
<1>2. x \in Busy /\ x # Idle /\ InRequest(x) /\ InTimeAt(x, now)
  BY <1>1, AtWork DEF IInv, PCs
<1>3. x.req \in Requests /\ Len(x.req.timeseries) \in Nat /\ x.s \in 1..Len(x.req.timeseries)
  BY <1>1, <1>2, BusyFields, RequestTypes DEF InRequest
<1>4. Len(hists) \in Nat
  BY <1>2, <1>3, AtSeries, SeriesTypes, AtWorker
<1>5. Cardinality(stale) \in Nat /\ Cardinality(future) \in Nat
  <2>1. IsFiniteSet(1..Len(hists))
    BY <1>4, FS_Interval
  <2>2. stale \subseteq 1..Len(hists) /\ future \subseteq 1..Len(hists)
    OBVIOUS
  <2> QED
    BY <2>1, <2>2, FS_Subset, FS_CardinalityType
<1>6. next \in Nat /\ next = x.s + 1
  BY <1>3
<1> HIDE DEF R, stale, future, x, next
<1>7. /\ y \in Busy /\ y.pc = "series" /\ y.req = x.req /\ y.s = next /\ y.j = 1 /\ y.nowMs = x.nowMs
  BY <1>2, <1>6 DEF Busy, PCs
<1> HIDE DEF y
<1>8. InRequest(y)
  BY <1>3, <1>6, <1>7 DEF InRequest
<1>9. InTimeAt(y, now) /\ Judged(y)
  BY <1>2, <1>7 DEF InTimeAt, Judged
<1>10. /\ WorkersOK' /\ CachesOK' /\ HistoryOK' /\ (Retained => FirstRemembered')
       /\ unwound' \in Nat
  BY <1>1, <1>2, <1>7, <1>8, <1>9, QuietlyGoesOn DEF x
<1>11. findings' \in [Reasons -> Nat]
  BY <1>1, <1>5 DEF IInv, CountersOK, Reasons
<1>12. CountersOK'
  BY <1>1, <1>10, <1>11 DEF IInv, CountersOK, lookedUp
<1> QED
  BY <1>10, <1>12 DEF IInv

LEMMA FinishStep ==
  ASSUME IInv, NEW w \in Workers, Finish(w)
  PROVE  IInv'
<1> DEFINE x == worker[w]
<1>1. /\ x.pc = "series" /\ worker' = [worker EXCEPT ![w] = Idle]
      /\ UNCHANGED << now, samples, paths, operations, evictions, findings, started, lookedUp >>
  BY DEF Finish, Unwind
<1>2. x \in Busy
  BY <1>1, AtWork DEF IInv, PCs
<1>3. TotalSamples(x.req) \in Nat
  BY <1>2, LoadTypes, BusyFields
<1>4. WorkersOK' /\ CachesOK' /\ HistoryOK' /\ (Retained => FirstRemembered')
  BY <1>1, QuietStep
<1>5. results' \in [Results -> Nat]
  <2>1. Result(w) \in Results
    BY DEF Result, Results
  <2> QED
    BY <2>1 DEF IInv, CountersOK, Finish
<1>6. samplesTotal' \in Nat /\ unwound' \in Nat
  BY <1>3 DEF IInv, CountersOK, Finish, Unwind
<1>7. CountersOK'
  BY <1>1, <1>5, <1>6 DEF IInv, CountersOK, lookedUp
<1> QED
  BY <1>4, <1>7 DEF IInv

------------------------------------------------------------------------------
(* The reports.                                                             *)

LEMMA CountTypes ==
  ASSUME CountersOK, NEW w, NEW c \in Caches, worker[w].reply \in Replies, CountOperation(w, c)
  PROVE  operations' \in [Caches -> [{"hit", "miss"} -> Nat]] /\ evictions' \in [Caches -> Nat]
<1> DEFINE reply == worker[w].reply
           o == IF reply.hit THEN "hit" ELSE "miss"
<1>1. o \in {"hit", "miss"} /\ reply.evicted \in Nat
  BY DEF Replies
<1>2. /\ operations' = [operations EXCEPT ![c][o] = @ + 1]
      /\ evictions' = [evictions EXCEPT ![c] = @ + reply.evicted]
  BY DEF CountOperation
<1> HIDE DEF o, reply
<1> QED
  BY <1>1, <1>2 DEF CountersOK

LEMMA ReportPathStep ==
  ASSUME IInv, NEW w \in Workers, ReportPath(w)
  PROVE  IInv'
<1> DEFINE x == worker[w]
           reply == x.reply
           R == IF reply.hit /\ reply.existing # x.req.path THEN {"cross_path_collision"} ELSE {}
           y == [x EXCEPT !.pc = "writer", !.reply = NoReply]
           collision == [key |-> PathKey(w), first |-> reply.existing, path |-> x.req.path]
           C == IF R = {} \/ Panics(w, R) THEN {} ELSE {collision}
<1>1. /\ x.pc = "report_path" /\ CountOperation(w, "cross_path") /\ Observe(w, R) /\ GoesOn(w, R, y)
      /\ collisions' = collisions \cup C
      /\ UNCHANGED << now, samples, paths, samplesTotal, results, started, offered, offeredPaths, conflicts,
                      forgotten, expired >>
  BY DEF ReportPath
<1>2. x \in Busy /\ x # Idle /\ InRequest(x) /\ InTimeAt(x, now) /\ Answered(x, offered, offeredPaths)
  BY <1>1, AtWork DEF IInv, PCs
<1>3. /\ x.req \in Requests /\ Len(x.req.timeseries) \in Nat /\ x.s \in 1..Len(x.req.timeseries)
      /\ x.req.path \in Paths /\ reply \in Replies /\ NoReply \in Replies
  BY <1>1, <1>2, BusyFields, RequestTypes DEF InRequest, NoReply, Replies
<1>4. /\ Len(SeriesAt(x).samples) \in Nat /\ PathKey(w) = PathKeyAt(x)
      /\ PathKeyAt(x) \in PathKeys
  BY <1>2, <1>3, AtSeries, SeriesTypes, AtWorker
<1>5. R # {} => /\ collision \in [key : PathKeys, first : Paths, path : Paths]
                /\ collision.first # collision.path
                /\ [key |-> collision.key, path |-> collision.first] \in offeredPaths
  BY <1>1, <1>2, <1>3, <1>4 DEF Answered
<1> HIDE DEF R, collision, reply
<1>6. /\ y \in Busy /\ y.pc = "writer" /\ y.req = x.req /\ y.s = x.s /\ y.j = x.j /\ y.nowMs = x.nowMs
  BY <1>2, <1>3 DEF Busy, PCs
<1> HIDE DEF y
<1>7. x.j = 1 /\ SeriesAt(y) = SeriesAt(x)
  BY <1>1, <1>2, <1>6 DEF InRequest, SeriesAt
<1>8. InRequest(y)
  BY <1>3, <1>4, <1>6, <1>7 DEF InRequest
<1>9. InTimeAt(y, now) /\ Judged(y) /\ Answered(y, offered, offeredPaths)
  BY <1>2, <1>6 DEF InTimeAt, Judged, Answered
<1>10. unwound \in Nat /\ now \in Times /\ now <= now
  BY DEF IInv, CountersOK, Times
<1>11. PICK z : /\ worker' = [worker EXCEPT ![w] = z] /\ unwound' \in Nat
                /\ z = Idle \/ (z \in Busy /\ SamePlace(y, z))
  BY <1>1, <1>2, <1>6, <1>10, GoesOnMoves
<1>12. z # Idle => InRequest(z) /\ InTimeAt(z, now) /\ Judged(z) /\ Answered(z, offered, offeredPaths)
  BY <1>8, <1>9, <1>11, PlaceDecides
<1>13. WorkersOK'
  BY <1>1, <1>10, <1>11, <1>12, WorkerMoves DEF IInv
<1>14. CachesOK'
  BY <1>1 DEF IInv, CachesOK
<1>15. HistoryOK'
  BY <1>1, <1>5 DEF IInv, HistoryOK, FindingsAreReal
<1>16. Retained => FirstRemembered'
  BY <1>1, <1>11, StaysRemembered DEF IInv
<1>17. operations' \in [Caches -> [{"hit", "miss"} -> Nat]] /\ evictions' \in [Caches -> Nat]
  BY <1>1, <1>3, CountTypes DEF IInv, Caches, reply
<1>18. findings' \in [Reasons -> Nat]
  BY <1>1, ObserveCounts DEF IInv
<1>19. CountersOK'
  BY <1>1, <1>11, <1>17, <1>18 DEF IInv, CountersOK
<1> QED
  BY <1>13, <1>14, <1>15, <1>16, <1>19 DEF IInv

LEMMA ReportSampleStep ==
  ASSUME IInv, NEW w \in Workers, ReportSample(w)
  PROVE  IInv'
<1> DEFINE x == worker[w]
           reply == x.reply
           R == IF reply.hit /\ reply.existing # Sample(w).value
                THEN {"duplicate_timestamp_different_value"} ELSE {}
           n == x.j + 1
           y == [x EXCEPT !.pc = "samples", !.j = n, !.reply = NoReply]
           conflict == [offer |-> Offer(w), previous |-> reply.existing]
           C == IF R = {} \/ Panics(w, R) THEN {} ELSE {conflict}
<1>1. /\ x.pc = "report" /\ CountOperation(w, "sample_conflicts") /\ Observe(w, R) /\ GoesOn(w, R, y)
      /\ conflicts' = conflicts \cup C
      /\ UNCHANGED << now, samples, paths, samplesTotal, results, started, offered, offeredPaths, collisions,
                      forgotten, expired >>
  BY DEF ReportSample
<1>2. x \in Busy /\ x # Idle /\ InRequest(x) /\ InTimeAt(x, now) /\ Answered(x, offered, offeredPaths)
  BY <1>1, AtWork DEF IInv, PCs
<1>3. /\ x.req \in Requests /\ Len(x.req.timeseries) \in Nat /\ x.s \in 1..Len(x.req.timeseries)
      /\ reply \in Replies /\ NoReply \in Replies
  BY <1>1, <1>2, BusyFields, RequestTypes DEF InRequest, NoReply, Replies
<1>4. Len(SeriesAt(x).samples) \in Nat /\ x.j \in 1..Len(SeriesAt(x).samples)
  BY <1>1, <1>2, <1>3, AtSeries, SeriesTypes DEF InRequest
<1>5. /\ Sample(w) = SampleAt(x) /\ Offer(w) = OfferAt(x) /\ OfferAt(x) \in Offers
      /\ OfferAt(x).value = SampleAt(x).value /\ KeyOf(OfferAt(x)) = SampleKeyAt(x)
      /\ OfferAt(x).valid = x.req.valid
  BY <1>2, <1>3, <1>4, AtSample, AtWorker
<1>6. n \in Nat /\ n = x.j + 1
  BY <1>2 DEF Busy
<1>7. R # {} => /\ conflict \in [offer : Offers, previous : Values]
                /\ conflict.previous # conflict.offer.value
                /\ \E o \in offered : KeyOf(o) = KeyOf(conflict.offer) /\ o.value = conflict.previous
  <2>1. ASSUME R # {}
        PROVE  reply.existing \in Values /\ Offered(SampleKeyAt(x), reply.existing, offered)
    BY <1>1, <1>2, <2>1 DEF Answered
  <2> QED
    BY <1>5, <2>1 DEF Offered
<1>8. Panics(w, R) => ~Offer(w).valid
  BY <1>5 DEF Panics
<1>9. reply.hit /\ reply.existing # Sample(w).value <=> R # {}
  OBVIOUS
<1> HIDE DEF R, reply, n
<1>10. /\ y \in Busy /\ y.pc = "samples" /\ y.req = x.req /\ y.s = x.s /\ y.j = n /\ y.nowMs = x.nowMs
  BY <1>2, <1>3, <1>6 DEF Busy, PCs
<1> HIDE DEF y
<1>11. SeriesAt(y) = SeriesAt(x)
  BY <1>10 DEF SeriesAt
<1>12. InRequest(y)
  BY <1>3, <1>4, <1>6, <1>10, <1>11 DEF InRequest
<1>13. InTimeAt(y, now) /\ Judged(y) /\ Answered(y, offered, offeredPaths)
  BY <1>2, <1>10 DEF InTimeAt, Judged, Answered
<1>14. unwound \in Nat /\ now \in Times /\ now <= now
  BY DEF IInv, CountersOK, Times
<1>15. PICK z : /\ worker' = [worker EXCEPT ![w] = z] /\ unwound' \in Nat
                /\ z = Idle \/ (z \in Busy /\ SamePlace(y, z))
  BY <1>1, <1>2, <1>10, <1>14, GoesOnMoves
<1>16. z # Idle => InRequest(z) /\ InTimeAt(z, now) /\ Judged(z) /\ Answered(z, offered, offeredPaths)
  BY <1>12, <1>13, <1>15, PlaceDecides
<1>17. WorkersOK'
  BY <1>1, <1>14, <1>15, <1>16, WorkerMoves DEF IInv
<1>18. CachesOK'
  BY <1>1 DEF IInv, CachesOK
<1>19. HistoryOK'
  <2> HIDE DEF conflict
  <2> QED
    BY <1>1, <1>7 DEF IInv, HistoryOK, FindingsAreReal
<1>20. ASSUME NEW o, NEW first, Reported(o, first), o.valid, o.value # first
       PROVE  Reported(o, first)'
  <2>1. CASE [offer |-> o, previous |-> first] \in conflicts
    BY <1>1, <2>1 DEF Reported
  <2>2. CASE \E u \in Workers : /\ worker[u].pc = "report" /\ Offer(u) = o
                                /\ worker[u].reply.hit /\ worker[u].reply.existing = first
    <3>1. PICK u \in Workers : /\ worker[u].pc = "report" /\ Offer(u) = o
                               /\ worker[u].reply.hit /\ worker[u].reply.existing = first
      BY <2>2
    <3>2. CASE u = w
      <4>1. R # {} /\ ~Panics(w, R) /\ conflict = [offer |-> o, previous |-> first]
        BY <1>5, <1>8, <1>9, <1>20, <3>1, <3>2 DEF reply
      <4> QED
        BY <1>1, <4>1 DEF Reported
    <3>3. CASE u # w
      <4>1. worker'[u] = worker[u]
        BY <1>15, <3>3 DEF IInv, WorkersOK
      <4>2. Offer(u)' = Offer(u)
        BY <4>1 DEF Offer, Timeseries, Sample
      <4> QED
        BY <3>1, <4>1, <4>2 DEF Reported
    <3> QED
      BY <3>2, <3>3
  <2> QED
    BY <1>20, <2>1, <2>2 DEF Reported
<1>21. ASSUME Retained PROVE FirstRemembered'
  <2>1. ASSUME NEW o \in offered, KeyOf(o) \notin forgotten
        PROVE  /\ KeyOf(o) \in KeysIn(samples)
               /\ o.valid /\ o.value # Entry(samples, SampleHash, KeyOf(o)).value =>
                    Reported(o, Entry(samples, SampleHash, KeyOf(o)).value)'
    <3>1. /\ KeyOf(o) \in KeysIn(samples)
          /\ o.valid /\ o.value # Entry(samples, SampleHash, KeyOf(o)).value =>
               Reported(o, Entry(samples, SampleHash, KeyOf(o)).value)
      BY <1>21, <2>1 DEF IInv, FirstRemembered
    <3> QED
      BY <1>1, <1>20, <3>1
  <2> QED
    BY <1>1, <2>1 DEF FirstRemembered
<1>22. operations' \in [Caches -> [{"hit", "miss"} -> Nat]] /\ evictions' \in [Caches -> Nat]
  BY <1>1, <1>3, CountTypes DEF IInv, Caches, reply
<1>23. findings' \in [Reasons -> Nat]
  BY <1>1, ObserveCounts DEF IInv
<1>24. CountersOK'
  BY <1>1, <1>15, <1>22, <1>23 DEF IInv, CountersOK
<1> QED
  BY <1>17, <1>18, <1>19, <1>21, <1>24 DEF IInv

------------------------------------------------------------------------------
(* The look-ups.                                                            *)

LEMMA LookupPathStep ==
  ASSUME IInv, NEW w \in Workers, NEW later \in Times, LookupPath(w, later)
  PROVE  IInv'
<1> DEFINE x == worker[w]
           key == PathKey(w)
           path == x.req.path
           hit == ShardedHit(paths, PathHash, key, now)
           put == ShardedGetOrPut(paths, PathHash, key, path, now, later)
           existing == IF hit THEN Existing(paths, PathHash, key) ELSE Unknown
           reply == [hit |-> hit, evicted |-> put.evicted, existing |-> existing]
           y == [x EXCEPT !.pc = "report_path", !.reply = reply]
           claim == [key |-> key, path |-> path]
<1>1. /\ x.pc = "paths" /\ later >= now /\ InTime(later)
      /\ paths' = put.cache /\ now' = later
      /\ offeredPaths' = offeredPaths \cup {claim}
      /\ UNCHANGED << samples, counters, started, offered, conflicts, collisions, forgotten, unwound >>
  BY DEF LookupPath
<1>2. expired' = [expired EXCEPT !["cross_path"] = IF ~hit /\ key \in KeysIn(paths) THEN @ + 1 ELSE @]
  BY DEF LookupPath
<1>3. x \in Busy /\ x # Idle /\ InRequest(x) /\ InTimeAt(x, now)
  BY <1>1, AtWork DEF IInv, PCs
<1>4. /\ x.req \in Requests /\ Len(x.req.timeseries) \in Nat /\ x.s \in 1..Len(x.req.timeseries)
      /\ path \in Paths
  BY <1>1, <1>3, BusyFields, RequestTypes DEF InRequest
<1>5. /\ SeriesAt(x) \in SeriesData /\ Len(SeriesAt(x).samples) \in Nat
      /\ key = PathKeyAt(x) /\ key \in PathKeys
  BY <1>3, <1>4, AtSeries, SeriesTypes, AtWorker
<1>6. worker' = [worker EXCEPT ![w] = y]
  BY <1>3 DEF LookupPath, IInv, WorkersOK, Busy
<1>7. now \in Nat /\ later \in Nat /\ now <= later
  BY <1>1 DEF IInv, CountersOK, Times
<1>8. /\ Sharded(PathKeys, Paths, CacheTTL, PathHash, paths) /\ PathHash \in [PathKeys -> Nat]
      /\ \A k \in KeysIn(paths) : [key |-> k, path |-> Entry(paths, PathHash, k).value] \in offeredPaths
  BY CacheSizeAssumption DEF IInv, CachesOK
<1>9. hit <=> (key \in KeysIn(paths) /\ now <= Entry(paths, PathHash, key).expiresAt)
  BY <1>5, <1>8, ShardedHits
<1>10. hit => /\ put = [cache |-> paths, evicted |-> 0]
              /\ existing = Entry(paths, PathHash, key).value /\ existing \in Paths
              /\ [key |-> key, path |-> existing] \in offeredPaths
  <2>1. ASSUME hit PROVE put = [cache |-> paths, evicted |-> 0]
    BY <1>5, <1>8, <2>1, ShardedHitKeeps
  <2>2. ASSUME hit PROVE existing = Entry(paths, PathHash, key).value
    BY <1>5, <1>8, <2>2, ShardedHits
  <2>3. ASSUME hit PROVE Entry(paths, PathHash, key).value \in Paths
    BY <1>5, <1>8, <1>9, <2>3, EntryOfKey
  <2> HIDE DEF hit, put, existing, key
  <2> QED
    BY <1>8, <1>9, <2>1, <2>2, <2>3
<1>11. ~hit => /\ Sharded(PathKeys, Paths, CacheTTL, PathHash, put.cache)
               /\ put.evicted \in {0, 1} /\ existing = Unknown
               /\ Entry(put.cache, PathHash, key) = UsedSlot(key, path, later + CacheTTL)
               /\ \A k \in KeysIn(put.cache) \ {key} :
                    k \in KeysIn(paths) /\ Entry(put.cache, PathHash, k) = Entry(paths, PathHash, k)
  <2>1. ASSUME ~hit PROVE existing = Unknown
    BY <2>1
  <2> HIDE DEF key, path, existing
  <2>2. ASSUME ~hit
        PROVE  /\ Sharded(PathKeys, Paths, CacheTTL, PathHash, put.cache)
               /\ put.evicted \in {0, 1}
               /\ Entry(put.cache, PathHash, key) = UsedSlot(key, path, later + CacheTTL)
               /\ \A k \in KeysIn(put.cache) \ {key} :
                    k \in KeysIn(paths) /\ Entry(put.cache, PathHash, k) = Entry(paths, PathHash, k)
    <3>1. /\ Sharded(PathKeys, Paths, CacheTTL, PathHash, paths) /\ PathHash \in [PathKeys -> Nat]
          /\ key \in PathKeys /\ path \in Paths /\ later \in Nat
          /\ ~ShardedHit(paths, PathHash, key, now)
          /\ put = ShardedGetOrPut(paths, PathHash, key, path, now, later)
      BY <1>4, <1>5, <1>7, <1>8, <2>2
    <3> HIDE DEF hit, put
    <3>2. MissOutcome(PathKeys, Paths, CacheTTL, PathHash, paths, key, path, later, put)
      BY ONLY <3>1, ShardedMissStores
    <3> QED
      BY <3>2 DEF MissOutcome
  <2> HIDE DEF hit, put
  <2> QED
    BY <2>1, <2>2
<1>12. hit \in BOOLEAN
  BY DEF ShardedHit, Hit
<1> HIDE DEF hit, put, existing, key, path
<1>13. put.evicted \in {0, 1} /\ existing \in Paths \cup {Unknown}
  BY <1>10, <1>11
<1>14. reply \in Replies
  BY <1>12, <1>13 DEF Replies
<1>15. CachesOK'
  <2>1. Sharded(PathKeys, Paths, CacheTTL, PathHash, put.cache)
    BY <1>8, <1>10, <1>11
  <2>2. ASSUME NEW k \in KeysIn(put.cache)
        PROVE  [key |-> k, path |-> Entry(put.cache, PathHash, k).value] \in offeredPaths \cup {claim}
    <3>1. CASE hit
      BY <1>8, <1>10, <3>1
    <3>2. CASE ~hit /\ k = key
      BY <1>11, <3>2 DEF UsedSlot
    <3>3. CASE ~hit /\ k # key
      BY <1>8, <1>11, <3>3
    <3> QED
      BY <3>1, <3>2, <3>3
  <2> QED
    BY <1>1, <2>1, <2>2 DEF IInv, CachesOK
<1>16. claim \in [key : PathKeys, path : Paths]
  BY <1>4, <1>5 DEF path
<1> DEFINE ec == IF ~hit /\ key \in KeysIn(paths) THEN expired["cross_path"] + 1 ELSE expired["cross_path"]
<1>17. CountersOK'
  <2>1. expired' = [expired EXCEPT !["cross_path"] = ec] /\ ec \in Nat
    BY <1>2 DEF IInv, CountersOK, Caches
  <2> HIDE DEF ec
  <2> QED
    BY <1>1, <2>1 DEF IInv, CountersOK, counters
<1>18. HistoryOK'
  <2> HIDE DEF claim
  <2> QED
    BY <1>1, <1>16 DEF IInv, HistoryOK, FindingsAreReal
<1>19. Retained => FirstRemembered'
  <2>1. worker[w].pc # "report"
    BY <1>1
  <2> HIDE DEF x, y
  <2> QED
    BY <1>1, <1>6, <2>1, StaysRemembered DEF IInv
<1>20. /\ y \in Busy /\ y.pc = "report_path" /\ y.req = x.req /\ y.s = x.s /\ y.j = x.j /\ y.nowMs = x.nowMs
       /\ y.reply = reply
  <2> HIDE DEF reply
  <2> QED
    BY <1>3, <1>14 DEF Busy, PCs
<1> HIDE DEF y
<1>21. x.j = 1 /\ SeriesAt(y) = SeriesAt(x) /\ PathKeyAt(y) = key
  BY <1>1, <1>3, <1>5, <1>20 DEF InRequest, SeriesAt, PathKeyAt
<1>22. InRequest(y)
  BY <1>1, <1>3, <1>4, <1>5, <1>20, <1>21 DEF InRequest
<1>23. InTimeAt(y, now')
  <2>1. later <= x.nowMs + MaxDelay /\ x.nowMs \in Nat
    BY <1>1, <1>3 DEF InTime, Busy, Times
  <2> HIDE DEF x
  <2> QED
    BY <1>1, <1>3, <1>7, <1>20, <2>1 DEF InTimeAt
<1>24. Judged(y)
  BY <1>20 DEF Judged
<1>25. Answered(y, offered', offeredPaths')
  BY <1>1, <1>10, <1>20, <1>21 DEF Answered
<1>26. WorkersOK'
  BY <1>1, <1>6, <1>7, <1>20, <1>22, <1>23, <1>24, <1>25, WorkerMoves DEF IInv
<1> QED
  BY <1>15, <1>17, <1>18, <1>19, <1>26 DEF IInv

\* A sample that was judged in time to be looked up finds the entry of its key, if the cache
\* retains it long enough.
LEMMA RetainedEntryHits ==
  ASSUME Retained, CountersOK, CachesOK, NEW x \in Busy, Judged(x), InTimeAt(x, now), x.pc = "lookup",
         x.s \in 1..Len(x.req.timeseries), x.j \in 1..Len(SeriesAt(x).samples),
         SampleKeyAt(x) \in KeysIn(samples)
  PROVE  ShardedHit(samples, SampleHash, SampleKeyAt(x), now)
<1> DEFINE k == SampleKeyAt(x)
           e == Entry(samples, SampleHash, k)
           ts == SampleAt(x).ts
           since == x.nowMs
           expiresAt == e.expiresAt
<1>1. Sharded(SampleKeys, Values, CacheTTL, SampleHash, samples) /\ SampleHash \in [SampleKeys -> Nat]
  BY CacheSizeAssumption DEF CachesOK
<1>2. k \in SampleKeys /\ k.ts = ts /\ ts \in Nat /\ since \in Nat
  BY AtSample DEF Busy, Times
<1>3. expiresAt \in Nat /\ ts + CacheTTL <= expiresAt + FutureSkew
  BY <1>1, <1>2, EntryOfKey DEF CachesOK
<1>4. ~(ts < since - StaleCutoff) /\ now <= since + MaxDelay /\ now \in Nat
  BY DEF Judged, isStale, InTimeAt, CountersOK, Times
<1>5. CacheTTL >= StaleCutoff + FutureSkew + MaxDelay
  BY DEF Retained
<1> HIDE DEF ts, since, expiresAt, k
<1>6. now <= expiresAt
  BY <1>2, <1>3, <1>4, <1>5, TimesAssumption
<1> QED
  BY <1>1, <1>2, <1>6, ShardedHits DEF k, expiresAt

\* How the cache of the samples looks after a look-up: it has the key, and each entry
\* it has was there before or is the new one.
LEMMA LookupSampleStores ==
  ASSUME IInv, NEW w \in Workers, NEW later \in Times, LookupSample(w, later)
  PROVE  LET key == SampleKey(w)
             hit == ShardedHit(samples, SampleHash, key, now)
             put == ShardedGetOrPut(samples, SampleHash, key, Sample(w).value, now, later)
             r == put.cache
         IN
           /\ Sharded(SampleKeys, Values, CacheTTL, SampleHash, r) /\ put.evicted \in {0, 1}
           /\ hit => /\ r = samples /\ put.evicted = 0 /\ key \in KeysIn(samples)
                     /\ Existing(samples, SampleHash, key) = Entry(samples, SampleHash, key).value
                     /\ Existing(samples, SampleHash, key) \in Values
           /\ ~hit => /\ key \in KeysIn(r)
                      /\ Entry(r, SampleHash, key) = UsedSlot(key, Sample(w).value, later + CacheTTL)
                      /\ Retained => key \notin KeysIn(samples)
           /\ \A k \in KeysIn(r) : (hit \/ k # key) =>
                k \in KeysIn(samples) /\ Entry(r, SampleHash, k) = Entry(samples, SampleHash, k)
<1> DEFINE x == worker[w]
           key == SampleKey(w)
           v == Sample(w).value
           hit == ShardedHit(samples, SampleHash, key, now)
           put == ShardedGetOrPut(samples, SampleHash, key, v, now, later)
           old == Existing(samples, SampleHash, key)
<1>1. x.pc = "lookup"
  BY DEF LookupSample
<1>2. x \in Busy /\ InRequest(x) /\ InTimeAt(x, now) /\ Judged(x)
  BY <1>1, AtWork DEF IInv, PCs
<1>3. x.s \in 1..Len(x.req.timeseries) /\ Len(SeriesAt(x).samples) \in Nat
  BY <1>1, <1>2, AtSeries, SeriesTypes DEF InRequest
<1>4. x.j \in 1..Len(SeriesAt(x).samples)
  BY <1>1, <1>2, <1>3 DEF InRequest
<1>5. key \in SampleKeys /\ key = SampleKeyAt(x) /\ v \in Values
  BY <1>2, <1>3, <1>4, AtSample, AtWorker
<1>6. Sharded(SampleKeys, Values, CacheTTL, SampleHash, samples) /\ SampleHash \in [SampleKeys -> Nat]
  BY CacheSizeAssumption DEF IInv, CachesOK
<1>7. later \in Nat
  BY DEF Times
<1>8. Retained /\ key \in KeysIn(samples) => hit
  BY <1>1, <1>2, <1>3, <1>4, <1>5, RetainedEntryHits DEF IInv
<1> HIDE DEF key, v, x
<1>9. ASSUME hit
      PROVE  /\ put = [cache |-> samples, evicted |-> 0] /\ key \in KeysIn(samples)
             /\ old = Entry(samples, SampleHash, key).value /\ old \in Values
  <2>1. put = [cache |-> samples, evicted |-> 0]
    BY <1>5, <1>6, <1>9, ShardedHitKeeps
  <2>2. key \in KeysIn(samples) /\ old = Entry(samples, SampleHash, key).value
    BY <1>5, <1>6, <1>9, ShardedHits
  <2>3. Entry(samples, SampleHash, key).value \in Values
    BY <1>5, <1>6, <2>2, EntryOfKey
  <2> QED
    BY <2>1, <2>2, <2>3
<1>10. ASSUME ~hit
       PROVE  /\ Sharded(SampleKeys, Values, CacheTTL, SampleHash, put.cache)
              /\ put.evicted \in {0, 1} /\ key \in KeysIn(put.cache)
              /\ Entry(put.cache, SampleHash, key) = UsedSlot(key, v, later + CacheTTL)
              /\ \A k \in KeysIn(put.cache) \ {key} :
                   k \in KeysIn(samples) /\ Entry(put.cache, SampleHash, k) = Entry(samples, SampleHash, k)
  <2>1. /\ Sharded(SampleKeys, Values, CacheTTL, SampleHash, samples) /\ SampleHash \in [SampleKeys -> Nat]
        /\ key \in SampleKeys /\ v \in Values /\ later \in Nat
        /\ ~ShardedHit(samples, SampleHash, key, now)
        /\ put = ShardedGetOrPut(samples, SampleHash, key, v, now, later)
    BY <1>5, <1>6, <1>7, <1>10
  <2> HIDE DEF hit, put
  <2>2. MissOutcome(SampleKeys, Values, CacheTTL, SampleHash, samples, key, v, later, put)
    BY ONLY <2>1, ShardedMissStores
  <2> QED
    BY <2>2 DEF MissOutcome
<1> HIDE DEF hit, put, old
<1>11. /\ Sharded(SampleKeys, Values, CacheTTL, SampleHash, put.cache) /\ put.evicted \in {0, 1}
       /\ hit => /\ put.cache = samples /\ put.evicted = 0 /\ key \in KeysIn(samples)
                 /\ old = Entry(samples, SampleHash, key).value
                 /\ old \in Values
       /\ ~hit => /\ key \in KeysIn(put.cache)
                  /\ Entry(put.cache, SampleHash, key) = UsedSlot(key, v, later + CacheTTL)
                  /\ Retained => key \notin KeysIn(samples)
  BY <1>6, <1>8, <1>9, <1>10
<1>12. ASSUME NEW k \in KeysIn(put.cache), hit \/ k # key
       PROVE  k \in KeysIn(samples) /\ Entry(put.cache, SampleHash, k) = Entry(samples, SampleHash, k)
  BY <1>9, <1>10, <1>12
<1> QED
  BY <1>11, <1>12 DEF hit, put, old, key, v

LEMMA LookupSampleStep ==
  ASSUME IInv, NEW w \in Workers, NEW later \in Times, LookupSample(w, later)
  PROVE  IInv'
<1> DEFINE x == worker[w]
           key == SampleKey(w)
           v == Sample(w).value
           hit == ShardedHit(samples, SampleHash, key, now)
           put == ShardedGetOrPut(samples, SampleHash, key, v, now, later)
           r == put.cache
           old == Existing(samples, SampleHash, key)
           existing == IF hit THEN old ELSE Unknown
           reply == [hit |-> hit, evicted |-> put.evicted, existing |-> existing]
           y == [x EXCEPT !.pc = "report", !.reply = reply]
<1>1. /\ x.pc = "lookup" /\ later >= now /\ InTime(later)
      /\ samples' = r /\ now' = later /\ offered' = offered \cup {Offer(w)}
      /\ forgotten' = forgotten \cup (KeysIn(samples) \ KeysIn(r))
      /\ UNCHANGED << paths, counters, started, offeredPaths, conflicts, collisions, unwound >>
  BY DEF LookupSample
<1>2. expired' = [expired EXCEPT !["sample_conflicts"] = IF ~hit /\ key \in KeysIn(samples) THEN @ + 1 ELSE @]
  BY DEF LookupSample
<1>3. x \in Busy /\ x # Idle /\ InRequest(x) /\ InTimeAt(x, now) /\ Judged(x)
  BY <1>1, AtWork DEF IInv, PCs
<1>4. x.req \in Requests /\ Len(x.req.timeseries) \in Nat /\ x.s \in 1..Len(x.req.timeseries)
  BY <1>1, <1>3, BusyFields, RequestTypes DEF InRequest
<1>5. SeriesAt(x) \in SeriesData /\ Len(SeriesAt(x).samples) \in Nat /\ x.j \in 1..Len(SeriesAt(x).samples)
  BY <1>1, <1>3, <1>4, AtSeries, SeriesTypes DEF InRequest
<1>6. /\ Sample(w) = SampleAt(x) /\ key = SampleKeyAt(x) /\ key \in SampleKeys /\ v \in Values
      /\ Offer(w) = OfferAt(x) /\ Offer(w) \in Offers /\ KeyOf(Offer(w)) = key /\ Offer(w).value = v
      /\ key.ts = SampleAt(x).ts /\ SampleAt(x).ts \in Times
  BY <1>3, <1>4, <1>5, AtSample, AtWorker
<1>7. worker' = [worker EXCEPT ![w] = y]
  BY <1>3 DEF LookupSample, IInv, WorkersOK, Busy
<1>8. now \in Nat /\ later \in Nat /\ now <= later
  BY <1>1 DEF IInv, CountersOK, Times
<1>9. /\ Sharded(SampleKeys, Values, CacheTTL, SampleHash, r) /\ put.evicted \in {0, 1}
      /\ hit => /\ r = samples /\ put.evicted = 0 /\ key \in KeysIn(samples)
                /\ old = Entry(samples, SampleHash, key).value /\ old \in Values
      /\ ~hit => /\ key \in KeysIn(r)
                 /\ Entry(r, SampleHash, key) = UsedSlot(key, v, later + CacheTTL)
                 /\ Retained => key \notin KeysIn(samples)
      /\ \A k \in KeysIn(r) : (hit \/ k # key) =>
           k \in KeysIn(samples) /\ Entry(r, SampleHash, k) = Entry(samples, SampleHash, k)
  BY LookupSampleStores
<1>10. hit \in BOOLEAN
  BY DEF ShardedHit, Hit
<1>11. /\ SampleHash \in [SampleKeys -> Nat]
       /\ Sharded(SampleKeys, Values, CacheTTL, SampleHash, samples)
       /\ \A k \in KeysIn(samples) :
            /\ Offered(k, Entry(samples, SampleHash, k).value, offered)
            /\ k.ts + CacheTTL <= Entry(samples, SampleHash, k).expiresAt + FutureSkew
  BY CacheSizeAssumption DEF IInv, CachesOK
<1>12. KeysIn(samples) \subseteq SampleKeys
  BY <1>11, EntryOfKey
<1> HIDE DEF hit, put, r, old, key, v
<1>13. reply \in Replies
  BY <1>9, <1>10 DEF Replies
<1>14. /\ y \in Busy /\ y.pc = "report" /\ y.req = x.req /\ y.s = x.s /\ y.j = x.j /\ y.nowMs = x.nowMs
       /\ y.reply = reply
  <2> HIDE DEF reply
  <2> QED
    BY <1>3, <1>13 DEF Busy, PCs
<1>15. x.nowMs \in Nat /\ x.nowMs <= later /\ later <= x.nowMs + MaxDelay
  <2>1. later <= x.nowMs + MaxDelay /\ x.nowMs \in Nat /\ x.nowMs <= now
    BY <1>1, <1>3 DEF InTime, InTimeAt, Busy, Times
  <2> QED
    BY <1>8, <2>1
<1>16. /\ x.pc # "report" /\ worker'[w] = y
       /\ SeriesAt(y) = SeriesAt(x) /\ SampleAt(y) = SampleAt(x) /\ OfferAt(y) = Offer(w)
       /\ SampleKeyAt(y) = key
  <2>1. SeriesAt(y) = SeriesAt(x) /\ SampleAt(y) = SampleAt(x)
    BY <1>14 DEF SeriesAt, SampleAt
  <2>2. OfferAt(y) = OfferAt(x) /\ SampleKeyAt(y) = SampleKeyAt(x)
    BY <1>14, <2>1 DEF OfferAt, SampleKeyAt
  <2>3. worker'[w] = y
    BY <1>7 DEF IInv, WorkersOK
  <2> QED
    BY <1>1, <1>6, <2>1, <2>2, <2>3
<1>17. CachesOK'
  <2>1. ASSUME NEW k \in KeysIn(r)
        PROVE  /\ Offered(k, Entry(r, SampleHash, k).value, offered \cup {Offer(w)})
               /\ k.ts + CacheTTL <= Entry(r, SampleHash, k).expiresAt + FutureSkew
    <3>1. CASE hit \/ k # key
      BY <1>9, <1>11, <3>1 DEF Offered
    <3>2. CASE ~hit /\ k = key
      <4> DEFINE ts == SampleAt(x).ts
                 since == x.nowMs
      <4>1. Entry(r, SampleHash, k).value = v /\ Entry(r, SampleHash, k).expiresAt = later + CacheTTL
        BY <1>9, <3>2 DEF UsedSlot
      <4>2. ~(ts > since + FutureSkew) /\ ts \in Nat /\ since \in Nat /\ since <= later
        BY <1>1, <1>3, <1>6, <1>15 DEF Judged, isFuture, Times
      <4> HIDE DEF ts, since
      <4>3. ts + CacheTTL <= (later + CacheTTL) + FutureSkew
        BY <1>8, <4>2, TimesAssumption
      <4> QED
        BY <1>6, <3>2, <4>1, <4>3 DEF ts, Offered
    <3> QED
      BY <3>1, <3>2
  <2> QED
    BY <1>1, <1>9, <2>1 DEF IInv, CachesOK
<1> DEFINE ec == IF ~hit /\ key \in KeysIn(samples) THEN expired["sample_conflicts"] + 1
                 ELSE expired["sample_conflicts"]
<1>18. CountersOK'
  <2>1. expired' = [expired EXCEPT !["sample_conflicts"] = ec] /\ ec \in Nat
    BY <1>2 DEF IInv, CountersOK, Caches
  <2> HIDE DEF ec
  <2> QED
    BY <1>1, <2>1 DEF IInv, CountersOK, counters
<1>19. HistoryOK'
  <2>1. offered' \subseteq Offers /\ forgotten' \subseteq SampleKeys /\ offered \subseteq offered'
    BY <1>1, <1>6, <1>12 DEF IInv, HistoryOK
  <2> QED
    BY <1>1, <2>1 DEF IInv, HistoryOK, FindingsAreReal
<1> HIDE DEF x, y, reply
<1>20. ASSUME NEW o \in offered, NEW first, Reported(o, first) PROVE Reported(o, first)'
  BY <1>1, <1>7, <1>16, <1>20, StaysReported DEF IInv, x
<1>21. ASSUME Retained PROVE FirstRemembered'
  <2>1. ASSUME NEW o \in offered', KeyOf(o) \notin forgotten'
        PROVE  /\ KeyOf(o) \in KeysIn(r)
               /\ o.valid /\ o.value # Entry(r, SampleHash, KeyOf(o)).value =>
                    \E first : /\ first = Entry(r, SampleHash, KeyOf(o)).value
                               /\ Reported(o, first)'
    <3>1. CASE o \in offered
      <4>1. /\ KeyOf(o) \in KeysIn(samples)
            /\ o.valid /\ o.value # Entry(samples, SampleHash, KeyOf(o)).value =>
                 Reported(o, Entry(samples, SampleHash, KeyOf(o)).value)
        BY <1>1, <1>21, <2>1, <3>1 DEF IInv, FirstRemembered
      <4>2. KeyOf(o) \in KeysIn(r) /\ (hit \/ KeyOf(o) # key)
        BY <1>1, <1>9, <1>21, <2>1, <4>1
      <4>3. Entry(r, SampleHash, KeyOf(o)) = Entry(samples, SampleHash, KeyOf(o))
        BY <1>9, <4>2
      <4> DEFINE first == Entry(samples, SampleHash, KeyOf(o)).value
      <4>4. o.valid /\ o.value # first => Reported(o, first)
        BY <4>1
      <4>5. PICK f : f = first
        OBVIOUS
      <4>6. o.valid /\ o.value # f => Reported(o, f)'
        <5>1. o.valid /\ o.value # f => Reported(o, f)
          BY <4>4, <4>5
        <5> QED
          BY <1>20, <3>1, <5>1
      <4> QED
        BY <4>2, <4>3, <4>5, <4>6
    <3>2. CASE o = Offer(w) /\ ~hit
      BY <1>6, <1>9, <3>2 DEF UsedSlot
    <3>3. CASE o = Offer(w) /\ hit
      <4>1. KeyOf(o) = key /\ key \in KeysIn(r) /\ old = Entry(r, SampleHash, KeyOf(o)).value
        BY <1>6, <1>9, <3>3
      <4>2. y.reply.hit /\ y.reply.existing = old /\ y.pc = "report"
        BY <1>14, <3>3 DEF reply
      <4>3. PICK f : f = old
        OBVIOUS
      <4>4. Offer(w)' = o
        <5>1. Offer(w)' = OfferAt(worker'[w])
          BY DEF Offer, OfferAt, Timeseries, Sample, SeriesAt, SampleAt
        <5> QED
          BY <1>16, <3>3, <5>1
      <4>5. Reported(o, f)'
        BY <1>16, <4>2, <4>3, <4>4 DEF Reported
      <4> QED
        BY <4>1, <4>3, <4>5
    <3> QED
      BY <1>1, <2>1, <3>1, <3>2, <3>3
  <2> QED
    BY <1>1, <2>1 DEF FirstRemembered
<1>22. InRequest(y)
  BY <1>3, <1>4, <1>5, <1>14, <1>16 DEF InRequest
<1>23. InTimeAt(y, now') /\ Judged(y)
  BY <1>1, <1>14, <1>15 DEF InTimeAt, Judged
<1>24. Answered(y, offered', offeredPaths')
  <2>1. OfferAt(y) \in offered'
    BY <1>1, <1>16
  <2>2. ASSUME y.reply.hit
        PROVE  /\ y.reply.evicted = 0 /\ y.reply.existing \in Values
               /\ Offered(SampleKeyAt(y), y.reply.existing, offered')
    <3>1. hit /\ y.reply.existing = old /\ y.reply.evicted = put.evicted
      BY <1>14, <2>2 DEF reply
    <3> QED
      BY <1>1, <1>9, <1>11, <1>16, <3>1 DEF Offered
  <2> QED
    BY <1>14, <2>1, <2>2 DEF Answered
<1>25. WorkersOK'
  <2>1. offered \subseteq offered' /\ offeredPaths \subseteq offeredPaths' /\ now' \in Times /\ now <= now'
        /\ InTime(now')
    BY <1>1, <1>8 DEF IInv, CountersOK
  <2> QED
    BY <1>7, <1>14, <1>22, <1>23, <1>24, <2>1, WorkerMoves DEF IInv
<1> QED
  BY <1>17, <1>18, <1>19, <1>21, <1>25 DEF IInv

------------------------------------------------------------------------------
(* The clock, the start, and what follows.                                  *)

LEMMA TickStep ==
  ASSUME IInv, Tick
  PROVE  IInv'
<1>1. /\ now' = now + 1 /\ now < MaxTime /\ InTime(now + 1)
      /\ UNCHANGED << samples, paths, counters, worker, started, history >>
  BY DEF Tick
<1>2. now' \in Times /\ now \in Nat
  BY <1>1, TimesAssumption DEF IInv, CountersOK, Times
<1>3. WorkersOK'
  <2>1. ASSUME NEW u \in Workers, worker[u] # Idle PROVE InTimeAt(worker[u], now')
    <3> DEFINE since == worker[u].nowMs
    <3>1. since <= now /\ now' <= since + MaxDelay /\ since \in Nat
      BY <1>1, <2>1 DEF IInv, WorkersOK, InTime, InTimeAt, Busy, Times
    <3> HIDE DEF since
    <3>2. since <= now'
      BY <1>1, <1>2, <3>1
    <3> QED
      BY <3>1, <3>2 DEF InTimeAt, since
  <2> QED
    BY <1>1, <2>1 DEF IInv, WorkersOK, history, lookedUp
<1>4. CachesOK' /\ CountersOK' /\ HistoryOK'
  BY <1>1, <1>2 DEF IInv, CachesOK, CountersOK, HistoryOK, FindingsAreReal, counters, history,
     lookedUp
<1>5. Retained => FirstRemembered'
  BY <1>1 DEF IInv, FirstRemembered, Reported, Offer, Timeseries, Sample, history, lookedUp
<1> QED
  BY <1>3, <1>4, <1>5 DEF IInv

LEMMA StutterStep ==
  ASSUME IInv, UNCHANGED vars
  PROVE  IInv'
<1>1. UNCHANGED << now, samples, paths, operations, evictions, findings, samplesTotal, results, worker,
                   started, offered, offeredPaths, conflicts, collisions, forgotten, expired, unwound >>
  BY DEF vars, counters, history, lookedUp
<1>2. Retained => FirstRemembered'
  BY <1>1 DEF IInv, FirstRemembered, Reported, Offer, Timeseries, Sample
<1>3. WorkersOK' /\ CachesOK' /\ CountersOK' /\ HistoryOK'
  BY <1>1 DEF IInv, WorkersOK, CachesOK, CountersOK, HistoryOK, FindingsAreReal
<1> QED
  BY <1>2, <1>3 DEF IInv

LEMMA InitIInv == Init => IInv
<1> SUFFICES ASSUME Init PROVE IInv
  OBVIOUS
<1>1. WorkersOK
  BY DEF Init, WorkersOK
<1>2. CachesOK
  <2>1. /\ Sharded(SampleKeys, Values, CacheTTL, SampleHash, samples) /\ KeysIn(samples) = {}
        /\ Sharded(PathKeys, Paths, CacheTTL, PathHash, paths) /\ KeysIn(paths) = {}
    BY NewSharded, CacheSizeAssumption, TimesAssumption DEF Init
  <2> QED
    BY <2>1 DEF CachesOK
<1>3. CountersOK
  BY TimesAssumption DEF Init, CountersOK, Times
<1>4. HistoryOK /\ FirstRemembered
  BY DEF Init, HistoryOK, FindingsAreReal, FirstRemembered
<1> QED
  BY <1>1, <1>2, <1>3, <1>4 DEF IInv

LEMMA NextIInv == IInv /\ [Next]_vars => IInv'
<1> SUFFICES ASSUME IInv, [Next]_vars PROVE IInv'
  OBVIOUS
<1>1. CASE \E w \in Workers, req \in Requests : Begin(w, req)
  BY <1>1, BeginStep
<1>2. CASE \E w \in Workers, later \in Times : LookupPath(w, later) \/ LookupSample(w, later)
  BY <1>2, LookupPathStep, LookupSampleStep
<1>3. ASSUME NEW w \in Workers,
             \/ CaptureUnwinds(w) \/ ValidateSeries(w) \/ ReportPath(w) \/ CheckWriter(w)
             \/ JudgeSample(w) \/ ReportSample(w) \/ JudgeHistograms(w) \/ Finish(w)
      PROVE  IInv'
  BY <1>3, CaptureUnwindsStep, ValidateSeriesStep, ReportPathStep, CheckWriterStep, JudgeSampleStep, ReportSampleStep,
     JudgeHistogramsStep, FinishStep
<1>4. CASE Tick
  BY <1>4, TickStep
<1>5. CASE UNCHANGED vars
  BY <1>5, StutterStep
<1> QED
  BY <1>1, <1>2, <1>3, <1>4, <1>5 DEF Next

LEMMA SpecIInv == Spec => []IInv
BY InitIInv, NextIInv, PTL DEF Spec

\* The type invariant: at every moment the shards of both caches are well formed whoever is using
\* them, and each worker is at a sample and a series of its request.
THEOREM InspectionTypeOK == Spec => []TypeOK
<1>1. IInv => TypeOK
  <2> SUFFICES ASSUME IInv PROVE TypeOK
    OBVIOUS
  <2>1. /\ ShardsWellFormed(SampleKeys, Values, SampleHash, samples)
        /\ ShardsWellFormed(PathKeys, Paths, PathHash, paths)
    BY DEF IInv, CachesOK, Sharded
  <2> QED
    BY <2>1 DEF IInv, TypeOK, WorkersOK, CountersOK, HistoryOK, Busy
<1> QED
  BY <1>1, SpecIInv, PTL

\* No false alarm, for all handlers, caches and clocks: detectDuplicateSample and
\* detectCrossPathCollision report two different values that were really sent.
THEOREM InspectionFindingsAreReal == Spec => []FindingsAreReal
<1>1. IInv => FindingsAreReal
  BY DEF IInv, HistoryOK
<1> QED
  BY <1>1, SpecIInv, PTL

\* No missed conflict, for all handlers, caches and clocks: if entries live as long as their samples
\* can be looked up, only an eviction makes detectDuplicateSample forget a value, and only a handler
\* that panics over an identity that is not UTF-8 keeps what it found to itself.
THEOREM InspectionConflictsDetected == Spec => []ConflictsDetected
<1>1. IInv => ConflictsDetected
  <2> SUFFICES ASSUME IInv, Retained, NEW key \in {KeyOf(o) : o \in offered} \ forgotten
               PROVE  \E first \in Values :
                        \A o \in offered :
                          KeyOf(o) = key /\ o.valid /\ o.value # first => Reported(o, first)
    BY DEF ConflictsDetected
  <2>1. FirstRemembered
    BY DEF IInv
  <2>2. key \in KeysIn(samples)
    BY <2>1 DEF FirstRemembered
  <2> DEFINE first == Entry(samples, SampleHash, key).value
  <2>3. first \in Values
    <3>1. /\ Sharded(SampleKeys, Values, CacheTTL, SampleHash, samples)
          /\ SampleHash \in [SampleKeys -> Nat]
      BY CacheSizeAssumption DEF IInv, CachesOK
    <3> QED
      BY <2>2, <3>1, EntryOfKey
  <2>4. \A o \in offered : KeyOf(o) = key /\ o.valid /\ o.value # first => Reported(o, first)
    BY <2>1 DEF FirstRemembered
  <2> HIDE DEF first
  <2> QED
    BY <2>3, <2>4
<1> QED
  BY <1>1, SpecIInv, PTL

------------------------------------------------------------------------------
(* The samples a worker is through with.                                    *)

LEMMA ThroughTypes ==
  ASSUME NEW x \in {Idle} \cup Busy, x # Idle => InRequest(x)
  PROVE  /\ Through(x) \in Nat /\ (x = Idle => Through(x) = 0)
         /\ x # Idle => /\ Through(x) <= TotalSamples(x.req) /\ TotalSamples(x.req) \in Nat
                        /\ x.pc = "series" /\ x.s > Len(x.req.timeseries) =>
                             Through(x) = TotalSamples(x.req)
<1>1. CASE x = Idle
  BY <1>1 DEF Through
<1>2. CASE x # Idle
  <2> DEFINE L == Len(x.req.timeseries)
             f == Load(x.req)
             s == x.s
             j == x.j
             R == 1..(s - 1)
             total == SumFunctionOnSet(f, 1..L)
             prefix == SumFunctionOnSet(f, R)
  <2>1. x \in Busy /\ InRequest(x) /\ x.req \in Requests
    BY <1>2, BusyFields
  <2>2. /\ L \in Nat /\ IsFiniteSet(1..L) /\ TotalSamples(x.req) = total /\ total \in Nat
        /\ \A n \in 1..L : f[n] \in Nat
    BY <2>1, LoadTypes
  <2>3. s \in 1..(L + 1) /\ j \in Nat \ {0} /\ Through(x) = prefix + j - 1
    BY <1>2, <2>1 DEF InRequest, Through
  <2>4. R \subseteq 1..L
    BY <2>2, <2>3
  <2>5. prefix <= total /\ prefix \in Nat
    <3> HIDE DEF f, R
    <3> QED
      BY <2>2, <2>4, SumOfSubset
  <2>6. CASE s = L + 1
    <3>1. R = 1..L /\ j = 1
      BY <2>1, <2>2, <2>3, <2>6, BusyFields DEF InRequest, PCs
    <3>2. prefix = total
      BY <3>1
    <3> HIDE DEF prefix, total, s, j, L
    <3> QED
      BY <1>2, <2>2, <2>3, <2>5, <3>1, <3>2
  <2>7. CASE s # L + 1
    <3>1. s \in 1..L /\ s \notin R /\ R \cup {s} \subseteq 1..L /\ IsFiniteSet(R)
      BY <2>2, <2>3, <2>4, <2>7, FS_Subset
    <3>2. j - 1 <= f[s] /\ f[s] \in Nat
      <4>1. x.pc # "series" => j <= Len(x.req.timeseries[s].samples) + 1
        BY <2>1 DEF InRequest, SeriesAt
      <4>2. x.pc = "series" => j = 1
        BY <2>1 DEF InRequest
      <4>3. /\ f[s] \in Nat /\ Len(x.req.timeseries[s].samples) \in Nat
            /\ f[s] >= Len(x.req.timeseries[s].samples)
        BY <2>1, <3>1, LoadTypes
      <4> DEFINE n == Len(x.req.timeseries[s].samples)
                 fs == f[s]
      <4> HIDE DEF f, s, j, n, fs
      <4> QED
        BY <2>3, <4>1, <4>2, <4>3 DEF n, fs
    <3>3. SumFunctionOnSet(f, R \cup {s}) = f[s] + prefix
      <4>1. \A n \in R \cup {s} : f[n] \in Int
        BY <2>2, <3>1
      <4> HIDE DEF f, R, s
      <4> QED
        BY <3>1, <4>1, SumOfAdd
    <3>4. SumFunctionOnSet(f, R \cup {s}) <= total
      <4> HIDE DEF f, R, s
      <4> QED
        BY <2>2, <3>1, SumOfSubset
    <3>5. ~(s > L)
      BY <2>2, <3>1
    <3> DEFINE fs == f[s]
               more == SumFunctionOnSet(f, R \cup {s})
    <3>6. /\ more = fs + prefix /\ more <= total /\ j - 1 <= fs /\ fs \in Nat
      BY <3>2, <3>3, <3>4
    <3> HIDE DEF prefix, total, s, j, L, fs, more
    <3>7. prefix + j - 1 <= total /\ prefix + j - 1 \in Nat
      BY <2>2, <2>3, <2>5, <3>6
    <3> QED
      BY <1>2, <2>2, <2>3, <3>5, <3>7 DEF s, L
  <2> QED
    BY <2>6, <2>7
<1> QED
  BY <1>1, <1>2

\* One worker moves to y, and the look-ups counted keep step.
LEMMA LookupsMove ==
  ASSUME IInv, LookupsAccounted, IInv', NEW w \in Workers, NEW y, worker' = [worker EXCEPT ![w] = y],
         NEW n \in Nat, NEW t \in Nat,
         operations'["sample_conflicts"]["hit"] + operations'["sample_conflicts"]["miss"]
           = operations["sample_conflicts"]["hit"] + operations["sample_conflicts"]["miss"] + n,
         samplesTotal' + unwound' = samplesTotal + unwound + t,
         Through(worker[w]) + n <= Through(y) + t
  PROVE  LookupsAccounted'
<1> DEFINE f == ThroughAll
           g == ThroughAll'
           a == SumFunctionOnSet(f, Workers)
           b == SumFunctionOnSet(g, Workers)
           p == Through(worker[w])
           q == Through(y)
           m == operations["sample_conflicts"]["hit"] + operations["sample_conflicts"]["miss"]
           m2 == operations'["sample_conflicts"]["hit"] + operations'["sample_conflicts"]["miss"]
<1>1. \A u \in Workers : Through(worker[u]) \in Nat
  BY ThroughTypes DEF IInv, WorkersOK
<1>2. \A u \in Workers : Through(worker'[u]) \in Nat
  BY ThroughTypes DEF IInv, WorkersOK
<1>3. worker'[w] = y /\ \A u \in Workers \ {w} : worker'[u] = worker[u]
  BY DEF IInv, WorkersOK
<1>4. /\ \A u \in Workers : f[u] \in Int /\ g[u] \in Int
      /\ \A u \in Workers \ {w} : g[u] = f[u]
      /\ f[w] = p /\ g[w] = q
  BY <1>1, <1>2, <1>3 DEF ThroughAll
<1>5. p \in Nat /\ q \in Nat
  BY <1>1, <1>2, <1>3
<1> DEFINE total == samplesTotal + unwound
           total2 == samplesTotal' + unwound'
<1>6. m <= total + a /\ m \in Nat /\ total \in Nat
  BY DEF IInv, CountersOK, Caches, LookupsAccounted
<1>7. m2 = m + n /\ total2 = total + t /\ p + n <= q + t
  OBVIOUS
<1> HIDE DEF f, g, p, q, m, m2, total, total2
<1>8. b = a - f[w] + g[w] /\ a \in Int
  BY <1>4, WorkersAssumption, SumOfChange
<1> HIDE DEF a, b
<1>9. m2 <= total2 + b
  BY <1>4, <1>5, <1>6, <1>7, <1>8
<1> QED
  BY <1>9 DEF LookupsAccounted, m2, b, g, total2

\* One worker moves to y, and the cache and its counters with it.
Balanced(w, y, c, stored, dropped, missed, evicted) ==
  /\ CacheLen(c)' = CacheLen(c) + stored /\ expired'[c] = expired[c] + dropped
  /\ operations'[c]["miss"] = operations[c]["miss"] + missed
  /\ evictions'[c] = evictions[c] + evicted
  /\ stored + dropped = missed + (IF Missed(y, c) THEN 1 ELSE 0) - (IF Missed(worker[w], c) THEN 1 ELSE 0)
                         - evicted - (IF Displaced(y, c) THEN 1 ELSE 0)
                         + (IF Displaced(worker[w], c) THEN 1 ELSE 0)

LEMMA CacheMoves ==
  ASSUME IInv, IInv', NEW c \in Caches, CacheAccounted(c), NEW w \in Workers, NEW y,
         worker' = [worker EXCEPT ![w] = y],
         NEW stored \in Int, NEW dropped \in Int, NEW missed \in Int, NEW evicted \in Int,
         Balanced(w, y, c, stored, dropped, missed, evicted)
  PROVE  CacheAccounted(c)'
<1> DEFINE A == MissedIn(c)
           B == MissedIn(c)'
           D == DisplacedIn(c)
           E == DisplacedIn(c)'
           x == worker[w]
<1>1. worker'[w] = y /\ \A u \in Workers \ {w} : worker'[u] = worker[u]
  BY DEF IInv, WorkersOK
<1>2. /\ A \ {w} = B \ {w} /\ (w \in A <=> Missed(x, c)) /\ (w \in B <=> Missed(y, c))
      /\ A \subseteq Workers
  BY <1>1 DEF MissedIn
<1>3. /\ D \ {w} = E \ {w} /\ (w \in D <=> Displaced(x, c)) /\ (w \in E <=> Displaced(y, c))
      /\ D \subseteq Workers
  BY <1>1 DEF DisplacedIn
<1>4. IsFiniteSet(A) /\ IsFiniteSet(D)
  BY <1>2, <1>3, WorkersAssumption, FS_Subset
<1> HIDE DEF A, B, D, E
<1>5. /\ Cardinality(A) \in Nat /\ Cardinality(B) \in Nat
      /\ Cardinality(B) = Cardinality(A) - (IF Missed(x, c) THEN 1 ELSE 0) + (IF Missed(y, c) THEN 1 ELSE 0)
  BY <1>2, <1>4, CardinalityOfChange
<1>6. /\ Cardinality(D) \in Nat /\ Cardinality(E) \in Nat
      /\ Cardinality(E) = Cardinality(D) - (IF Displaced(x, c) THEN 1 ELSE 0) + (IF Displaced(y, c) THEN 1 ELSE 0)
  BY <1>3, <1>4, CardinalityOfChange
<1>7. CacheLen(c) \in Int /\ expired[c] \in Int /\ operations[c]["miss"] \in Int /\ evictions[c] \in Int
  <2>1. TotalLen(samples) \in Int /\ TotalLen(paths) \in Int
    BY TotalLenType DEF IInv, CachesOK
  <2> QED
    BY <2>1 DEF CacheLen, IInv, CountersOK
<1> DEFINE mx == IF Missed(x, c) THEN 1 ELSE 0
           my == IF Missed(y, c) THEN 1 ELSE 0
           dx == IF Displaced(x, c) THEN 1 ELSE 0
           dy == IF Displaced(y, c) THEN 1 ELSE 0
           a == Cardinality(A)
           b == Cardinality(B)
           d == Cardinality(D)
           e == Cardinality(E)
           n == CacheLen(c)
           n2 == CacheLen(c)'
           ex == expired[c]
           ex2 == expired'[c]
           op == operations[c]["miss"]
           op2 == operations'[c]["miss"]
           ev == evictions[c]
           ev2 == evictions'[c]
<1>8. mx \in Int /\ my \in Int /\ dx \in Int /\ dy \in Int
  OBVIOUS
<1>9. /\ n2 = n + stored /\ ex2 = ex + dropped /\ op2 = op + missed /\ ev2 = ev + evicted
      /\ stored + dropped = missed + my - mx - evicted - dy + dx
      /\ b = a - mx + my /\ e = d - dx + dy
  BY <1>5, <1>6 DEF Balanced
<1>10. n + ex = op + a - ev - d
  BY DEF CacheAccounted, A, D
<1>11. n \in Int /\ ex \in Int /\ op \in Int /\ ev \in Int /\ a \in Int /\ b \in Int /\ d \in Int /\ e \in Int
  BY <1>5, <1>6, <1>7
<1> HIDE DEF mx, my, dx, dy, a, b, d, e, n, n2, ex, ex2, op, op2, ev, ev2
<1>12. n2 + ex2 = op2 + b - ev2 - e
  BY <1>8, <1>9, <1>10, <1>11
<1> QED
  BY <1>12 DEF CacheAccounted, B, E, b, e, n2, ex2, op2, ev2

LEMMA CacheStays ==
  ASSUME IInv, IInv', NEW c \in Caches, CacheAccounted(c), NEW w \in Workers, NEW y,
         worker' = [worker EXCEPT ![w] = y], ~Missed(worker[w], c), ~Missed(y, c),
         CacheLen(c)' = CacheLen(c), expired'[c] = expired[c],
         operations'[c]["miss"] = operations[c]["miss"], evictions'[c] = evictions[c]
  PROVE  CacheAccounted(c)'
<1>1. ~Displaced(worker[w], c) /\ ~Displaced(y, c)
  BY DEF Displaced
<1>2. CacheLen(c) \in Int /\ expired[c] \in Int /\ operations[c]["miss"] \in Int /\ evictions[c] \in Int
  <2>1. TotalLen(samples) \in Int /\ TotalLen(paths) \in Int
    BY TotalLenType DEF IInv, CachesOK
  <2> QED
    BY <2>1 DEF CacheLen, IInv, CountersOK
<1>3. /\ CacheLen(c)' = CacheLen(c) + 0 /\ expired'[c] = expired[c] + 0
      /\ operations'[c]["miss"] = operations[c]["miss"] + 0 /\ evictions'[c] = evictions[c] + 0
  <2>1. \A n \in Int : n + 0 = n
    OBVIOUS
  <2> QED
    BY <1>2, <2>1
<1>4. 0 + 0 = 0 + (IF Missed(y, c) THEN 1 ELSE 0) - (IF Missed(worker[w], c) THEN 1 ELSE 0)
                - 0 - (IF Displaced(y, c) THEN 1 ELSE 0) + (IF Displaced(worker[w], c) THEN 1 ELSE 0)
  BY <1>1
<1>5. PICK n \in Int : n = 0
  OBVIOUS
<1>6. Balanced(w, y, c, n, n, n, n)
  BY <1>3, <1>4, <1>5 DEF Balanced
<1> QED
  BY ONLY IInv, IInv', CacheAccounted(c), c \in Caches, w \in Workers, worker' = [worker EXCEPT ![w] = y],
     n \in Int, <1>6, CacheMoves

LEMMA OperationsType ==
  ASSUME IInv
  PROVE  /\ operations["sample_conflicts"]["hit"] \in Nat /\ operations["sample_conflicts"]["miss"] \in Nat
         /\ \A c \in Caches : operations[c]["miss"] \in Nat /\ evictions[c] \in Nat /\ expired[c] \in Nat
         /\ samplesTotal \in Nat /\ unwound \in Nat
BY DEF IInv, CountersOK, Caches

LEMMA QuietAccounts ==
  ASSUME AInv, IInv', NEW w \in Workers, NEW y, worker' = [worker EXCEPT ![w] = y],
         worker[w].pc \notin {"report", "report_path"}, y.pc \notin {"report", "report_path"},
         UNCHANGED << samples, paths, operations, evictions, expired >>,
         NEW t \in Nat, samplesTotal' + unwound' = samplesTotal + unwound + t,
         Through(worker[w]) <= Through(y) + t
  PROVE  AInv'
<1>1. LookupsAccounted'
  <2>1. /\ operations'["sample_conflicts"]["hit"] + operations'["sample_conflicts"]["miss"]
             = operations["sample_conflicts"]["hit"] + operations["sample_conflicts"]["miss"] + 0
        /\ Through(worker[w]) + 0 <= Through(y) + t
    <3>1. Through(worker[w]) \in Nat
      BY ThroughTypes DEF AInv, IInv, WorkersOK
    <3> QED
      BY <3>1, OperationsType DEF AInv
  <2> QED
    BY <2>1, LookupsMove DEF AInv
<1>2. ASSUME NEW c \in Caches PROVE CacheAccounted(c)'
  <2>1. CacheLen(c)' = CacheLen(c) /\ expired'[c] = expired[c] /\ operations' = operations /\ evictions' = evictions
    BY DEF CacheLen
  <2>2. ~Missed(worker[w], c) /\ ~Missed(y, c)
    BY DEF Missed
  <2> QED
    BY <2>1, <2>2, CacheStays DEF AInv
<1> QED
  BY <1>1, <1>2 DEF AInv

LEMMA PrefixTypes ==
  ASSUME NEW req \in Requests, NEW s \in 1..(Len(req.timeseries) + 1)
  PROVE  /\ SumFunctionOnSet(Load(req), 1..(s - 1)) \in Nat
         /\ s \in 1..Len(req.timeseries) =>
              /\ SumFunctionOnSet(Load(req), 1..s) = Load(req)[s] + SumFunctionOnSet(Load(req), 1..(s - 1))
              /\ Load(req)[s] \in Nat
<1> DEFINE L == Len(req.timeseries)
           f == Load(req)
           R == 1..(s - 1)
<1>1. L \in Nat /\ IsFiniteSet(1..L) /\ \A n \in 1..L : f[n] \in Nat
  BY LoadTypes
<1>2. R \subseteq 1..L /\ s \notin R /\ (s \in 1..L => R \cup {s} = 1..s /\ 1..s \subseteq 1..L)
  BY <1>1
<1>3. IsFiniteSet(R)
  BY <1>1, <1>2, FS_Subset
<1> HIDE DEF f, R, L
<1>4. SumFunctionOnSet(f, R) \in Nat
  BY <1>1, <1>2, SumOfSubset
<1>5. ASSUME s \in 1..L PROVE SumFunctionOnSet(f, 1..s) = f[s] + SumFunctionOnSet(f, R) /\ f[s] \in Nat
  <2>1. \A n \in R \cup {s} : f[n] \in Int
    BY <1>1, <1>2, <1>5
  <2>2. SumFunctionOnSet(f, R \cup {s}) = f[s] + SumFunctionOnSet(f, R)
    BY <1>2, <1>3, <2>1, SumOfAdd
  <2> QED
    BY <1>1, <1>2, <1>5, <2>2
<1> QED
  BY <1>4, <1>5 DEF f, R, L

LEMMA SameThrough ==
  ASSUME NEW x \in Busy, NEW y \in Busy, y.req = x.req, y.s = x.s, y.j = x.j
  PROVE  Through(y) = Through(x)
BY IdleIsNotBusy DEF Through

\* Where a step puts its worker.
LEMMA WorkerAt ==
  ASSUME WorkersOK, NEW w \in Workers, NEW y, worker' = [worker EXCEPT ![w] = y]
  PROVE  worker'[w] = y
BY DEF WorkersOK

\* A handler that unwinds takes all its samples with it, the ones it was through with among them.
LEMMA GoesOnAccounts ==
  ASSUME AInv, IInv', NEW w \in Workers, NEW R, NEW x \in Busy, GoesOn(w, R, x),
         worker[w] \in Busy, InRequest(worker[w]),
         worker[w].pc \notin {"report", "report_path"}, x.pc \notin {"report", "report_path"},
         UNCHANGED << samples, paths, operations, evictions, expired, samplesTotal >>,
         Through(worker[w]) <= Through(x)
  PROVE  AInv'
<1> DEFINE total == TotalSamples(worker[w].req)
<1>1. unwound \in Nat /\ samplesTotal \in Nat
  BY OperationsType DEF AInv
<1>2. PICK z : /\ worker' = [worker EXCEPT ![w] = z]
               /\ \/ z = Idle /\ unwound' = unwound + total
                  \/ z \in Busy /\ SamePlace(x, z) /\ unwound' = unwound
  BY <1>1, GoesOnMoves
<1>3. /\ Through(worker[w]) \in Nat /\ Through(worker[w]) <= total /\ total \in Nat
      /\ Through(Idle) = 0
  BY ThroughTypes, IdleIsNotBusy
<1> HIDE DEF total
<1>4. CASE z = Idle /\ unwound' = unwound + total
  <2>1. Through(worker[w]) <= Through(z) + total
    BY <1>3, <1>4
  <2>2. samplesTotal' + unwound' = samplesTotal + unwound + total
    BY <1>1, <1>3, <1>4
  <2>3. z.pc \notin {"report", "report_path"}
    BY <1>4, IdleIsNotBusy
  <2> QED
    BY <1>2, <1>3, <2>1, <2>2, <2>3, QuietAccounts
<1>5. CASE z \in Busy /\ SamePlace(x, z) /\ unwound' = unwound
  <2>1. Through(z) = Through(x)
    BY <1>5, SameThrough DEF SamePlace
  <2>2. Through(z) \in Nat
    <3>1. z = worker'[w]
      BY <1>2 DEF AInv, IInv, WorkersOK
    <3>2. z # Idle => InRequest(z)
      BY <3>1 DEF IInv, WorkersOK
    <3> QED
      BY <1>5, <3>2, ThroughTypes
  <2>3. Through(worker[w]) <= Through(z) + 0
    BY <2>1, <2>2
  <2>4. samplesTotal' + unwound' = samplesTotal + unwound + 0
    BY <1>1, <1>5
  <2>5. z.pc \notin {"report", "report_path"}
    BY <1>5 DEF SamePlace
  <2> QED
    BY <1>2, <2>3, <2>4, <2>5, QuietAccounts
<1> QED
  BY <1>2, <1>4, <1>5

LEMMA BeginAccounts ==
  ASSUME AInv, IInv', NEW w \in Workers, NEW req \in Requests, Begin(w, req)
  PROVE  AInv'
<1> DEFINE y == [ pc |-> "series", req |-> req, nowMs |-> now, s |-> 1, j |-> 1,
                  bad |-> FALSE, reply |-> NoReply ]
<1>1. /\ worker' = [worker EXCEPT ![w] = y] /\ worker[w] = Idle
      /\ UNCHANGED << samples, paths, operations, evictions, samplesTotal, expired, unwound >>
  BY DEF Begin, counters, history, lookedUp
<1>2. y.pc = "series"
  OBVIOUS
<1> HIDE DEF y
<1>3. y = worker'[w] /\ y \in {Idle} \cup Busy /\ (y # Idle => InRequest(y))
  BY <1>1 DEF AInv, IInv, WorkersOK
<1>4. Through(y) \in Nat /\ Through(worker[w]) = 0
  BY <1>1, <1>3, ThroughTypes
<1>5. samplesTotal' + unwound' = samplesTotal + unwound + 0 /\ Through(worker[w]) <= Through(y) + 0
  BY <1>1, <1>4, OperationsType DEF AInv
<1> QED
  BY <1>1, <1>2, <1>5, IdleIsNotBusy, QuietAccounts

\* The last step of a handler, whether it ends or unwinds.
LEMMA LeavesAccounted ==
  ASSUME AInv, IInv', NEW w \in Workers, worker[w] \in Busy, InRequest(worker[w]),
         worker[w].pc \notin {"report", "report_path"}, worker' = [worker EXCEPT ![w] = Idle],
         samplesTotal' + unwound' = samplesTotal + unwound + TotalSamples(worker[w].req),
         UNCHANGED << samples, paths, operations, evictions, expired >>
  PROVE  AInv'
<1>1. /\ Through(worker[w]) \in Nat /\ Through(worker[w]) <= TotalSamples(worker[w].req)
      /\ TotalSamples(worker[w].req) \in Nat /\ Through(Idle) = 0
  BY ThroughTypes, IdleIsNotBusy
<1>2. Through(worker[w]) <= Through(Idle) + TotalSamples(worker[w].req)
  BY <1>1
<1> QED
  BY <1>1, <1>2, IdleIsNotBusy, QuietAccounts

LEMMA UnwindAccounts ==
  ASSUME AInv, IInv', NEW w \in Workers, CaptureUnwinds(w)
  PROVE  AInv'
<1>1. /\ worker[w].pc = "series" /\ worker' = [worker EXCEPT ![w] = Idle]
      /\ unwound' = unwound + TotalSamples(worker[w].req)
      /\ UNCHANGED << samples, paths, operations, evictions, samplesTotal, expired >>
  BY DEF CaptureUnwinds, Unwind, counters, lookedUp
<1>2. worker[w] \in Busy /\ InRequest(worker[w])
  BY <1>1, AtWork DEF AInv, IInv, PCs
<1>3. TotalSamples(worker[w].req) \in Nat
  BY <1>2, LoadTypes, BusyFields
<1>4. samplesTotal' + unwound' = samplesTotal + unwound + TotalSamples(worker[w].req)
  BY <1>1, <1>3, OperationsType DEF AInv
<1> QED
  BY <1>1, <1>2, <1>4, LeavesAccounted

LEMMA FinishAccounts ==
  ASSUME AInv, IInv', NEW w \in Workers, Finish(w)
  PROVE  AInv'
<1>1. /\ worker[w].pc = "series" /\ worker' = [worker EXCEPT ![w] = Idle]
      /\ UNCHANGED << samples, paths, operations, evictions, expired >>
  BY DEF Finish, Unwind, lookedUp
<1>2. worker[w] \in Busy /\ InRequest(worker[w])
  BY <1>1, AtWork DEF AInv, IInv, PCs
<1>3. TotalSamples(worker[w].req) \in Nat
  BY <1>2, LoadTypes, BusyFields
<1>4. \/ samplesTotal' = samplesTotal + TotalSamples(worker[w].req) /\ unwound' = unwound
      \/ samplesTotal' = samplesTotal /\ unwound' = unwound + TotalSamples(worker[w].req)
  BY DEF Finish, Unwind
<1>5. samplesTotal' + unwound' = samplesTotal + unwound + TotalSamples(worker[w].req)
  BY <1>3, <1>4, OperationsType DEF AInv
<1> QED
  BY <1>1, <1>2, <1>5, LeavesAccounted

LEMMA ValidateSeriesAccounts ==
  ASSUME AInv, IInv', NEW w \in Workers, ValidateSeries(w) \/ CheckWriter(w)
  PROVE  AInv'
<1> DEFINE x == worker[w]
<1>1. /\ x.pc \in {"series", "writer"}
      /\ UNCHANGED << samples, paths, operations, evictions, samplesTotal, expired >>
  BY DEF ValidateSeries, CheckWriter, lookedUp
<1>2. x \in Busy /\ InRequest(x)
  BY <1>1, AtWork DEF AInv, IInv, PCs
<1>3. PICK R, pc : pc \in {"samples", "paths", "writer"} /\ GoesOn(w, R, [x EXCEPT !.pc = pc])
  <2>1. CASE ValidateSeries(w)
    <3> DEFINE reasons == IF Timeseries(w).malformed THEN {"bad_labels"} ELSE {}
               next == IF Timeseries(w).malformed THEN "samples"
                       ELSE IF CrossPathDetection /\ worker[w].req.path # Unknown THEN "paths" ELSE "writer"
    <3>1. GoesOn(w, reasons, [x EXCEPT !.pc = next]) /\ next \in {"samples", "paths", "writer"}
      BY <2>1 DEF ValidateSeries
    <3> HIDE DEF reasons, next
    <3> QED
      BY <3>1
  <2>2. CASE CheckWriter(w)
    <3> DEFINE reasons == IF Timeseries(w).diagnostic /\ worker[w].req.writer = "unknown"
                          THEN {"diagnostic_writer_id_missing"} ELSE {}
    <3>1. GoesOn(w, reasons, [x EXCEPT !.pc = "samples"])
      BY <2>2 DEF CheckWriter
    <3> HIDE DEF reasons
    <3> QED
      BY <3>1
  <2> QED
    BY <2>1, <2>2
<1> DEFINE y == [x EXCEPT !.pc = pc]
<1>4. y \in Busy /\ y.pc = pc /\ y.req = x.req /\ y.s = x.s /\ y.j = x.j
  BY <1>2, <1>3 DEF Busy, PCs
<1>5. GoesOn(w, R, y)
  BY <1>3
<1> HIDE DEF y
<1>6. Through(x) \in Nat /\ Through(y) = Through(x)
  BY <1>2, <1>4, SameThrough, ThroughTypes
<1>7. Through(x) <= Through(y) /\ x.pc \notin {"report", "report_path"} /\ y.pc \notin {"report", "report_path"}
  BY <1>1, <1>3, <1>4, <1>6
<1> QED
  BY <1>1, <1>2, <1>4, <1>5, <1>7, GoesOnAccounts

LEMMA JudgeSampleAccounts ==
  ASSUME AInv, IInv', NEW w \in Workers, JudgeSample(w)
  PROVE  AInv'
<1> DEFINE x == worker[w]
<1>1. x.pc = "samples" /\ UNCHANGED << samples, paths, operations, evictions, samplesTotal, expired >>
  BY DEF JudgeSample, lookedUp
<1>2. x \in Busy /\ x # Idle /\ InRequest(x) /\ x.j \in Nat
  BY <1>1, AtWork, BusyFields DEF AInv, IInv, PCs
<1>3. PICK R, y : /\ GoesOn(w, R, y)
                  /\ y = [x EXCEPT !.pc = "lookup"] \/ y = [x EXCEPT !.j = @ + 1]
  BY DEF JudgeSample
<1>4. /\ y \in Busy /\ y.pc \in {"samples", "lookup"}
      /\ y.req = x.req /\ y.s = x.s /\ (y.j = x.j \/ y.j = x.j + 1)
  <2>1. CASE y = [x EXCEPT !.pc = "lookup"]
    BY <1>2, <2>1 DEF Busy, PCs
  <2>2. CASE y = [x EXCEPT !.j = @ + 1]
    <3>1. PICK n \in Nat : n = x.j + 1
      BY <1>2
    <3>2. y = [x EXCEPT !.j = n]
      BY <2>2, <3>1
    <3> QED
      BY <1>1, <1>2, <3>1, <3>2 DEF Busy
  <2> QED
    BY <1>3, <2>1, <2>2
<1>5. Through(x) <= Through(y)
  <2> DEFINE prefix == SumFunctionOnSet(Load(x.req), 1..(x.s - 1))
  <2>1. Through(x) = prefix + x.j - 1 /\ Through(y) = prefix + y.j - 1
    BY <1>2, <1>4, IdleIsNotBusy DEF Through
  <2>2. prefix \in Nat
    BY <1>2, PrefixTypes, BusyFields DEF InRequest
  <2> HIDE DEF prefix, x
  <2> QED
    BY <1>2, <1>4, <2>1, <2>2
<1>6. x.pc \notin {"report", "report_path"} /\ y.pc \notin {"report", "report_path"}
  BY <1>1, <1>4
<1> QED
  BY <1>1, <1>2, <1>3, <1>4, <1>5, <1>6, GoesOnAccounts

LEMMA JudgeHistogramsAccounts ==
  ASSUME AInv, IInv', NEW w \in Workers, JudgeHistograms(w)
  PROVE  AInv'
<1> DEFINE x == worker[w]
           next == x.s + 1
           y == [x EXCEPT !.pc = "series", !.s = next, !.j = 1]
<1>1. x.pc = "samples" /\ UNCHANGED << samples, paths, operations, evictions, samplesTotal, expired >>
  BY DEF JudgeHistograms, lookedUp
<1>2. x \in Busy /\ x # Idle /\ InRequest(x) /\ x.s \in Nat
  BY <1>1, AtWork, BusyFields DEF AInv, IInv, PCs
<1>3. PICK R : GoesOn(w, R, y)
  BY DEF JudgeHistograms
<1>4. next \in Nat
  BY <1>2
<1> HIDE DEF next
<1>5. y \in Busy /\ y.pc = "series" /\ y.req = x.req /\ y.s = x.s + 1 /\ y.j = 1
  BY <1>2, <1>4 DEF Busy, PCs, next
<1> HIDE DEF y
<1>6. Through(x) <= Through(y)
  <2> DEFINE prefix == SumFunctionOnSet(Load(x.req), 1..(x.s - 1))
             load == Load(x.req)[x.s]
             size == Len(x.req.timeseries[x.s].samples)
             j == x.j
  <2>1. /\ x.req \in Requests /\ x.s \in 1..Len(x.req.timeseries) /\ j \in Nat /\ j <= size + 1
        /\ Len(x.req.timeseries) \in Nat
    BY <1>1, <1>2, LoadTypes, BusyFields DEF InRequest, SeriesAt
  <2>2. prefix \in Nat /\ SumFunctionOnSet(Load(x.req), 1..x.s) = load + prefix
    BY <2>1, PrefixTypes
  <2>3. load \in Nat /\ size \in Nat /\ load >= size
    BY <2>1, LoadTypes
  <2>4. Through(x) = prefix + j - 1
    BY <1>2 DEF Through
  <2>5. Through(y) = load + prefix
    <3>1. y.s - 1 = x.s
      BY <1>5, <2>1
    <3>2. Through(y) = SumFunctionOnSet(Load(x.req), 1..x.s) + 1 - 1
      BY <1>5, <3>1, IdleIsNotBusy DEF Through
    <3> HIDE DEF load, prefix
    <3> QED
      BY <2>2, <2>3, <3>2
  <2> HIDE DEF prefix, load, size, j
  <2> QED
    BY <2>1, <2>2, <2>3, <2>4, <2>5
<1>7. x.pc \notin {"report", "report_path"} /\ y.pc \notin {"report", "report_path"}
  BY <1>1, <1>5
<1> QED
  BY <1>1, <1>2, <1>3, <1>5, <1>6, <1>7, GoesOnAccounts

\* A look-up counts nothing yet, and its worker stays at its sample.
LEMMA LookupsStay ==
  ASSUME AInv, IInv', NEW w \in Workers, NEW y \in Busy, worker' = [worker EXCEPT ![w] = y],
         worker[w] \in Busy, y.req = worker[w].req, y.s = worker[w].s, y.j = worker[w].j,
         \A o \in {"hit", "miss"} :
           operations'["sample_conflicts"][o] = operations["sample_conflicts"][o],
         UNCHANGED << samplesTotal, unwound >>
  PROVE  LookupsAccounted'
<1>1. Through(y) = Through(worker[w])
  BY SameThrough
<1>2. Through(worker[w]) \in Nat
  BY ThroughTypes DEF AInv, IInv, WorkersOK
<1>3. /\ operations'["sample_conflicts"]["hit"] + operations'["sample_conflicts"]["miss"]
           = operations["sample_conflicts"]["hit"] + operations["sample_conflicts"]["miss"] + 0
      /\ samplesTotal' + unwound' = samplesTotal + unwound + 0
      /\ Through(worker[w]) + 0 <= Through(y) + 0
  BY <1>1, <1>2, OperationsType DEF AInv
<1> QED
  BY <1>3, LookupsMove DEF AInv

\* The same arithmetic for either cache, when a look-up misses.
LEMMA MissBalances ==
  ASSUME IInv, IInv', NEW c \in Caches, CacheAccounted(c), NEW w \in Workers, NEW y,
         worker' = [worker EXCEPT ![w] = y], NEW evicted \in {0, 1}, NEW lost \in {0, 1},
         CacheLen(c)' = CacheLen(c) + 1 - evicted - lost, CacheLen(c) \in Int,
         expired'[c] = expired[c] + lost, operations' = operations, evictions' = evictions,
         ~Missed(worker[w], c), Missed(y, c), y.reply.evicted = evicted
  PROVE  CacheAccounted(c)'
<1>1. PICK stored \in Int : stored = 1 - evicted - lost
  OBVIOUS
<1>2. PICK dropped \in Int : dropped = lost
  OBVIOUS
<1>3. PICK n \in Int : n = 0
  OBVIOUS
<1>4. ~Displaced(worker[w], c) /\ (Displaced(y, c) <=> evicted = 1)
  BY DEF Displaced
<1>5. operations'[c]["miss"] = operations[c]["miss"] + n /\ evictions'[c] = evictions[c] + n
  BY <1>3, OperationsType
<1>6. CacheLen(c)' = CacheLen(c) + stored
  BY <1>1
<1>7. stored + dropped = n + 1 - 0 - n - (IF evicted = 1 THEN 1 ELSE 0) + 0
  BY <1>1, <1>2, <1>3
<1>8. Balanced(w, y, c, stored, dropped, n, n)
  BY <1>2, <1>4, <1>5, <1>6, <1>7 DEF Balanced
<1> QED
  BY ONLY IInv, IInv', CacheAccounted(c), c \in Caches, w \in Workers, worker' = [worker EXCEPT ![w] = y],
     stored \in Int, dropped \in Int, n \in Int, <1>8, CacheMoves

LEMMA LookupPathAccounts ==
  ASSUME AInv, IInv', NEW w \in Workers, NEW later \in Times, LookupPath(w, later)
  PROVE  AInv'
<1> DEFINE x == worker[w]
           y == worker'[w]
           key == PathKey(w)
           path == x.req.path
           hit == ShardedHit(paths, PathHash, key, now)
           put == ShardedGetOrPut(paths, PathHash, key, path, now, later)
           lost == IF key \in KeysIn(paths) THEN 1 ELSE 0
<1>1. /\ x.pc = "paths" /\ paths' = put.cache
      /\ UNCHANGED << samples, operations, evictions, samplesTotal, unwound >>
      /\ expired' = [expired EXCEPT !["cross_path"] = IF ~hit /\ key \in KeysIn(paths) THEN @ + 1 ELSE @]
  BY DEF LookupPath, counters
<1>2. x \in Busy /\ x # Idle /\ InRequest(x)
  BY <1>1, AtWork DEF AInv, IInv, PCs
<1>3. /\ worker' = [worker EXCEPT ![w] = y] /\ y.pc = "report_path"
      /\ y.req = x.req /\ y.s = x.s /\ y.j = x.j
      /\ y.reply.hit = hit /\ y.reply.evicted = put.evicted
  BY <1>2 DEF LookupPath, AInv, IInv, WorkersOK, Busy
<1>4. y \in Busy
  BY <1>3, IdleIsNotBusy DEF IInv, WorkersOK
<1>5. key \in PathKeys /\ path \in Paths /\ later \in Nat
  BY <1>1, <1>2, AtSeries, AtWorker, RequestTypes, BusyFields DEF InRequest, Times
<1>6. Sharded(PathKeys, Paths, CacheTTL, PathHash, paths) /\ PathHash \in [PathKeys -> Nat]
  BY CacheSizeAssumption DEF AInv, IInv, CachesOK
<1> HIDE DEF key, path
<1>7. ASSUME hit PROVE paths' = paths
  BY <1>1, <1>5, <1>6, <1>7, ShardedHitKeeps
<1>8. ASSUME ~hit
      PROVE  put.evicted \in {0, 1} /\ TotalLen(paths') = TotalLen(paths) + 1 - put.evicted - lost
  <2>1. ~ShardedHit(paths, PathHash, key, now) /\ put = ShardedGetOrPut(paths, PathHash, key, path, now, later)
    BY <1>8
  <2> HIDE DEF put, hit
  <2>2. /\ put.evicted \in {0, 1}
        /\ TotalLen(put.cache) = TotalLen(paths) + 1 - put.evicted - (IF key \in KeysIn(paths) THEN 1 ELSE 0)
    BY ONLY <1>5, <1>6, <2>1, ShardedMissLengthens
  <2> QED
    BY <1>1, <2>2
<1>9. TotalLen(paths) \in Int
  BY <1>6, TotalLenType
<1> HIDE DEF put, hit, y
<1>10. ~Missed(x, "cross_path") /\ ~Missed(x, "sample_conflicts") /\ ~Missed(y, "sample_conflicts")
       /\ (Missed(y, "cross_path") <=> ~hit)
  BY <1>1, <1>3 DEF Missed
<1>11. CacheLen("cross_path") = TotalLen(paths) /\ CacheLen("cross_path")' = TotalLen(paths')
       /\ CacheLen("sample_conflicts")' = CacheLen("sample_conflicts")
  BY <1>1 DEF CacheLen
<1>12. /\ expired'["sample_conflicts"] = expired["sample_conflicts"]
       /\ expired'["cross_path"] = IF ~hit /\ key \in KeysIn(paths) THEN expired["cross_path"] + 1
                                   ELSE expired["cross_path"]
       /\ expired["cross_path"] \in Nat
  BY <1>1 DEF AInv, IInv, CountersOK, Caches
<1>13. CacheAccounted("sample_conflicts")'
  BY <1>1, <1>3, <1>10, <1>11, <1>12, CacheStays DEF AInv, Caches
<1>14. CacheAccounted("cross_path")'
  <2>1. CASE hit
    <3>1. CacheLen("cross_path")' = CacheLen("cross_path") /\ expired'["cross_path"] = expired["cross_path"]
      BY <1>7, <1>11, <1>12, <2>1
    <3> QED
      BY <1>1, <1>3, <1>10, <2>1, <3>1, CacheStays DEF AInv, Caches
  <2>2. CASE ~hit
    <3>1. CacheLen("cross_path")' = CacheLen("cross_path") + 1 - put.evicted - lost /\ CacheLen("cross_path") \in Int
      BY <1>8, <1>9, <1>11, <2>2
    <3>2. expired'["cross_path"] = expired["cross_path"] + lost
      BY <1>12, <2>2
    <3>3. lost \in {0, 1} /\ put.evicted \in {0, 1}
      BY <1>8, <2>2
    <3> HIDE DEF lost
    <3> QED
      BY <1>1, <1>3, <1>10, <2>2, <3>1, <3>2, <3>3, MissBalances DEF AInv, Caches
  <2> QED
    BY <2>1, <2>2
<1>15. LookupsAccounted'
  BY <1>1, <1>2, <1>3, <1>4, LookupsStay
<1> QED
  BY <1>13, <1>14, <1>15 DEF AInv, Caches

LEMMA LookupSampleAccounts ==
  ASSUME AInv, IInv', NEW w \in Workers, NEW later \in Times, LookupSample(w, later)
  PROVE  AInv'
<1> DEFINE x == worker[w]
           y == worker'[w]
           key == SampleKey(w)
           v == Sample(w).value
           hit == ShardedHit(samples, SampleHash, key, now)
           put == ShardedGetOrPut(samples, SampleHash, key, v, now, later)
           lost == IF key \in KeysIn(samples) THEN 1 ELSE 0
<1>1. /\ x.pc = "lookup" /\ samples' = put.cache
      /\ UNCHANGED << paths, operations, evictions, samplesTotal, unwound >>
      /\ expired' = [expired EXCEPT !["sample_conflicts"] = IF ~hit /\ key \in KeysIn(samples) THEN @ + 1 ELSE @]
  BY DEF LookupSample, counters
<1>2. x \in Busy /\ x # Idle /\ InRequest(x)
  BY <1>1, AtWork DEF AInv, IInv, PCs
<1>3. /\ worker' = [worker EXCEPT ![w] = y] /\ y.pc = "report"
      /\ y.req = x.req /\ y.s = x.s /\ y.j = x.j
      /\ y.reply.hit = hit /\ y.reply.evicted = put.evicted
  BY <1>2 DEF LookupSample, AInv, IInv, WorkersOK, Busy
<1>4. y \in Busy
  BY <1>3, IdleIsNotBusy DEF IInv, WorkersOK
<1>5. key \in SampleKeys /\ v \in Values /\ later \in Nat
  <2>1. x.s \in 1..Len(x.req.timeseries) /\ Len(SeriesAt(x).samples) \in Nat
    BY <1>1, <1>2, AtSeries, SeriesTypes DEF InRequest
  <2>2. x.j \in 1..Len(SeriesAt(x).samples)
    BY <1>1, <1>2, <2>1 DEF InRequest
  <2> QED
    BY <1>2, <2>1, <2>2, AtSample, AtWorker DEF Times
<1>6. Sharded(SampleKeys, Values, CacheTTL, SampleHash, samples) /\ SampleHash \in [SampleKeys -> Nat]
  BY CacheSizeAssumption DEF AInv, IInv, CachesOK
<1> HIDE DEF key, v
<1>7. ASSUME hit PROVE samples' = samples
  BY <1>1, <1>5, <1>6, <1>7, ShardedHitKeeps
<1>8. ASSUME ~hit
      PROVE  put.evicted \in {0, 1} /\ TotalLen(samples') = TotalLen(samples) + 1 - put.evicted - lost
  <2>1. ~ShardedHit(samples, SampleHash, key, now) /\ put = ShardedGetOrPut(samples, SampleHash, key, v, now, later)
    BY <1>8
  <2> HIDE DEF put, hit
  <2>2. /\ put.evicted \in {0, 1}
        /\ TotalLen(put.cache) = TotalLen(samples) + 1 - put.evicted - (IF key \in KeysIn(samples) THEN 1 ELSE 0)
    BY ONLY <1>5, <1>6, <2>1, ShardedMissLengthens
  <2> QED
    BY <1>1, <2>2
<1>9. TotalLen(samples) \in Int
  BY <1>6, TotalLenType
<1> HIDE DEF put, hit, y
<1>10. ~Missed(x, "cross_path") /\ ~Missed(x, "sample_conflicts") /\ ~Missed(y, "cross_path")
       /\ (Missed(y, "sample_conflicts") <=> ~hit)
  BY <1>1, <1>3 DEF Missed
<1>11. CacheLen("sample_conflicts") = TotalLen(samples) /\ CacheLen("sample_conflicts")' = TotalLen(samples')
       /\ CacheLen("cross_path")' = CacheLen("cross_path")
  BY <1>1 DEF CacheLen
<1>12. /\ expired'["cross_path"] = expired["cross_path"]
       /\ expired'["sample_conflicts"] = IF ~hit /\ key \in KeysIn(samples) THEN expired["sample_conflicts"] + 1
                                         ELSE expired["sample_conflicts"]
       /\ expired["sample_conflicts"] \in Nat
  BY <1>1 DEF AInv, IInv, CountersOK, Caches
<1>13. CacheAccounted("cross_path")'
  BY <1>1, <1>3, <1>10, <1>11, <1>12, CacheStays DEF AInv, Caches
<1>14. CacheAccounted("sample_conflicts")'
  <2>1. CASE hit
    <3>1. /\ CacheLen("sample_conflicts")' = CacheLen("sample_conflicts")
          /\ expired'["sample_conflicts"] = expired["sample_conflicts"]
      BY <1>7, <1>11, <1>12, <2>1
    <3> QED
      BY <1>1, <1>3, <1>10, <2>1, <3>1, CacheStays DEF AInv, Caches
  <2>2. CASE ~hit
    <3>1. /\ CacheLen("sample_conflicts")' = CacheLen("sample_conflicts") + 1 - put.evicted - lost
          /\ CacheLen("sample_conflicts") \in Int
      BY <1>8, <1>9, <1>11, <2>2
    <3>2. expired'["sample_conflicts"] = expired["sample_conflicts"] + lost
      BY <1>12, <2>2
    <3>3. lost \in {0, 1} /\ put.evicted \in {0, 1}
      BY <1>8, <2>2
    <3> HIDE DEF lost
    <3> QED
      BY <1>1, <1>3, <1>10, <2>2, <3>1, <3>2, <3>3, MissBalances DEF AInv, Caches
  <2> QED
    BY <2>1, <2>2
<1>15. LookupsAccounted'
  BY <1>1, <1>2, <1>3, <1>4, LookupsStay
<1> QED
  BY <1>13, <1>14, <1>15 DEF AInv, Caches

\* What CountOperation does, of either cache, for the worker that leaves its report.
LEMMA CountBalances ==
  ASSUME IInv, IInv', NEW c \in Caches, CacheAccounted(c), NEW w \in Workers, NEW y,
         worker' = [worker EXCEPT ![w] = y], CountOperation(w, c), worker[w].reply \in Replies,
         worker[w].pc = (IF c = "sample_conflicts" THEN "report" ELSE "report_path"),
         worker[w].reply.hit => worker[w].reply.evicted = 0, y.pc \notin {"report", "report_path"},
         UNCHANGED << samples, paths, expired >>
  PROVE  /\ CacheAccounted(c)'
         /\ operations'[c]["hit"] + operations'[c]["miss"] = operations[c]["hit"] + operations[c]["miss"] + 1
         /\ \A d \in Caches \ {c} : operations'[d] = operations[d] /\ evictions'[d] = evictions[d]
<1> DEFINE reply == worker[w].reply
           o == IF reply.hit THEN "hit" ELSE "miss"
<1>1. /\ operations' = [operations EXCEPT ![c][o] = @ + 1]
      /\ evictions' = [evictions EXCEPT ![c] = @ + reply.evicted]
      /\ o \in {"hit", "miss"} /\ reply.evicted \in {0, 1} /\ reply.hit \in BOOLEAN
  BY DEF CountOperation, Replies
<1>2. /\ operations[c] \in [{"hit", "miss"} -> Nat] /\ evictions[c] \in Nat /\ expired[c] \in Nat
      /\ operations \in [Caches -> [{"hit", "miss"} -> Nat]] /\ evictions \in [Caches -> Nat]
  BY DEF IInv, CountersOK
<1>3. /\ operations'[c] = [operations[c] EXCEPT ![o] = @ + 1]
      /\ evictions'[c] = evictions[c] + reply.evicted
      /\ \A d \in Caches \ {c} : operations'[d] = operations[d] /\ evictions'[d] = evictions[d]
  <2> HIDE DEF o, reply
  <2> QED
    BY <1>1, <1>2
<1>4. /\ operations'[c]["hit"] = operations[c]["hit"] + (IF reply.hit THEN 1 ELSE 0)
      /\ operations'[c]["miss"] = operations[c]["miss"] + (IF reply.hit THEN 0 ELSE 1)
      /\ operations[c]["hit"] \in Nat /\ operations[c]["miss"] \in Nat
  BY <1>2, <1>3
<1>5. operations'[c]["hit"] + operations'[c]["miss"] = operations[c]["hit"] + operations[c]["miss"] + 1
  <2> DEFINE a == operations[c]["hit"]
             b == operations[c]["miss"]
             a2 == operations'[c]["hit"]
             b2 == operations'[c]["miss"]
  <2>1. CASE reply.hit
    <3>1. a2 = a + 1 /\ b2 = b + 0 /\ a \in Nat /\ b \in Nat
      BY <1>4, <2>1
    <3> HIDE DEF a, b, a2, b2
    <3>2. a2 + b2 = a + b + 1
      BY <3>1
    <3> QED
      BY <3>2 DEF a, b, a2, b2
  <2>2. CASE ~reply.hit
    <3>1. a2 = a + 0 /\ b2 = b + 1 /\ a \in Nat /\ b \in Nat
      BY <1>4, <2>2
    <3> HIDE DEF a, b, a2, b2
    <3>2. a2 + b2 = a + b + 1
      BY <3>1
    <3> QED
      BY <3>2 DEF a, b, a2, b2
  <2> QED
    BY <2>1, <2>2
<1>6. PICK missed \in Int : missed = IF reply.hit THEN 0 ELSE 1
  OBVIOUS
<1>7. PICK evicted \in Int : evicted = reply.evicted
  BY <1>1
<1>8. PICK n \in Int : n = 0
  OBVIOUS
<1>9. /\ (Missed(worker[w], c) <=> ~reply.hit) /\ ~Missed(y, c) /\ ~Displaced(y, c)
      /\ (Displaced(worker[w], c) <=> ~reply.hit /\ evicted = 1)
  BY <1>7 DEF Missed, Displaced
<1>10. evicted \in {0, 1} /\ (reply.hit => evicted = 0)
  BY <1>1, <1>7
<1>11. CacheLen(c)' = CacheLen(c) + n /\ expired'[c] = expired[c] + n
  <2>1. CacheLen(c)' = CacheLen(c) /\ expired' = expired
    BY DEF CacheLen
  <2>2. CacheLen(c) \in Int
    <3>1. TotalLen(samples) \in Int /\ TotalLen(paths) \in Int
      BY TotalLenType DEF IInv, CachesOK
    <3> QED
      BY <3>1 DEF CacheLen
  <2> QED
    BY <1>2, <1>8, <2>1, <2>2
<1> HIDE DEF reply
<1>12. n + n = missed + 0 - (IF Missed(worker[w], c) THEN 1 ELSE 0)
                 - evicted - 0 + (IF Displaced(worker[w], c) THEN 1 ELSE 0)
  BY <1>6, <1>8, <1>9, <1>10
<1>13. operations'[c]["miss"] = operations[c]["miss"] + missed /\ evictions'[c] = evictions[c] + evicted
  BY <1>3, <1>4, <1>6, <1>7
<1>14. Balanced(w, y, c, n, n, missed, evicted)
  BY <1>9, <1>11, <1>12, <1>13 DEF Balanced
<1>15. CacheAccounted(c)'
  BY ONLY IInv, IInv', CacheAccounted(c), c \in Caches, w \in Workers, worker' = [worker EXCEPT ![w] = y],
     missed \in Int, evicted \in Int, n \in Int, <1>14, CacheMoves
<1> QED
  BY <1>3, <1>5, <1>15

LEMMA ReportPathAccounts ==
  ASSUME AInv, IInv', NEW w \in Workers, ReportPath(w)
  PROVE  AInv'
<1> DEFINE x == worker[w]
           y == [x EXCEPT !.pc = "writer", !.reply = NoReply]
<1>1. /\ x.pc = "report_path" /\ CountOperation(w, "cross_path")
      /\ UNCHANGED << samples, paths, samplesTotal, expired >>
  BY DEF ReportPath
<1>2. /\ x \in Busy /\ x # Idle /\ InRequest(x) /\ Answered(x, offered, offeredPaths)
      /\ x.reply \in Replies /\ (x.reply.hit => x.reply.evicted = 0)
  BY <1>1, AtWork, BusyFields DEF AInv, IInv, PCs, Answered
<1>3. PICK R : GoesOn(w, R, y)
  BY DEF ReportPath
<1>4. y \in Busy /\ y.pc = "writer" /\ y.req = x.req /\ y.s = x.s /\ y.j = x.j
  BY <1>2 DEF Busy, PCs, NoReply, Replies
<1> HIDE DEF y
<1>5. unwound \in Nat /\ samplesTotal \in Nat
  BY OperationsType DEF AInv
<1>6. PICK z : /\ worker' = [worker EXCEPT ![w] = z]
               /\ \/ z = Idle /\ unwound' = unwound + TotalSamples(x.req)
                  \/ z \in Busy /\ SamePlace(y, z) /\ unwound' = unwound
  BY <1>2, <1>3, <1>4, <1>5, GoesOnMoves
<1>7. z.pc \notin {"report", "report_path"}
  BY <1>4, <1>6, IdleIsNotBusy DEF SamePlace
<1>8. /\ CacheAccounted("cross_path")'
      /\ operations'["sample_conflicts"] = operations["sample_conflicts"]
      /\ evictions'["sample_conflicts"] = evictions["sample_conflicts"]
  BY <1>1, <1>2, <1>6, <1>7, CountBalances DEF AInv, Caches
<1>9. CacheAccounted("sample_conflicts")'
  <2>1. ~Missed(x, "sample_conflicts") /\ ~Missed(z, "sample_conflicts")
    BY <1>1, <1>7 DEF Missed
  <2>2. CacheLen("sample_conflicts")' = CacheLen("sample_conflicts")
    BY <1>1 DEF CacheLen
  <2> QED
    BY <1>1, <1>6, <1>8, <2>1, <2>2, CacheStays DEF AInv, Caches
<1>10. LookupsAccounted'
  <2>1. CASE z = Idle /\ unwound' = unwound + TotalSamples(x.req)
    <3> DEFINE total == TotalSamples(x.req)
    <3>1. /\ Through(x) \in Nat /\ Through(x) <= total /\ total \in Nat /\ Through(Idle) = 0
      BY <1>2, ThroughTypes
    <3> HIDE DEF total
    <3>2. /\ Through(x) + 0 <= Through(z) + total
          /\ samplesTotal' + unwound' = samplesTotal + unwound + total
      BY <1>1, <1>5, <2>1, <3>1 DEF total
    <3>3. PICK none \in Nat : none = 0
      OBVIOUS
    <3>4. operations'["sample_conflicts"]["hit"] + operations'["sample_conflicts"]["miss"]
            = operations["sample_conflicts"]["hit"] + operations["sample_conflicts"]["miss"] + none
      BY <1>8, <3>3, OperationsType DEF AInv
    <3>5. /\ IInv /\ IInv' /\ LookupsAccounted /\ worker' = [worker EXCEPT ![w] = z]
          /\ Through(worker[w]) + none <= Through(z) + total
      BY <1>6, <3>2, <3>3 DEF AInv
    <3> QED
      BY ONLY w \in Workers, none \in Nat, <3>1, <3>2, <3>4, <3>5, LookupsMove
  <2>2. CASE z \in Busy /\ SamePlace(y, z) /\ unwound' = unwound
    BY <1>1, <1>2, <1>4, <1>6, <1>8, <2>2, LookupsStay DEF SamePlace
  <2> QED
    BY <1>6, <2>1, <2>2
<1> QED
  BY <1>8, <1>9, <1>10 DEF AInv, Caches

LEMMA ReportSampleAccounts ==
  ASSUME AInv, IInv', NEW w \in Workers, ReportSample(w)
  PROVE  AInv'
<1> DEFINE x == worker[w]
           n == x.j + 1
           y == [x EXCEPT !.pc = "samples", !.j = n, !.reply = NoReply]
<1>1. /\ x.pc = "report" /\ CountOperation(w, "sample_conflicts")
      /\ UNCHANGED << samples, paths, samplesTotal, expired >>
  BY DEF ReportSample
<1>2. /\ x \in Busy /\ x # Idle /\ InRequest(x) /\ Answered(x, offered, offeredPaths)
      /\ x.reply \in Replies /\ (x.reply.hit => x.reply.evicted = 0)
  BY <1>1, AtWork, BusyFields DEF AInv, IInv, PCs, Answered
<1>3. PICK R : GoesOn(w, R, y)
  BY DEF ReportSample
<1>4. n \in Nat /\ x.j \in Nat
  BY <1>2, BusyFields
<1> HIDE DEF n
<1>5. y \in Busy /\ y.pc = "samples" /\ y.req = x.req /\ y.s = x.s /\ y.j = n
  BY <1>2, <1>4 DEF Busy, PCs, NoReply, Replies
<1> HIDE DEF y
<1>6. unwound \in Nat /\ samplesTotal \in Nat
  BY OperationsType DEF AInv
<1>7. PICK z : /\ worker' = [worker EXCEPT ![w] = z]
               /\ \/ z = Idle /\ unwound' = unwound + TotalSamples(x.req)
                  \/ z \in Busy /\ SamePlace(y, z) /\ unwound' = unwound
  BY <1>2, <1>3, <1>5, <1>6, GoesOnMoves
<1>8. z.pc \notin {"report", "report_path"}
  BY <1>5, <1>7, IdleIsNotBusy DEF SamePlace
<1>9. /\ CacheAccounted("sample_conflicts")'
      /\ operations'["sample_conflicts"]["hit"] + operations'["sample_conflicts"]["miss"]
           = operations["sample_conflicts"]["hit"] + operations["sample_conflicts"]["miss"] + 1
      /\ operations'["cross_path"] = operations["cross_path"]
      /\ evictions'["cross_path"] = evictions["cross_path"]
  BY <1>1, <1>2, <1>7, <1>8, CountBalances DEF AInv, Caches
<1>10. CacheAccounted("cross_path")'
  <2>1. ~Missed(x, "cross_path") /\ ~Missed(z, "cross_path")
    BY <1>1, <1>8 DEF Missed
  <2>2. CacheLen("cross_path")' = CacheLen("cross_path")
    BY <1>1 DEF CacheLen
  <2> QED
    BY <1>1, <1>7, <1>9, <2>1, <2>2, CacheStays DEF AInv, Caches
<1>11. Through(y) = Through(x) + 1 /\ Through(x) \in Nat
  <2> DEFINE prefix == SumFunctionOnSet(Load(x.req), 1..(x.s - 1))
  <2>1. Through(x) = prefix + x.j - 1 /\ Through(y) = prefix + y.j - 1
    BY <1>2, <1>5, IdleIsNotBusy DEF Through
  <2>2. prefix \in Nat
    BY <1>2, PrefixTypes, BusyFields DEF InRequest
  <2>3. Through(x) \in Nat
    BY <1>2, ThroughTypes
  <2> HIDE DEF prefix, x
  <2> QED
    BY <1>4, <1>5, <2>1, <2>2, <2>3 DEF n
<1>12. LookupsAccounted'
  <2>1. CASE z = Idle /\ unwound' = unwound + TotalSamples(x.req)
    <3> DEFINE total == TotalSamples(x.req)
    <3>1. InRequest(y)
      <4>1. SeriesAt(y) = SeriesAt(x)
        BY <1>5 DEF SeriesAt
      <4>2. x.s \in 1..Len(x.req.timeseries) /\ Len(SeriesAt(x).samples) \in Nat
        BY <1>1, <1>2, AtSeries, SeriesTypes DEF InRequest
      <4>3. x.j \in 1..Len(SeriesAt(x).samples)
        BY <1>1, <1>2, <4>2 DEF InRequest
      <4> QED
        BY <1>2, <1>4, <1>5, <4>1, <4>2, <4>3 DEF InRequest, n
    <3>2. Through(y) <= total /\ total \in Nat /\ Through(Idle) = 0
      BY <1>5, <3>1, ThroughTypes, IdleIsNotBusy
    <3> HIDE DEF total
    <3>3. /\ Through(x) + 1 <= Through(z) + total
          /\ samplesTotal' + unwound' = samplesTotal + unwound + total
      BY <1>1, <1>6, <1>11, <2>1, <3>2 DEF total
    <3> QED
      BY <1>7, <1>9, <3>2, <3>3, LookupsMove DEF AInv
  <2>2. CASE z \in Busy /\ SamePlace(y, z) /\ unwound' = unwound
    <3>1. Through(z) = Through(y)
      BY <1>5, <2>2, SameThrough DEF SamePlace
    <3>2. Through(x) + 1 <= Through(z) + 0
      BY <1>11, <3>1
    <3>3. samplesTotal' + unwound' = samplesTotal + unwound + 0
      BY <1>1, <1>6, <2>2
    <3> QED
      BY <1>7, <1>9, <3>2, <3>3, LookupsMove DEF AInv
  <2> QED
    BY <1>7, <2>1, <2>2
<1> QED
  BY <1>9, <1>10, <1>12 DEF AInv, Caches

LEMMA InitAInv == Init => AInv
<1> SUFFICES ASSUME Init PROVE AInv
  OBVIOUS
<1>1. LookupsAccounted
  <2> DEFINE f == ThroughAll
  <2>1. \A w \in Workers : f[w] = 0
    BY DEF Init, ThroughAll, Through
  <2> HIDE DEF f
  <2>2. SumFunctionOnSet(f, Workers) = 0
    BY <2>1, WorkersAssumption, SumOfZero
  <2> QED
    BY <2>2 DEF Init, LookupsAccounted, Caches, f
<1>2. ASSUME NEW c \in Caches PROVE CacheAccounted(c)
  <2>1. MissedIn(c) = {} /\ DisplacedIn(c) = {}
    BY DEF Init, MissedIn, DisplacedIn, Displaced, Missed, Idle
  <2>2. TotalLen(samples) = 0 /\ TotalLen(paths) = 0
    BY NewTotalLen, CacheSizeAssumption, TimesAssumption DEF Init
  <2>3. CacheLen(c) = 0 /\ expired[c] = 0 /\ operations[c]["miss"] = 0 /\ evictions[c] = 0
    BY <2>2 DEF CacheLen, Init
  <2> QED
    BY <2>1, <2>3, FS_EmptySet DEF CacheAccounted
<1> QED
  BY <1>1, <1>2, InitIInv DEF AInv

LEMMA NextAInv == AInv /\ [Next]_vars => AInv'
<1> SUFFICES ASSUME AInv, [Next]_vars PROVE AInv'
  OBVIOUS
<1>1. IInv'
  BY NextIInv DEF AInv
<1>2. CASE \E w \in Workers, req \in Requests : Begin(w, req)
  BY <1>1, <1>2, BeginAccounts
<1>3. CASE \E w \in Workers, later \in Times : LookupPath(w, later) \/ LookupSample(w, later)
  BY <1>1, <1>3, LookupPathAccounts, LookupSampleAccounts
<1>4. ASSUME NEW w \in Workers,
             \/ CaptureUnwinds(w) \/ ValidateSeries(w) \/ ReportPath(w) \/ CheckWriter(w)
             \/ JudgeSample(w) \/ ReportSample(w) \/ JudgeHistograms(w) \/ Finish(w)
      PROVE  AInv'
  BY <1>1, <1>4, UnwindAccounts, ValidateSeriesAccounts, ReportPathAccounts, JudgeSampleAccounts, ReportSampleAccounts,
     JudgeHistogramsAccounts, FinishAccounts
<1>5. CASE Tick \/ UNCHANGED vars
  <2>1. UNCHANGED << samples, paths, operations, evictions, samplesTotal, expired, worker, unwound >>
    BY <1>5 DEF Tick, vars, counters, history, lookedUp
  <2>2. LookupsAccounted'
    BY <2>1 DEF AInv, LookupsAccounted, ThroughAll
  <2>3. \A c \in Caches : CacheAccounted(c)'
    BY <2>1 DEF AInv, CacheAccounted, CacheLen, MissedIn, DisplacedIn
  <2> QED
    BY <1>1, <2>2, <2>3 DEF AInv
<1> QED
  BY <1>2, <1>3, <1>4, <1>5 DEF Next

\* The counters of the caches explain their sizes, and samples_total covers the look-ups of the
\* handlers that ended, for all handlers and all caches: whatever GetOrPut evicts or finds expired is
\* counted once, also by a handler that unwinds right after.
THEOREM InspectionEntriesAccounted == Spec => []EntriesAccounted
<1>1. AInv => EntriesAccounted
  <2> SUFFICES ASSUME AInv PROVE EntriesAccounted
    OBVIOUS
  <2>1. operations["sample_conflicts"]["hit"] + operations["sample_conflicts"]["miss"]
          <= samplesTotal + unwound
               + SumFunction([w \in Workers |-> IF worker[w] = Idle THEN 0
                                                ELSE TotalSamples(worker[w].req)])
    <3> DEFINE f == ThroughAll
               g == [w \in Workers |-> IF worker[w] = Idle THEN 0 ELSE TotalSamples(worker[w].req)]
               m == operations["sample_conflicts"]["hit"] + operations["sample_conflicts"]["miss"]
               a == SumFunctionOnSet(f, Workers)
               b == SumFunctionOnSet(g, Workers)
    <3>1. ASSUME NEW w \in Workers PROVE f[w] \in Int /\ g[w] \in Int /\ f[w] <= g[w]
      <4>1. worker[w] \in {Idle} \cup Busy /\ (worker[w] # Idle => InRequest(worker[w]))
        BY DEF AInv, IInv, WorkersOK
      <4>2. /\ Through(worker[w]) \in Nat /\ (worker[w] = Idle => Through(worker[w]) = 0)
            /\ worker[w] # Idle => /\ Through(worker[w]) <= TotalSamples(worker[w].req)
                                   /\ TotalSamples(worker[w].req) \in Nat
        BY <4>1, ThroughTypes
      <4>3. f[w] = Through(worker[w]) /\ g[w] = IF worker[w] = Idle THEN 0 ELSE TotalSamples(worker[w].req)
        BY DEF ThroughAll
      <4> QED
        BY <4>2, <4>3
    <3>2. SumFunction(g) = b
      BY SumOfWhole
    <3>3. m <= samplesTotal + unwound + a /\ m \in Nat /\ samplesTotal \in Nat /\ unwound \in Nat
      BY OperationsType DEF AInv, LookupsAccounted
    <3> HIDE DEF f, g, m
    <3>4. a <= b /\ a \in Int /\ b \in Int
      BY <3>1, WorkersAssumption, SumOfMonotone, SumOfInt
    <3> HIDE DEF a, b
    <3>5. m <= samplesTotal + unwound + b
      BY <3>3, <3>4
    <3> QED
      BY <3>2, <3>5 DEF g, m
  <2>2. ASSUME NEW c \in Caches
        PROVE  LET misses == {w \in Uncounted(c) : ~worker[w].reply.hit}
                   entries == IF c = "sample_conflicts" THEN TotalLen(samples) ELSE TotalLen(paths)
               IN entries + expired[c] =
                    operations[c]["miss"] + Cardinality(misses)
                      - evictions[c] - Cardinality({w \in misses : worker[w].reply.evicted = 1})
    <3> DEFINE misses == {w \in Uncounted(c) : ~worker[w].reply.hit}
    <3>1. misses = MissedIn(c)
      BY DEF Uncounted, MissedIn, Missed
    <3>2. {w \in misses : worker[w].reply.evicted = 1} = DisplacedIn(c)
      BY DEF Uncounted, DisplacedIn, Displaced, Missed
    <3> QED
      BY <3>1, <3>2 DEF AInv, CacheAccounted, CacheLen
  <2> QED
    BY <2>1, <2>2 DEF EntriesAccounted
<1> QED
  BY <1>1, InitAInv, NextAInv, PTL DEF Spec
==============================================================================
