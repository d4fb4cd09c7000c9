# remote-write-inspector in TLA+

`remote-write-inspector` receives Prometheus remote-write requests, answers them, and looks for
data quality problems in what they carry: bad labels, stale and future samples, one timestamp with
two values, one series on two input paths. It never forwards anything. What it is worth depends on
whether its findings are real, whether it misses any, and whether it can ever get in the way of its
senders. This directory models the receiver, its process and its load generator as TLA+ modules
checked by TLC, and proves for every size with TLAPS each safety property that TLC checks on a small
instance.

Paths below are relative to `src/internal/inspector/` unless they say otherwise.

## 1. The system

| Component | State it keeps | Operations | Who calls it, from where |
| --- | --- | --- | --- |
| Process (`cmd/remote-write-inspector/main.go`) | the channels of errors and signals, the server, the context of the shutdown | parse, `NewServer`, serve, select, `Shutdown`, exit | the operating system |
| Configuration (`config.go`) | none after start | `normalize`, the checks of `New` | `NewServer`, once |
| Identity (`identity.go`) | none after start | `NewIdentitySet`, `Resolve` | `New`; the handler, once |
| Receive endpoint (`server.go`), admission (`inspector.go:140-153`) | admission channel, in-flight gauge, `requests_total`, `decode_errors_total` | `receiveHTTP`, `readLimited`, `tryAdmit`, `release` | `net/http`, one goroutine per connection |
| Inspection and detectors (`inspector.go:172-368`) | counters of samples, findings, cache operations, evictions | `inspectReceived`, `detectDuplicateSample`, `detectCrossPathCollision` | the handler, without any lock |
| State cache (`cache.go`) | up to 64 shards, each a map, an array of slots, a free stack, a ring cursor, under a mutex of its own | `GetOrPut`, `Len` | the detectors of all handlers |
| Cache gauges (`inspector.go:474-490`) | time of the last update, `cache_entries` | `updateCacheMetrics` | every inspection when it ends |
| Sample capture (`capture.go`) | attempts, window, window count, under a mutex; four counters per identity, outside it | `inspect`, `skip`, `reserve` | the handler, for each series |
| Series validation, canonical hash (`inspector.go:252-322`, `hash.go`) | none | `validateSeries`, `canonicalHash` | the handler, for each series |
| Top series (`metrics.go:133-267`) | window start, counts per series, under a mutex | `Observe`, `Collect` | the handler for each finding; a scrape |
| Finding log sampler (`diagnostics.go`) | window start, keys seen, under a mutex | `ShouldLog` | the handler for each finding |
| Load generator (`cmd/rwi-loadgen/main.go`) | number of the next request, atomic counters | workers, progress lines, summary | a person |

How they interact: the process makes an inspector of its command line and serves. A handler is
admitted or answered 204 at once; it reads and decodes the body, inspects the series one after the
other (hash, capture, labels, paths, samples, histograms), counts the result and gives its slot back
while unwinding. Handlers share everything but their own request. A scrape reads all the counters at
any moment. A signal stops the server from taking connections, and the process waits for its handlers,
but not for ever.

What is hard about it:

* *Two clocks for one decision.* Samples are judged by one reading of the clock per request, cache
  entries by two readings per look-up, and the three windows by readings that in two cases are taken
  before the mutex that protects the window.
* *Updates in two steps.* The channel and the gauge; the cache and its counters; the counters of the
  capture ledger; the sum over the shards; the report of the load generator.
* *Slots that are recycled.* Expiry, overwriting and eviction in one array.
* *Ways out.* Each early return of `receiveHTTP` counts by itself, and a handler can unwind by a
  panic; the process can end by an error, by success and by a signal, with handlers at work.
* *Loops with shortcuts.* Neighbours compared instead of all pairs; a hash with and without a sort;
  a map pruned with its counts.
* *One decision in several places.* Whether the detector of paths is active, which names are
  reserved, how much memory a cache may use.

The complete list, at its lines and with the properties that cover it, is `hazards` in
`PROJECT.json`.

## 2. Modules

```
BoundedMap <--refines-- StateCacheShard --> CircularCache <-- StateCache <-- Inspection (two instances)
                                                                 ^  ^------- CacheMetrics
                                                                 +---------- Config <-- Process
SampleCapture      ReceiveHTTP      Findings      Labels      LoadGen
```

| Module | Models | State and actions |
| --- | --- | --- |
| `CircularCache` | the data structure in `cache.go:97-187` | a record with the fields of `circularCache`; `Get`, `Put`, `RemoveSlot`, `NextSlot` as operators from a cache to the cache the method leaves |
| `StateCacheShard` | one shard and its mutex | `GetOrPutHit`, `GetOrPutMiss`: one critical section each, two readings of the clock in the miss |
| `BoundedMap` | what a shard promises: a map of at most so many entries which answers the first value until it expires, and may forget one live entry only to store another when full | abstract specification |
| `StateCache` | `newStateCache`, `shardFor`, `GetOrPut`, `Len` over shards | operators |
| `Inspection` | `inspectReceived` of concurrent handlers over both caches | one action per statement that others can see: `ValidateSeries`, `LookupPath`, `ReportPath`, `CheckWriter`, `JudgeSample`, `LookupSample`, `ReportSample`, `JudgeHistograms`, `Finish`; each that counts under the identity of the request can unwind instead (`Panics`, `Unwind`), and so can the capture session (`CaptureUnwinds`) |
| `CacheMetrics` | `updateCacheMetrics` and `Len` while look-ups go on | `ReadClock` outside the mutex, `Throttle` under it, `LenShard` shard by shard, `SetGauge` |
| `SampleCapture` | `inspect`, `skip`, `reserve` | `ReadClock` outside the mutex, `Reserve` under it, `Log`, `Capture`, `Truncate`, `Skip`, counter by counter |
| `ReceiveHTTP` | a request from its arrival to its answer | `TryAdmit`, `IncGauge`, `Overloaded`, `ReadBody`, `Decode`, `Inspect`, `ObserveResult`, `Release`, `DecGauge` |
| `Findings` | a finding on its way through the top series and the log sampler; scrapes | `Observe` and `Collect` read the clock under their mutex, `ReadClock` before that of `ShouldLog` |
| `Labels` | `canonicalHash` and `validateSeries` on one series | `HashSeries`, `CheckCount`, `CheckLabel` for each label, `CheckDuplicates` |
| `Config` | `normalize`, `NewIdentitySet`, `Resolve`, the top-series labels, the memory budget, and what `New` accepts and builds | operators on a command line, a record with the fields of `Config` |
| `Process` | `main` and the goroutine of the server, over `Config`; connections, signals and the clock around them | `Parse`, `NewServer`, `Serve`, `Notify`, `TakeSignal`, `TakeError`, `Poll`, `GiveUp`; `Listen`, `AcceptFails`, `ServerClosed`; `Connect`, `Request`, `Answer`, `HangUp`, `Signal` |
| `LoadGen` | the workers of the load generator, their counters, and the main goroutine that reads them | `Pace`, `Generate`, `Answered`, `Failed`, `Count` (one atomic addition each); `Progress`, `Read` (one counter each), `StopWatching`, `Summarise`, `Report` |

`*Proofs` modules hold the proofs, over `SharedFacts` (division, extrema, sums over finite sets, and
the operators of `CircularCache` and `StateCache`); `MC*` modules hold the finite constants. The names
in `LoadGen` and `CacheMetrics` are their own (`GeneratorInit`, `MetricsNext`, `samples`, `time`)
because `CommandProofs` extends both commands and `CacheProofs` both views of the cache. Definitions named after another one with a suffix and commented "Slip
of ..." are plausible mistakes in that definition: put in its place, each makes the property named in
`mutants` of `PROJECT.json` fail, which shows that the property depends on that piece of code.

What is abstracted, throughout: log records and help texts; label values are equal or not; the time
of day is a tick; an HTTP body is its size, the size it announces and what is wrong with it; a
command line is what its flags say, the regular expressions sets of names; 64-bit hashes do not
collide. Histograms of durations are left out: they depend on nothing and nothing depends on them.

## 3. Runs

| Run | Question | Instance |
| --- | --- | --- |
| `cache_shard` | Do map, slots, free stack and ring stay one structure, and is it a bounded map? | 4 keys, 3 slots, 2 values, TTL 1, clock to 4 |
| `inspection` | No false alarm, no missed conflict, counters that explain the caches? | 2 handlers, 3 requests of 5 kinds, one of them with an identity that is not UTF-8, 2 tenants, 2 paths, caches of 3 entries in 2 shards, clock to 4 |
| `cache_metrics` | Is the gauge a number of entries the cache had? | 2 handlers, 3 keys, shards of 2 and 1 entries, clock to 3 |
| `capture` | Do the budgets hold, and does the ledger account for every sample at every moment? | 2 handlers, 2 identities, rate 1, 3 samples a session, 5 ticks, windows of 2 |
| `receive` | Do admission, counters and answers agree, are the limits exact, and does nobody wait for a slot? | 2 requests, 1 slot, 9 bodies around every limit |
| `findings` | How wrong can pruning make the top series, and are first examples bounded? | 2 handlers, 4 series, 1 reported, pruned to 2 above 3, 6 findings |
| `labels` | Are the reasons exactly those that hold, and does the hash identify the series? | every list of up to 4 of 12 labels |
| `process` | Does every accepted command line give an inspector that works, and does the process end as it should? | about 170 command lines around every decision, 2 connections, headers that are blank, long, or cut to `unknown` |
| `loadgen` | Do the counters of the generator add up, and does every path get every series? | 2 workers, statuses 2xx, other and beyond the table, 3 series in requests of 2, 2 paths, 3 requests and those under way |
| `receive_dropped`, `labels_nul`, `loadgen_baseline` | Does the code do what its text says? No: see section 6 | as above; for `loadgen_baseline` 1 worker, 2 samples a series, clock to 2 |

Bounds that exist only in the models: `MaxTime` stops the clock, `MaxInspections`, `MaxRequests` and
`MaxFindings` stop new work, `MaxLen` the labels of a series, `MaxDelay` the time an inspection takes
(`Inspection`; section 5). Each instance is small, and each is large enough for the event that
the properties are about: a slot expires, is freed, reused and evicted by the ring in turn (four keys
for three slots, TTL 1 of 4 ticks); a reading of the clock waits for the mutex while a later window
opens (clock at least one window longer than the session needs); a request is admitted between the
two steps of a release (one slot, two requests); a series is pruned, comes back and is pruned again
(two more findings than series); an inversion separates two equal label names (four labels); a
budget is below one entry, not divisible by the active caches, and above the largest int (eight
budgets for zero to two caches); a handler works while another connection is idle or new and the
timeout passes (two connections); a cycle of series ends in the middle of a request (three series in
twos). Every action and every disjunct of the next-state relations fires in these runs.

Runs with `CHECK_DEADLOCK FALSE` are of systems that come to rest when the bounded work is done or
the process has ended.

### What the properties say

* **No false alarm** (`FindingsAreReal`): a reported conflict names a value that the same tenant
  really sent before for this series and timestamp, and a collision a path that really carried the
  series, although slots are recycled and shards shared.
* **No missed conflict** (`ConflictsDetected`): unless the cache had to evict the key, all values
  but the first are reported that come with a valid identity. An identity value cut inside a
  character is not UTF-8, and the counter of findings panics over it (`inspector.go:377`) when
  the look-up has been counted and before anything is reported: such a request finds its conflict and
  takes it along. It can still be the one whose value was first, and requests with valid identities are
  compared with it; the property holds them to it. It needs the entry to outlive the sample: an entry stored for a sample
  as far in the future as allowed must live until a request that was slow has judged the same
  timestamp not stale. That is `CacheTTL >= StaleCutoff + FutureSkew + MaxDelay`, the named
  condition `Retained` of the property. The defaults (25h against 23h and 10min) satisfy it with
  110 minutes to spare for the delay; `normalize` does not enforce it.
* **The caches explain themselves** (`EntriesAccounted`): entries are misses less evictions
  less expired ones, at every moment, with what handlers have not counted yet, and however many
  handlers unwound; and `samples_total` has every look-up in it but for inspections under way and
  those that unwound, whose samples the history variable `unwound` adds up (the look-ups stay
  counted, and `inspector.go:242`, last and under the identity as well, is not got to or panics itself).
* **The shard** (`SlotsCoherent`, `ImplementsBoundedMap`, `EvictsSoonestToExpire`): map, slots, free
  stack and counter are one structure, which is a bounded map with expiry. As long as nothing
  expired, the ring forgets the entry with the least time left; after an expiry the slot is reused out
  of turn and this is lost.
* **The gauge** (`LenOfSomeMoment`): `Len` is taken shard by shard, and still lies between the
  entries at its beginning and at its end, because an expired entry leaves only in the critical
  section that replaces it. The gauge may be old (it is set at the end of an inspection, at most once
  a second, and an older sum can overwrite a newer one), so it can be too low for as long as no
  request comes; it is never too high.
* **Capture** (`LedgerBalanced`, `AttemptsAccounted`, `RateEnvelope`, `GivesUpOnlyTheRefused`): at
  every moment what is matched is captured, skipped or still in somebody's hands, and a scrape
  errs on one side only; every attempt is captured, failed or being logged; no more attempts than the
  rate allows for the seconds begun, however late readings come; an early return loses nothing that
  could have been captured.
* **Admission** (`SlotsHeld`, `GaugeSettles`, `CountedAsAnswered`, `LimitsExact`,
  `NeverWaitsForASlot`, `SlotComesBack`): tokens are handlers, also when they unwind by a panic; the
  gauge agrees whenever nobody is between its two steps; every answer is counted once, under a result
  and a reason that agree with its status; both limits are exact, on the wire and decoded, for every
  maximum but the largest int64 (`server.go:137`, see section 6); a slow body keeps its slot and nobody else.
* **Top series** (`UndercountBounded`, `ScrapeIsTop`): a count is never too high, and too low by at
  most one *floor* for each prune of the window, the floor being the count that as many entries as
  survive a prune have reached. The floor never falls within a window, which is why the bound holds
  for series that are dropped and come back. A scrape is a top list up to that slack, and holds
  nothing first observed a window ago. `FirstExamplesBounded`: late readings of the clock open no
  extra windows.
* **Labels** (`ReasonsExact`, `DigestIdentifiesSeries`): comparing neighbours, and searching all names
  only after an inversion, finds every duplicate; and the bytes hashed are the labels in their one
  canonical order.
* **Start** (`BudgetRespected`, `CacheForEveryLookup`, `LabelsDistinct`): the shards of all caches
  stay within the memory budget and leave less than an entry for each; three pieces of code decide
  whether the detector of paths is active, and never so that a handler looks into a cache that is not
  there; the reserved names, a list kept by hand, are enough to keep every row and every record
  free of a name given twice.
* **End** (`ExitZeroCutsNobody`, `SignalEndsProcess`): success means that no handler was cut off,
  although the result of the server is there before they are through; and a signal ends the process
  although clients may never send the rest of a request.
* **Load generator** (`SummaryExact`, `ProgressLag`, `EveryPathCarriesEverySeries`, `EndsWithSummary`):
  the summary counts every request once but those cut by the end, and under an outcome each but those
  answered with 600 or more: the table of statuses ends at 599 (`main.go:460`), the client takes
  statuses up to 999, and the history count `unlisted` is how many there were. A progress line can show more
  successes than requests, and lacks at most one request of each worker beside those; each path carries
  each series although they do not divide into requests (of the requests generated: one may fail, or
  be cut by the end); the end of the test ends the program.

## 4. Fairness

Safety runs use `Spec`, without fairness, where no liveness is asked. Three systems need more:

* `ReceiveHTTP!FairSpec`: weak fairness of every step of a handler *except reading the body*. Only the
  headers have a read timeout (`server.go:46`), so a client may take for ever; that is why
  `SlotComesBack` speaks of clients that still send.
* `Process!FairSpec`: weak fairness of the two goroutines and of the timer, strong fairness of
  `GiveUp`: `Shutdown` selects between its ticker and its context, at random when both are ready, and
  the ticker makes `GiveUp` possible again and again rather than for good. Clients and the operator
  need do nothing.
* `LoadGen!FairGeneratorSpec`: weak fairness of each worker, whose requests end by the timeout of the client
  although no server need answer, and of the main goroutine; strong fairness of leaving the loop of
  progress lines, for the same reason as above.

## 5. Proofs

All theorems are for arbitrary constants under the named assumptions of the modules (sizes positive,
sets arbitrary), with no bound on time or work beyond the ones the modules name.

* `SharedFacts` is what several of the proofs rest on. A sum over a finite set is a fold, which is a
  recursive function under a `CHOOSE`; that there is such a function for every finite set, that a sum
  looks only at its members, and what adding, removing or changing a member does to it, follows from
  the well-foundedness of the subsets of a finite set (`SumExists`, `SumLocal`, `SumOfAdd`,
  `SumOfChange`, `SumOfMonotone`, ...), so no induction over data is needed. `NaturalInduction` is
  induction for a *set* of naturals, from the least one outside it. The lemmas on the cache show,
  operator by operator, that `Get`, `Put` and `GetOrPut` take a well-formed cache to a well-formed
  one, what they store and what they keep. `WellFormed` is types, the map and the slots inverse to each
  other, the free stack exact, and `len` equal to the number of keys. None of the four is inductive
  alone: pushing a slot once needs to know that it was not on the stack, which is a fact about slots.
  Between taking a slot and filling it the cache is not well-formed; the lemmas on `NextSlot` describe
  that state as a cache with one *hole*. `ShardedMissStores` lifts this to a cache of any number of
  shards: a look-up that misses stores its key, loses at most the one entry it says it evicted, and
  changes no other shard. `ShardsAddUp`: the shards hold together exactly what the cache was made for.
* `CacheProofs`, the shard: `TypeCorrect`, `SlotsAreCoherent`, `OnlyFullCachesEvict` and `Refines`:
  every step of a shard is a step or a stutter of `BoundedMap`, under the mapping that forgets where
  the slots are. `SoonestToExpireGoesFirst` proves `EvictsSoonestToExpire` from `RingInv`: until a slot
  is given back the free stack is empty, the cursor stands at 0 until every slot was handed out, and
  nothing stored so far expires after `now + TTL`; so the slot written is the last in the turn of the
  ring and holds the latest expiry, and the turns of the others only move up by one
  (`TurnsKeepOrder`). The gauge: `LenIsOfSomeMoment` and `MetricsTypeCorrect` rest on `LookupGrows`, no
  look-up lets a shard shrink, because it evicts only to store a key that was not there. The
  invariant says of a sum under way that it is at most what the shards passed now hold, and that with
  what the shards ahead hold it makes up for what there was at the beginning.
* `InspectionProofs`: `InspectionFindingsAreReal` carries the link from a finding back to what was
  sent: every entry of either cache was offered under its own key, and so was every answer a handler
  still holds. Recycled slots, shared shards and eviction cannot break it, because a miss stores what
  its own handler offers and alters no other entry. `InspectionConflictsDetected` adds that an entry
  outlives the last moment at which its sample can be judged not stale (under `Retained`), so that
  each valid offer of a key that was never evicted equals the value remembered or is reported against
  it. A handler that unwinds takes nothing from the cache and nothing from what others have to report
  (`GoesOnMoves`: it goes on to the next place, or is idle with its samples in `unwound`).
  `InspectionEntriesAccounted` balances the books: the entries of a cache with the expired ones are
  the misses and evictions counted, with those that handlers have yet to count, as sums over shards
  and over handlers; one lemma (`Balanced`) covers all the steps that move between them, and another
  (`LeavesAccounted`) the ways out of an inspection: the samples of its request go to `samples_total` or
  to `unwound`, and cover the look-ups it made.
* `SampleCaptureProofs`: `RateIsBounded` rests on the strengthening `attempts <= Rate * (windowStart
  div Second) + windowCount` with `windowStart <= now`, which a late reading cannot disturb because it
  can only count in the window that is open. `EarlyReturnIsSound` carries with each worker, that is
  about to give up its batch, the fact that made the refusal permanent, and shows that no step of
  another worker takes it back. `LedgerIsBalanced` and `AttemptsAreAccounted` make the inequalities of
  the ledger equations: what matched and is neither captured nor skipped is, identity by identity, the
  sum of what the workers hold; the attempts that no counter shows are those of the workers between
  `reserve` and the counter.
* `ReceiveHTTPProofs`: one lemma per handler step gives the same five-line *balance* (what the step
  changes in channel, gauge and counters against what it changes in this request's place, status and
  result), and one lemma turns a balance into `SlotsAreHeld`, `GaugeAgrees` and
  `CountersAgreeWithAnswers`, which relate counters to cardinalities of sets of requests. The
  strengthening says which statuses and results a request can have where; with what `OutcomeOf` can
  answer it gives `LimitsAreExact`.
* `FindingsProofs`: `UndercountIsBounded` and `ScrapesAreTop` rest on the floor. It is characterised
  as the largest count that so many entries have reached; counting one more finding cannot lower it,
  and neither can a prune, because the entries that reach it are among those kept
  (`FloorGrowsByPruning`, from the cardinalities of finite sets). What a prune drops was at most the
  floor, so one more floor pays for it. The bound is inductive only with the invariant that a map
  that was ever pruned in the window still has `Keep` entries. `FirstExamplesAreBounded` is the argument
  of `RateIsBounded` for the window of the sampler. `FindingsTypeOK` needs `SizesInv`: a finding is
  begun once, observed once and logged at most once, so no count can pass the findings begun less
  those that still wait to be observed.
* `LabelsProofs`: `Less` is a strict total order of strings (`LessTransitive`, `LessTotal`, by the
  first place where they differ). Hence a list without an inversion between neighbours has none at all
  (the closest inverted pair would be neighbours), and equal names in it are neighbours. The invariant
  of the loop says what it has found after `n` labels; `ReasonsAreExact` adds the final search.
  `DigestsIdentifySeries` has three parts. Sorting: any list of labels can be put in order, by
  selection, place by place, so `sortedPairs` answers a permutation in order, and there is only one.
  Writing: the fields lie one behind the other, each with a NUL at its end, which is shown for the
  fold that concatenates them by `NaturalInduction`. Reading back: no NUL lies in a field, so the
  number of NULs before a place tells which field it belongs to, and the fields are found again.
* `CommandProofs`, the inspector: it is at all times what `New` made of an accepted command line, so
  `EveryLookupHasItsCache`, `LabelsAreDistinct` and `BudgetIsRespected` are facts about operators: the
  shards of any positive size hold an entry each and add up to it, and the size is the quotient of the
  budget, at least one and at most the largest int; a concatenation of lists without repetition that
  share nothing has none. `ZeroExitCutsNobody` needs to know where the goroutines can be: the server's
  result `closed` is there only once the main goroutine no longer reads it, and there are no
  connections before the server runs. The load generator: `SummaryIsExact` and `ProgressLagIsBounded`
  follow from accounts of the same kind as above (`Accounts`: what a counter lacks is what workers have
  still to count) and from `PlaceOK`: the counters already read, and those still to be read as they
  are *now*, together lack no more than the accounts allow, because the requests are read first and the
  workers only add to the others. An answer beyond the table of statuses is an outcome of its own in
  these accounts, which no snapshot reads. `EveryPathIsCarried` is arithmetic (`CycleCovers`: the requests of
  one turn go all the way round the series) over the invariant that every number taken has its request
  (`SentOK`).

Only model-checked: the liveness properties `NeverWaitsForASlot`, `SlotComesBack`,
`SignalEndsProcess` and `EndsWithSummary`, because fairness and `ENABLED` are out of the prover's
reach. Every invariant of every passing run is proved, and so are the action properties and the
refinement.

## 6. Where the code and its text differ

Each is a run that TLC finds violated, quoted in full under `findings` in `PROJECT.json`.

| Run | The text | The code |
| --- | --- | --- |
| `receive_dropped` | 204 for successfully decoded requests | an identity value cut inside a character makes the metrics library panic |
| `labels_nul` | the top series are exact canonical series | a NUL in a label value makes two valid series hash the same bytes |
| `loadgen_baseline` | `conflict-ratio` is the fraction of samples with repeated timestamps and changing values, 0 by default | fresh timestamps reach back by the number of samples, so requests close in time overlap, with values that depend on the position in the request |

Smaller differences that the models contain and no run is spent on:

* The session of the sample capture can accept a reading from before its deadline after another
  handler's was refused for the deadline (`capture.go:135`, `capture.go:137`): budgets hold, the
  order does not.
* The in-flight gauge exceeds the configured maximum for a moment when a request is admitted between
  the two statements of `release` (`inspector.go:150`).
* `max-body-bytes` is described as the compressed size and limits the decoded size too
  (`server.go:100`).
* At the largest int64 as `max-body-bytes` the limit of the read overflows (`server.go:137`), one
  byte is read, and every longer body is refused as undecodable; `LimitsExact` is of smaller maxima.
* Statuses of 600 and more are in no line of the generator's report (`main.go:460`), so its statuses
  and errors need not add up to its requests.
* Truncated identity values also merge tenants in the keys of the detectors, not only in labels.
* `time`, `level` and `msg`, which the log handler itself writes, are not among the reserved names.
* With two tenants, two paths and a cycle of odd length, the generator always sends a series of a
  tenant on the same path: every path carries every series, but not for every tenant.

## 7. Not modelled

Every component is modelled. Within them these are left out:

* `ListenAddress` and the prefixes of diagnostic metrics in the configuration: strings that select
  nothing the properties tell apart.
* `seriesName`, `hostName`, projected labels and the byte budget of a log record: they choose text.
* The texts of the load generator's report and the latency estimates computed from a snapshot; its
  four ratios are zero, and its two error paths that no message and no accepted address can take are
  left out.
* Histograms of durations.
* In the generator, taking the number of a request (`main.go:298`) and reading the clock for its samples
  (`main.go:330`) are one action. Only `BaselineHasNoConflicts` looks at times, and its counterexample
  needs one worker.
* A panic over values that are not UTF-8 is modelled where an identity has them, in `ReceiveHTTP`
  and `Inspection`. `SampleCapture` and `Findings` are of requests with valid identities: with another
  one the first counter of either panics before anything has changed there. The rows of the top series
  also hold values of the series themselves, and a scrape makes metrics of them that panic when one is
  not UTF-8 (`metrics.go:235`); `Collect` is of rows without such values.
* Snappy, protobuf, the Prometheus client and `net/http` are external. What the models assume of
  them: a decoder accepts or rejects a whole body; counters are atomic; `Shutdown` looks at a
  connection and closes it in one step, closes idle connections and silent new ones, and returns
  when none is left or its context is over.

## 8. Plan

Done, in this order: the cache shard with its refinement and proofs; capture with proofs; the
receive endpoint with proofs; the sharded cache and the inspection composed with both caches; the
gauges; findings; labels; the configuration with the process, the load generator; then the proofs
about findings, labels, the process, the inspection, the ledger, the digest, the load generator and
the gauge, which leave no invariant of a passing run unproved.

Next:

1. An abstract specification of the detectors, a map from keys to first values without shards or
   slots, with a proof that `Inspection` refines it as long as nothing is evicted.
2. An abstract admission control (a counter between 0 and the maximum) which `ReceiveHTTP` refines.
3. The safety half of the liveness arguments: what can still be done in every state where a handler
   or the process waits.
