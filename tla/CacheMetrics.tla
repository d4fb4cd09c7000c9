----------------------------- MODULE CacheMetrics -----------------------------
(***************************************************************************)
(* The entries gauge of a detector cache: updateCacheMetrics of            *)
(* internal/inspector/inspector.go and Len of internal/inspector/cache.go. *)
(* An inspection looks keys up and, when it ends, sets the gauge unless    *)
(* another did so within a second.  Len locks one shard after the other    *)
(* while other inspections go on, and the gauge is set without a lock.     *)
(***************************************************************************)
EXTENDS StateCache

CONSTANTS
  SampleKeys, SampleValues, CacheTTL,
  DefaultShards,  \* defaultCacheShards
  Hash,       \* sampleCacheShard
  Workers,    \* the goroutines that inspect requests
  CacheSize,  \* cfg.CacheSize
  Second,     \* ticks of the clock per second
  MaxClock    \* bound of the model: the clock stops here

ASSUME CacheSizeAssumption ==
  CacheSize \in Nat \ {0} /\ DefaultShards \in Nat \ {0} /\ CacheTTL \in Nat /\ Hash \in [SampleKeys -> Nat]
ASSUME SecondAssumption == Second \in Nat \ {0} /\ MaxClock \in Nat

VARIABLES
  samples,  \* the stateCache
  time,     \* the clock
  last,     \* cacheMetricsLast, or Never
  gauge,    \* cache_entries
  worker    \* where each worker is, its reading of the clock and the sum of Len so far

metricsVars == << samples, time, last, gauge, worker >>

Never == -1
Idle == [pc |-> "idle"]
Shards == 0..(ShardCount(CacheSize, DefaultShards) - 1)

MetricsInit ==
  /\ samples = newStateCache(CacheSize, CacheTTL, DefaultShards)
  /\ time = 0
  /\ last = Never
  /\ gauge = 0
  /\ worker = [w \in Workers |-> Idle]

Inspect(w) ==
  /\ worker[w] = Idle
  /\ worker' = [worker EXCEPT ![w] = [pc |-> "inspect"]]
  /\ UNCHANGED << samples, time, last, gauge >>

\* A look-up of the inspection.
Lookup(w, k, v, later) ==
  /\ worker[w].pc = "inspect"
  /\ later >= time
  /\ samples' = ShardedGetOrPut(samples, Hash, k, v, time, later).cache
  /\ time' = later
  /\ UNCHANGED << last, gauge, worker >>

\* The end of the inspection: the clock is read before cacheMetricsMtx is taken.
ReadClock(w) ==
  /\ worker[w].pc = "inspect"
  /\ worker' = [worker EXCEPT ![w] = [pc |-> "throttle", clock |-> time]]
  /\ UNCHANGED << samples, time, last, gauge >>

\* Under cacheMetricsMtx.  The entries there are when Len begins are kept for the
\* properties.
Throttle(w) ==
  /\ worker[w].pc = "throttle"
  /\ IF last # Never /\ worker[w].clock - last < Second
     THEN worker' = [worker EXCEPT ![w] = Idle] /\ UNCHANGED last
     ELSE /\ last' = worker[w].clock
          /\ worker' = [worker EXCEPT ![w] =
               [pc |-> "len", idx |-> 0, total |-> 0, before |-> TotalLen(samples)]]
  /\ UNCHANGED << samples, time, gauge >>

\* Len adds up one shard at a time.
LenShard(w) ==
  /\ worker[w].pc = "len"
  /\ worker[w].idx \in Shards
  /\ worker' = [worker EXCEPT ![w].total = @ + samples[worker[w].idx].len, ![w].idx = @ + 1]
  /\ UNCHANGED << samples, time, last, gauge >>

\* Slip of SetGauge: Add for Set.
SetGaugeAdds(w) ==
  /\ worker[w].pc = "len"
  /\ worker[w].idx \notin Shards
  /\ gauge' = gauge + worker[w].total
  /\ worker' = [worker EXCEPT ![w] = Idle]
  /\ UNCHANGED << samples, time, last >>

SetGauge(w) ==
  /\ worker[w].pc = "len"
  /\ worker[w].idx \notin Shards
  /\ gauge' = worker[w].total
  /\ worker' = [worker EXCEPT ![w] = Idle]
  /\ UNCHANGED << samples, time, last >>

TimePasses ==
  /\ time < MaxClock
  /\ time' = time + 1
  /\ UNCHANGED << samples, last, gauge, worker >>

MetricsNext ==
  \/ \E w \in Workers, k \in SampleKeys, v \in SampleValues, later \in 0..MaxClock : Lookup(w, k, v, later)
  \/ \E w \in Workers :
       \/ Inspect(w)
       \/ ReadClock(w)
       \/ Throttle(w)
       \/ LenShard(w)
       \/ SetGauge(w)
  \/ TimePasses

MetricsSpec == MetricsInit /\ [][MetricsNext]_metricsVars

------------------------------------------------------------------------------
(* Types.                                                                   *)

Workings ==
  {Idle} \cup [pc : {"inspect"}] \cup [pc : {"throttle"}, clock : 0..MaxClock]
    \cup [pc : {"len"}, idx : 0..Cardinality(Shards), total : 0..CacheSize, before : 0..CacheSize]

\* The type invariant: well-formed shards, and no count beyond the capacity.
MetricsTypeOK ==
  /\ DOMAIN samples = Shards /\ ShardsWellFormed(SampleKeys, SampleValues, Hash, samples)
  /\ time \in 0..MaxClock
  /\ last \in {Never} \cup 0..MaxClock
  /\ gauge \in 0..CacheSize
  /\ worker \in [Workers -> Workings]

------------------------------------------------------------------------------
(* Safety.                                                                  *)

\* Len is of one moment although it is not taken at one: its sum lies between the
\* entries there were when it began and the entries there are.  (An
\* expired entry leaves its shard only in the critical section that stores its key
\* anew, so no shard is ever seen to shrink.)  So the gauge, which older sums may overwrite,
\* can be low, but never runs ahead of the cache.
LenOfSomeMoment ==
  /\ \A w \in Workers :
       worker[w].pc = "len" /\ worker[w].idx \notin Shards =>
         worker[w].before <= worker[w].total /\ worker[w].total <= TotalLen(samples)
  /\ gauge <= TotalLen(samples)
==============================================================================
