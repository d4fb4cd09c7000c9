------------------------------ MODULE StateCache ------------------------------
(***************************************************************************)
(* A detector cache, stateCache in internal/inspector/cache.go: entries    *)
(* spread over shards by a hash of the key, each shard a CircularCache     *)
(* behind a mutex of its own.                                              *)
(***************************************************************************)
EXTENDS CircularCache

\* defaultShards is defaultCacheShards, a small number in the runs.
ShardCount(maxEntries, defaultShards) ==
  IF maxEntries < defaultShards THEN maxEntries ELSE defaultShards

\* The first shards get one entry more than the others when the size does not
\* divide evenly.
ShardSize(maxEntries, count, idx) ==
  (maxEntries \div count) + (IF idx < maxEntries % count THEN 1 ELSE 0)

newStateCache(maxEntries, ttl, defaultShards) ==
  LET count == ShardCount(maxEntries, defaultShards) IN
  [idx \in 0..(count - 1) |-> newCircularCache(ShardSize(maxEntries, count, idx), ttl)]

\* hash is the shard function the cache was made with, key -> uint64.
shardFor(c, hash, k) == hash[k] % Cardinality(DOMAIN c)

\* Slip of ShardedGetOrPut: an entry found expired is dropped, and the key not stored.
ShardedGetOrPutDropsExpired(c, hash, k, v, now, later) ==
  LET idx == shardFor(c, hash, k)
      put == GetOrPut(c[idx], k, v, now, later)
      expired == k \in DOMAIN c[idx].items /\ ~Hit(c[idx], k, now)
  IN
  [ cache |-> [c EXCEPT ![idx] = IF expired THEN Get(@, k, now) ELSE put.cache],
    evicted |-> put.evicted ]

\* The cache after a call of GetOrPut, and the number of entries it evicted.
ShardedGetOrPut(c, hash, k, v, now, later) ==
  LET put == GetOrPut(c[shardFor(c, hash, k)], k, v, now, later) IN
  [ cache |-> [c EXCEPT ![shardFor(c, hash, k)] = put.cache], evicted |-> put.evicted ]

ShardedHit(c, hash, k, now) == Hit(c[shardFor(c, hash, k)], k, now)

\* What a hit answers.
Existing(c, hash, k) ==
  LET shard == c[shardFor(c, hash, k)] IN shard.slots[shard.items[k]].value

KeysIn(c) == UNION {DOMAIN c[idx].items : idx \in DOMAIN c}

\* The number of entries of all the shards, at one moment.
TotalLen(c) == SumFunction([idx \in DOMAIN c |-> c[idx].len])

\* Every shard is a well-formed cache that holds keys of its own only.
ShardsWellFormed(K, V, hash, c) ==
  \A idx \in DOMAIN c :
    WellFormed(K, V, c[idx]) /\ \A k \in DOMAIN c[idx].items : shardFor(c, hash, k) = idx
==============================================================================
