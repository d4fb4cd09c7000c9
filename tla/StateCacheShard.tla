--------------------------- MODULE StateCacheShard ---------------------------
(***************************************************************************)
(* One shard of a detector cache (stateCacheShard in                       *)
(* internal/inspector/cache.go).  Calls of GetOrPut are serialised by the  *)
(* mutex of the shard, and the clock runs between them and within them.    *)
(***************************************************************************)
EXTENDS CircularCache

CONSTANTS
  Keys,         \* K: the sampleKeys or pathKeys in use
  Values,       \* V: the values remembered for them
  TTL,          \* ttl, in clock ticks
  MaxEntries,   \* the size newStateCache gives this shard
  NoValue,      \* the zero value a miss answers
  MaxTime       \* bound of the model: the clock stops here

ASSUME MaxEntriesAssumption == MaxEntries \in Nat \ {0}
ASSUME TTLAssumption == TTL \in Nat
ASSUME MaxTimeAssumption == MaxTime \in Nat
ASSUME NoValueAssumption == NoValue \notin Values

VARIABLES
  cache,   \* the circularCache, guarded by mtx
  now,     \* the clock
  reply,   \* the answer of the last GetOrPut
  freed    \* history: some slot was given back because its entry expired

vars == << cache, now, reply, freed >>

Slots == 0..(MaxEntries - 1)

Init ==
  /\ cache = newCircularCache(MaxEntries, TTL)
  /\ now = 0
  /\ reply = [key |-> NoValue, hit |-> FALSE, value |-> NoValue, evicted |-> 0]
  /\ freed = FALSE

\* GetOrPut of a key that is remembered.
GetOrPutHit(k) ==
  /\ Hit(cache, k, now)
  /\ reply' = [key |-> k, hit |-> TRUE,
               value |-> cache.slots[cache.items[k]].value, evicted |-> 0]
  /\ UNCHANGED << cache, now, freed >>

\* GetOrPut of a key that is not, or no longer; Put reads the clock again.
GetOrPutMiss(k, v, later) ==
  /\ ~Hit(cache, k, now)
  /\ later >= now
  /\ LET put == GetOrPut(cache, k, v, now, later) IN
       /\ cache' = put.cache
       /\ reply' = [key |-> k, hit |-> FALSE, value |-> NoValue,
                    evicted |-> put.evicted]
  /\ now' = later
  /\ freed' = (freed \/ k \in DOMAIN cache.items)

Tick ==
  /\ now < MaxTime
  /\ now' = now + 1
  /\ UNCHANGED << cache, reply, freed >>

Next ==
  \/ \E k \in Keys : GetOrPutHit(k)
  \/ \E k \in Keys, v \in Values, later \in 0..MaxTime : GetOrPutMiss(k, v, later)
  \/ Tick

Spec == Init /\ [][Next]_vars

------------------------------------------------------------------------------
(* Types.                                                                   *)

\* The type invariant of the shard.
TypeOK ==
  /\ WellTyped(Keys, Values, cache) /\ cache.maxEntries = MaxEntries /\ cache.ttl = TTL
  /\ now \in Nat
  /\ reply \in [key : Keys \cup {NoValue}, hit : BOOLEAN,
                value : Values \cup {NoValue}, evicted : {0, 1}]
  /\ freed \in BOOLEAN

------------------------------------------------------------------------------
(* Safety.                                                                  *)

\* The map and the slots describe the same entries: a key leads to a used slot
\* that holds this very key, and a used slot is the one its key leads to.  A
\* recycled slot that an old key still led to would answer one series' samples
\* with the values of another.
IndexCoherent == MapMatchesSlots(cache)

\* No slot is lost and none is handed out twice: the free stack holds, once
\* each, exactly the slots below usedSlots that are not used.
FreeListExact == FreeMatchesSlots(cache)

\* The counter the capacity gauge is set from is the number of entries, and
\* every slot ever handed out is either counted in it or on the free stack.
LenExact == LenMatchesItems(cache)

\* The three together: the slots, the map, the free stack and the counter are one structure,
\* through any sequence of expiry, reuse and eviction.
SlotsCoherent == IndexCoherent /\ FreeListExact /\ LenExact

\* An entry still alive is pushed out only by a cache that is full of entries:
\* a call reports an eviction, and forgets another key, only when every slot
\* holds an entry.
EvictsOnlyWhenFull ==
  [][ (\E k \in DOMAIN cache.items : k \notin DOMAIN cache'.items)
        => cache.len = MaxEntries /\ reply'.evicted = 1 ]_vars

\* How many insertions away the slot is from being overwritten.
Turns(i) == (i + MaxEntries - cache.nextEvict) % MaxEntries

\* Until an entry expires, and its slot is reused out of turn, the ring forgets
\* the entry that has the least time left: going round from the cursor, the
\* entries are in the order in which they expire.
EvictsSoonestToExpire ==
  ~freed => \A i, j \in Slots :
              cache.slots[i].used /\ cache.slots[j].used /\ Turns(i) < Turns(j)
                => cache.slots[i].expiresAt <= cache.slots[j].expiresAt

------------------------------------------------------------------------------
(* Refinement.                                                              *)

\* What the cache remembers of each key, wherever the slot is.
AbstractStore ==
  [k \in DOMAIN cache.items |->
     [ value |-> cache.slots[cache.items[k]].value,
       expiresAt |-> cache.slots[cache.items[k]].expiresAt ]]

Abstract == INSTANCE BoundedMap WITH Capacity <- MaxEntries, store <- AbstractStore

\* The slots, the free stack and the ring together are a bounded map that
\* remembers the first value of a key until it expires or is evicted.
ImplementsBoundedMap == Abstract!Spec
==============================================================================
