----------------------------- MODULE CacheProofs -----------------------------
(***************************************************************************)
(* The detector caches.  One shard, for every number of slots, every set   *)
(* of keys and values and every time to live: its structure, the order of  *)
(* eviction, and that it implements BoundedMap.  A cache of any number of  *)
(* shards, and its gauge: what Len answers while the shards change.        *)
(***************************************************************************)
EXTENDS StateCacheShard, CacheMetrics, SharedFacts

------------------------------------------------------------------------------
(* One shard: StateCacheShard.                                              *)

\* The inductive invariant: the types, and that the cache is well formed.  The
\* three parts of WellFormed need one another: that the evicted slot is used
\* follows from the free stack, that the counter can be decremented from the map.
Inv ==
  /\ WellFormed(Keys, Values, cache) /\ cache.maxEntries = MaxEntries /\ cache.ttl = TTL
  /\ now \in Nat
  /\ reply \in [key : Keys \cup {NoValue}, hit : BOOLEAN,
                value : Values \cup {NoValue}, evicted : {0, 1}]
  /\ freed \in BOOLEAN

LEMMA InvImplies ==
  Inv => TypeOK /\ IndexCoherent /\ FreeListExact /\ LenExact
BY DEF Inv, TypeOK, IndexCoherent, FreeListExact, LenExact, WellFormed

LEMMA InitInv == Init => Inv
<1> SUFFICES ASSUME Init PROVE Inv
  OBVIOUS
<1>1. WellFormed(Keys, Values, cache) /\ cache.maxEntries = MaxEntries /\ cache.ttl = TTL
  BY NewWellFormed, MaxEntriesAssumption, TTLAssumption DEF Init
<1>2. reply \in [key : Keys \cup {NoValue}, hit : BOOLEAN,
                 value : Values \cup {NoValue}, evicted : {0, 1}]
  BY DEF Init
<1>3. now \in Nat /\ freed \in BOOLEAN
  BY DEF Init
<1> QED
  BY <1>1, <1>2, <1>3 DEF Inv

\* A hit answers with what the slot of its key holds.
LEMMA HitValue ==
  ASSUME Inv, NEW k \in Keys, Hit(cache, k, now)
  PROVE  /\ k \in DOMAIN cache.items
         /\ cache.slots[cache.items[k]].value \in Values
         /\ now <= cache.slots[cache.items[k]].expiresAt
<1>1. k \in DOMAIN cache.items /\ cache.slots[cache.items[k]].used
      /\ now <= cache.slots[cache.items[k]].expiresAt
  BY DEF Hit
<1>2. cache.slots[cache.items[k]] \in SlotTypes(Keys, Values)
  BY <1>1 DEF Inv, WellFormed, WellTyped
<1>3. cache.slots[cache.items[k]] # EmptySlot
  BY <1>1 DEF EmptySlot
<1>4. cache.slots[cache.items[k]]
        \in [used : {TRUE}, key : Keys, value : Values, expiresAt : Nat]
  BY <1>2, <1>3 DEF SlotTypes
<1> QED
  BY <1>1, <1>4

LEMMA HitInv ==
  ASSUME Inv, NEW k \in Keys, GetOrPutHit(k)
  PROVE  Inv'
<1>1. cache.slots[cache.items[k]].value \in Values
  BY HitValue DEF GetOrPutHit
<1> QED
  BY <1>1 DEF Inv, GetOrPutHit

\* What a missing call leaves behind, from GetOrPutStores.
LEMMA MissStores ==
  ASSUME Inv, NEW k \in Keys, NEW v \in Values, NEW later \in Nat,
         GetOrPutMiss(k, v, later)
  PROVE  \E kept \in SUBSET (DOMAIN cache.items \ {k}) :
           /\ Stores(Keys, Values, cache, cache', kept, k, v, later + TTL)
           /\ \/ /\ kept = DOMAIN cache.items \ {k} /\ reply'.evicted = 0
                 /\ (k \in DOMAIN cache.items \/ cache.len < MaxEntries)
              \/ /\ \E w \in DOMAIN cache.items \ {k} :
                      kept = DOMAIN cache.items \ {k, w}
                 /\ reply'.evicted = 1 /\ cache.len = MaxEntries
                 /\ k \notin DOMAIN cache.items
<1> DEFINE put == GetOrPut(cache, k, v, now, later)
<1>1. /\ WellFormed(Keys, Values, cache) /\ cache.maxEntries = MaxEntries /\ cache.ttl = TTL
      /\ ~Hit(cache, k, now)
      /\ cache' = put.cache /\ reply'.evicted = put.evicted
  BY DEF Inv, GetOrPutMiss
<1> HIDE DEF put
<1>2. \E kept \in SUBSET (DOMAIN cache.items \ {k}) :
        /\ Stores(Keys, Values, cache, put.cache, kept, k, v, later + cache.ttl)
        /\ \/ /\ kept = DOMAIN cache.items \ {k} /\ put.evicted = 0
              /\ (k \in DOMAIN cache.items \/ cache.len < cache.maxEntries)
           \/ /\ \E w \in DOMAIN cache.items \ {k} :
                   kept = DOMAIN cache.items \ {k, w}
              /\ put.evicted = 1 /\ cache.len = cache.maxEntries
              /\ k \notin DOMAIN cache.items
  BY <1>1, GetOrPutStores DEF put
<1> QED
  BY <1>1, <1>2

LEMMA MissInv ==
  ASSUME Inv, NEW k \in Keys, NEW v \in Values, NEW later \in Nat,
         GetOrPutMiss(k, v, later)
  PROVE  Inv'
<1>1. WellFormed(Keys, Values, cache') /\ cache'.maxEntries = cache.maxEntries /\ cache'.ttl = cache.ttl /\ reply'.evicted \in {0, 1}
  BY MissStores DEF Stores
<1>2. reply' \in [key : Keys \cup {NoValue}, hit : BOOLEAN,
                  value : Values \cup {NoValue}, evicted : {0, 1}]
  <2> DEFINE e == GetOrPut(cache, k, v, now, later).evicted
  <2>1. reply' = [key |-> k, hit |-> FALSE, value |-> NoValue, evicted |-> e]
    BY DEF GetOrPutMiss
  <2> HIDE DEF e
  <2>2. e \in {0, 1}
    BY <1>1, <2>1
  <2> QED
    BY <2>1, <2>2
<1>3. now' \in Nat /\ freed' \in BOOLEAN
  BY DEF GetOrPutMiss, Inv
<1>4. cache'.maxEntries = MaxEntries /\ cache'.ttl = TTL
  BY <1>1 DEF Inv
<1> QED
  BY <1>1, <1>2, <1>3, <1>4 DEF Inv

\* Every step keeps the invariant.
LEMMA NextInv == Inv /\ [Next]_vars => Inv'
<1> SUFFICES ASSUME Inv, [Next]_vars PROVE Inv'
  OBVIOUS
<1>1. CASE \E k \in Keys : GetOrPutHit(k)
  BY <1>1, HitInv
<1>2. CASE \E k \in Keys, v \in Values, later \in 0..MaxTime : GetOrPutMiss(k, v, later)
  BY <1>2, MissInv, MaxTimeAssumption
<1>3. CASE Tick
  BY <1>3 DEF Inv, Tick
<1>4. CASE UNCHANGED vars
  BY <1>4 DEF Inv, vars
<1> QED
  BY <1>1, <1>2, <1>3, <1>4 DEF Next

\* The structure of a shard survives every call (circularCache.GetOrPut).
THEOREM AlwaysInv == Spec => []Inv
BY InitInv, NextInv, PTL DEF Spec

\* The cache keeps its types: the cursor and every stored index stay inside the
\* array of slots (circularCache.nextSlot, Put, removeSlot).
THEOREM TypeCorrect == Spec => []TypeOK
BY AlwaysInv, InvImplies, PTL

\* The map never leads to another key's slot, nor a used slot out of the map.
THEOREM IndexIsCoherent == Spec => []IndexCoherent
BY AlwaysInv, InvImplies, PTL

\* No slot leaks and none is handed out twice.
THEOREM FreeListIsExact == Spec => []FreeListExact
BY AlwaysInv, InvImplies, PTL

\* The counter Len reports is the number of entries.
THEOREM LenIsExact == Spec => []LenExact
BY AlwaysInv, InvImplies, PTL

\* Slots, map, free stack and counter are one structure, for any size, keys and TTL.
THEOREM SlotsAreCoherent == Spec => []SlotsCoherent
<1>1. Inv => SlotsCoherent
  BY InvImplies DEF SlotsCoherent
<1> QED
  BY <1>1, AlwaysInv, PTL

------------------------------------------------------------------------------

LEMMA MissEvicts ==
  ASSUME Inv, NEW k \in Keys, NEW v \in Values, NEW later \in Nat,
         GetOrPutMiss(k, v, later),
         NEW j \in DOMAIN cache.items, j \notin DOMAIN cache'.items
  PROVE  cache.len = MaxEntries /\ reply'.evicted = 1
BY MissStores DEF Stores

\* A call forgets another key only when every slot holds an entry, and says so.
THEOREM OnlyFullCachesEvict == Spec => EvictsOnlyWhenFull
<1> DEFINE Full == (\E k \in DOMAIN cache.items : k \notin DOMAIN cache'.items)
                     => cache.len = MaxEntries /\ reply'.evicted = 1
<1>1. Inv /\ [Next]_vars => [Full]_vars
  <2> SUFFICES ASSUME Inv, Next PROVE Full
    OBVIOUS
  <2>1. CASE \E k \in Keys : GetOrPutHit(k)
    BY <2>1 DEF GetOrPutHit
  <2>2. CASE \E k \in Keys, v \in Values, later \in 0..MaxTime : GetOrPutMiss(k, v, later)
    BY <2>2, MissEvicts, MaxTimeAssumption
  <2>3. CASE Tick
    BY <2>3 DEF Tick
  <2> QED
    BY <2>1, <2>2, <2>3 DEF Next
<1> QED
  BY <1>1, AlwaysInv, PTL DEF Spec, EvictsOnlyWhenFull

------------------------------------------------------------------------------
(* The order of expiry around the ring, as long as no slot was reused out   *)
(* of turn.                                                                 *)

LEMMA Remainder ==
  ASSUME NEW n \in Nat \ {0}, NEW a \in Nat, NEW b \in Nat, b < n, a = b \/ a = b + n
  PROVE  a % n = b
BY SMT

\* The turn of slot i of n when the cursor stands at e, and the cursor after e,
\* without the division.
LEMMA TurnFrom ==
  ASSUME NEW n \in Nat \ {0}, NEW i \in 0..(n - 1), NEW e \in 0..(n - 1)
  PROVE  /\ (i + n - e) % n = IF i >= e THEN i - e ELSE i + n - e
         /\ (e + 1) % n = IF e + 1 = n THEN 0 ELSE e + 1
<1>1. CASE i >= e
  BY <1>1, Remainder
<1>2. CASE i < e
  BY <1>2, Remainder
<1>3. (e + 1) % n = IF e + 1 = n THEN 0 ELSE e + 1
  BY Remainder
<1> QED
  BY <1>1, <1>2, <1>3

\* Until a slot is given back the free stack is empty, so slots are handed out in
\* ascending order and then overwritten in the same order: the turns of the slots are
\* the order of their writing, and nothing written before now expires after now + TTL.
RingInv ==
  ~freed =>
    /\ cache.free = << >>
    /\ cache.usedSlots < MaxEntries => cache.nextEvict = 0
    /\ \A i \in Slots : cache.slots[i].used => cache.slots[i].expiresAt <= now + TTL
    /\ EvictsSoonestToExpire

LEMMA InitRing == Init => RingInv
<1> SUFFICES ASSUME Init PROVE RingInv
  OBVIOUS
<1>1. cache.free = << >> /\ cache.nextEvict = 0 /\ \A i \in Slots : ~cache.slots[i].used
  BY MaxEntriesAssumption DEF Init, newCircularCache, EmptySlot, Slots
<1> QED
  BY <1>1 DEF RingInv, EvictsSoonestToExpire

\* An entry is written into a fresh slot, or into the one at the cursor, which moves on.
WritesFresh(idx) ==
  /\ cache.usedSlots < MaxEntries /\ idx = cache.usedSlots
  /\ cache'.usedSlots = cache.usedSlots + 1
  /\ cache'.nextEvict = cache.nextEvict

WritesNext(idx) ==
  /\ cache.usedSlots = MaxEntries /\ idx = cache.nextEvict
  /\ cache'.usedSlots = cache.usedSlots
  /\ cache'.nextEvict = (cache.nextEvict + 1) % MaxEntries

\* A miss that gives no slot back writes one of the two.
LEMMA MissWrites ==
  ASSUME Inv, RingInv, NEW k \in Keys, NEW v \in Values, NEW later \in Nat,
         GetOrPutMiss(k, v, later), ~freed'
  PROVE  /\ cache'.free = << >> /\ ~freed
         /\ \E idx \in Slots :
              /\ cache'.slots = [cache.slots EXCEPT ![idx] = UsedSlot(k, v, later + TTL)]
              /\ WritesFresh(idx) \/ WritesNext(idx)
<1>1. ~freed /\ k \notin DOMAIN cache.items /\ cache.free = << >>
  BY DEF GetOrPutMiss, RingInv, Inv
<1>2. cache' = Put(cache, k, v, later).cache
  BY <1>1 DEF GetOrPutMiss, GetOrPut, Get
<1>3. cache' = Occupy(NextSlot(cache).cache, NextSlot(cache).idx, k, v, later + TTL)
  <2>1. cache.ttl = TTL
    BY DEF Inv
  <2>2. Put(cache, k, v, later).cache
          = Occupy(NextSlot(cache).cache, NextSlot(cache).idx, k, v, later + cache.ttl)
    BY <1>1 DEF Put
  <2> QED
    BY <1>2, <2>1, <2>2
<1>4. /\ cache = [ maxEntries |-> cache.maxEntries, ttl |-> cache.ttl, items |-> cache.items,
                   slots |-> cache.slots, free |-> cache.free,
                   usedSlots |-> cache.usedSlots, nextEvict |-> cache.nextEvict,
                   len |-> cache.len ]
      /\ cache.maxEntries = MaxEntries /\ MaxEntries \in Nat \ {0}
      /\ cache.usedSlots \in 0..MaxEntries /\ cache.nextEvict \in Slots
      /\ cache.slots \in [Slots -> SlotTypes(Keys, Values)]
  BY MaxEntriesAssumption DEF Inv, WellFormed, WellTyped, Slots, SlotsOf
<1>5. CASE cache.usedSlots < MaxEntries
  <2>1. NextSlot(cache) = TakeFresh(cache)
    BY <1>1, <1>4, <1>5 DEF NextSlot
  <2>2. cache.usedSlots \in Slots
    BY <1>4, <1>5 DEF Slots
  <2>3. cache'.free = << >> /\ WritesFresh(cache.usedSlots)
        /\ cache'.slots = [cache.slots EXCEPT ![cache.usedSlots] = UsedSlot(k, v, later + TTL)]
    BY <1>1, <1>3, <1>4, <1>5, <2>1 DEF TakeFresh, Occupy, WritesFresh
  <2> QED
    BY <1>1, <2>2, <2>3
<1>6. CASE cache.usedSlots = MaxEntries
  <2>1. NextSlot(cache) = EvictNext(cache)
    BY <1>1, <1>4, <1>6 DEF NextSlot
  <2>2. cache'.free = << >> /\ WritesNext(cache.nextEvict)
        /\ cache'.slots = [cache.slots EXCEPT ![cache.nextEvict] = UsedSlot(k, v, later + TTL)]
    BY <1>1, <1>3, <1>4, <1>6, <2>1 DEF EvictNext, TurnRing, Occupy, WritesNext
  <2> QED
    BY <1>1, <1>4, <2>2
<1>7. cache.usedSlots < MaxEntries \/ cache.usedSlots = MaxEntries
  BY <1>4
<1> QED
  BY <1>5, <1>6, <1>7

\* The slot written comes last, and the others keep their order.
LEMMA TurnsKeepOrder ==
  ASSUME Inv, Inv', RingInv, ~freed,
         NEW idx \in Slots, WritesFresh(idx) \/ WritesNext(idx),
         NEW i \in Slots, NEW j \in Slots, Turns(i)' < Turns(j)',
         i < cache'.usedSlots, j < cache'.usedSlots
  PROVE  /\ i # idx
         /\ j # idx => Turns(i) < Turns(j) /\ i < cache.usedSlots /\ j < cache.usedSlots
<1> DEFINE e == cache.nextEvict
           f == cache'.nextEvict
<1>1. /\ MaxEntries \in Nat \ {0} /\ cache.usedSlots \in Nat
      /\ i \in 0..(MaxEntries - 1) /\ j \in 0..(MaxEntries - 1) /\ idx \in 0..(MaxEntries - 1)
      /\ e \in 0..(MaxEntries - 1) /\ f \in 0..(MaxEntries - 1)
      /\ cache.usedSlots < MaxEntries => e = 0
  BY MaxEntriesAssumption DEF Inv, WellFormed, WellTyped, SlotsOf, Slots, RingInv
<1>2. /\ Turns(i) = (i + MaxEntries - e) % MaxEntries
      /\ Turns(j) = (j + MaxEntries - e) % MaxEntries
      /\ Turns(i)' = (i + MaxEntries - f) % MaxEntries
      /\ Turns(j)' = (j + MaxEntries - f) % MaxEntries
  BY DEF Turns
<1>3. CASE WritesFresh(idx)
  <2>1. /\ f = e /\ e = 0 /\ idx = cache.usedSlots /\ cache'.usedSlots = cache.usedSlots + 1
    BY <1>1, <1>3 DEF WritesFresh
  <2> HIDE DEF e, f
  <2>2. (i + MaxEntries - 0) % MaxEntries = i /\ (j + MaxEntries - 0) % MaxEntries = j
    <3>1. 0 \in 0..(MaxEntries - 1)
      BY <1>1
    <3>2. \A s \in 0..(MaxEntries - 1) :
            (s + MaxEntries - 0) % MaxEntries = IF s >= 0 THEN s - 0 ELSE s + MaxEntries - 0
      BY ONLY <1>1, <3>1, TurnFrom
    <3> QED
      BY <1>1, <3>2
  <2>3. Turns(i) = i /\ Turns(j) = j /\ Turns(i)' = i /\ Turns(j)' = j
    BY <1>2, <2>1, <2>2
  <2> QED
    BY <1>1, <2>1, <2>3
<1>4. CASE WritesNext(idx)
  <2>1. /\ f = (e + 1) % MaxEntries /\ idx = e
        /\ cache.usedSlots = MaxEntries
    BY <1>4 DEF WritesNext
  <2> HIDE DEF e, f
  <2>2. f = IF e + 1 = MaxEntries THEN 0 ELSE e + 1
    BY <1>1, <2>1, TurnFrom
  <2>3. /\ Turns(i) = IF i >= e THEN i - e ELSE i + MaxEntries - e
        /\ Turns(j) = IF j >= e THEN j - e ELSE j + MaxEntries - e
        /\ Turns(i)' = IF i >= f THEN i - f ELSE i + MaxEntries - f
        /\ Turns(j)' = IF j >= f THEN j - f ELSE j + MaxEntries - f
    BY <1>1, <1>2, TurnFrom
  <2> QED
    BY <1>1, <2>1, <2>2, <2>3
<1> QED
  BY <1>3, <1>4

LEMMA MissRing ==
  ASSUME Inv, RingInv, NEW k \in Keys, NEW v \in Values, NEW later \in Nat,
         GetOrPutMiss(k, v, later), ~freed'
  PROVE  RingInv'
<1>1. Inv'
  BY MissInv
<1>2. /\ TTL \in Nat /\ now \in Nat /\ now' = later /\ now <= later
      /\ cache.slots \in [Slots -> SlotTypes(Keys, Values)]
      /\ \A i \in Slots : i \in Nat /\ i \in SlotsOf(cache')
  BY <1>1, MaxEntriesAssumption, TTLAssumption
     DEF GetOrPutMiss, Inv, WellFormed, WellTyped, SlotsOf, Slots
<1>3. ~freed /\ cache'.free = << >>
  BY MissWrites
<1>4. PICK idx \in Slots :
        /\ cache'.slots = [cache.slots EXCEPT ![idx] = UsedSlot(k, v, later + TTL)]
        /\ WritesFresh(idx) \/ WritesNext(idx)
  BY MissWrites
<1>5. /\ cache'.slots[idx].used /\ cache'.slots[idx].expiresAt = later + TTL
      /\ \A i \in Slots \ {idx} : cache'.slots[i] = cache.slots[i]
  BY <1>2, <1>4 DEF UsedSlot
<1>6. ASSUME NEW i \in Slots, cache.slots[i].used
      PROVE  cache.slots[i].expiresAt \in Nat /\ cache.slots[i].expiresAt <= now + TTL
  <2>1. cache.slots[i] \in SlotTypes(Keys, Values) /\ cache.slots[i] # EmptySlot
    BY <1>2, <1>6 DEF EmptySlot
  <2>2. cache.slots[i] \in [used : {TRUE}, key : Keys, value : Values, expiresAt : Nat]
    BY <2>1 DEF SlotTypes
  <2> QED
    BY <1>3, <1>6, <2>2 DEF RingInv
<1>7. ASSUME NEW i \in Slots, cache'.slots[i].used
      PROVE  cache'.slots[i].expiresAt <= now' + TTL
  <2>1. CASE i = idx
    BY <1>2, <1>5, <2>1
  <2>2. CASE i # idx
    <3>1. cache.slots[i].expiresAt \in Nat /\ cache.slots[i].expiresAt <= now + TTL
      BY <1>5, <1>6, <1>7, <2>2
    <3> QED
      BY <1>2, <1>5, <2>2, <3>1
  <2> QED
    BY <2>1, <2>2
<1>8. cache'.usedSlots < MaxEntries => cache'.nextEvict = 0
  <2>1. cache.usedSlots \in Nat /\ MaxEntries \in Nat
    BY MaxEntriesAssumption DEF Inv, WellFormed, WellTyped
  <2>2. cache.usedSlots < MaxEntries => cache.nextEvict = 0
    BY <1>3 DEF RingInv
  <2> QED
    BY <1>4, <2>1, <2>2 DEF WritesFresh, WritesNext
<1>9. ASSUME NEW i \in Slots, cache'.slots[i].used PROVE i < cache'.usedSlots
  <2>1. cache'.usedSlots \in Nat
    BY <1>1 DEF Inv, WellFormed, WellTyped
  <2> QED
    BY <1>1, <1>2, <1>9, <2>1 DEF Inv, WellFormed, FreeMatchesSlots
<1>10. ASSUME NEW i \in Slots, NEW j \in Slots,
              cache'.slots[i].used, cache'.slots[j].used, Turns(i)' < Turns(j)'
       PROVE  cache'.slots[i].expiresAt <= cache'.slots[j].expiresAt
  <2>1. i # idx /\ (j # idx => Turns(i) < Turns(j))
    BY <1>1, <1>3, <1>4, <1>9, <1>10, TurnsKeepOrder
  <2>2. /\ cache'.slots[i] = cache.slots[i] /\ cache.slots[i].used
        /\ cache.slots[i].expiresAt \in Nat /\ cache.slots[i].expiresAt <= now + TTL
    BY <1>5, <1>6, <1>10, <2>1
  <2>3. CASE j = idx
    BY <1>2, <1>5, <2>2, <2>3
  <2>4. CASE j # idx
    <3>1. cache'.slots[j] = cache.slots[j] /\ cache.slots[j].used
      BY <1>5, <1>10, <2>4
    <3>2. cache.slots[i].expiresAt <= cache.slots[j].expiresAt
      BY <1>3, <2>1, <2>2, <2>4, <3>1 DEF RingInv, EvictsSoonestToExpire
    <3> QED
      BY <2>2, <3>1, <3>2
  <2> QED
    BY <2>3, <2>4
<1>11. EvictsSoonestToExpire'
  BY <1>10 DEF EvictsSoonestToExpire
<1> QED
  BY <1>3, <1>7, <1>8, <1>11 DEF RingInv

LEMMA NextRing == Inv /\ RingInv /\ [Next]_vars => RingInv'
<1> SUFFICES ASSUME Inv, RingInv, [Next]_vars PROVE RingInv'
  OBVIOUS
<1>1. ASSUME UNCHANGED << cache, freed >>, now' \in Nat, now <= now' PROVE RingInv'
  <2>1. EvictsSoonestToExpire' <=> EvictsSoonestToExpire
    BY <1>1 DEF EvictsSoonestToExpire, Turns
  <2>2. ASSUME ~freed, NEW i \in Slots, cache.slots[i].used
        PROVE  cache.slots[i].expiresAt <= now' + TTL
    <3>1. cache.slots[i] \in SlotTypes(Keys, Values) /\ cache.slots[i] # EmptySlot
      BY <2>2 DEF EmptySlot, Inv, WellFormed, WellTyped, SlotsOf, Slots
    <3>2. cache.slots[i] \in [used : {TRUE}, key : Keys, value : Values, expiresAt : Nat]
      BY <3>1 DEF SlotTypes
    <3>3. cache.slots[i].expiresAt \in Nat /\ cache.slots[i].expiresAt <= now + TTL
      BY <2>2, <3>2 DEF RingInv
    <3> QED
      BY <1>1, <3>3, TTLAssumption DEF Inv
  <2> QED
    BY <1>1, <2>1, <2>2 DEF RingInv
<1>2. CASE \E k \in Keys : GetOrPutHit(k)
  BY <1>1, <1>2 DEF GetOrPutHit, Inv
<1>3. CASE \E k \in Keys, v \in Values, later \in 0..MaxTime : GetOrPutMiss(k, v, later)
  <2>1. CASE freed'
    BY <2>1 DEF RingInv
  <2>2. CASE ~freed'
    BY <1>3, <2>2, MissRing, MaxTimeAssumption
  <2> QED
    BY <2>1, <2>2
<1>4. CASE Tick
  BY <1>1, <1>4 DEF Tick, Inv
<1>5. CASE UNCHANGED vars
  BY <1>1, <1>5 DEF vars, Inv
<1> QED
  BY <1>2, <1>3, <1>4, <1>5 DEF Next

\* Until a slot is reused out of turn, the entry the ring overwrites next is the one with
\* the least time left, for any size, keys and TTL, wherever the clock jumps.
THEOREM SoonestToExpireGoesFirst == Spec => []EvictsSoonestToExpire
<1>1. Inv /\ RingInv => EvictsSoonestToExpire
  BY DEF RingInv, EvictsSoonestToExpire
<1> QED
  BY <1>1, InitInv, NextInv, InitRing, NextRing, PTL DEF Spec

------------------------------------------------------------------------------
(* The shard implements the bounded map.                                    *)

LEMMA StoreDomain ==
  /\ DOMAIN AbstractStore = DOMAIN cache.items
  /\ \A j \in DOMAIN cache.items :
       /\ AbstractStore[j].value = cache.slots[cache.items[j]].value
       /\ AbstractStore[j].expiresAt = cache.slots[cache.items[j]].expiresAt
       /\ AbstractStore[j] = [ value |-> cache.slots[cache.items[j]].value,
                               expiresAt |-> cache.slots[cache.items[j]].expiresAt ]
BY DEF AbstractStore

\* Being found by Get is being alive in the map.
LEMMA HitIsAlive ==
  ASSUME Inv, NEW k \in Keys
  PROVE  Hit(cache, k, now) <=> Abstract!Alive(k)
<1>1. k \in DOMAIN cache.items => cache.slots[cache.items[k]].used
  BY DEF Inv, WellFormed, MapMatchesSlots
<1> QED
  BY <1>1, StoreDomain DEF Hit, Abstract!Alive

LEMMA InitRefines == Init => Abstract!Init
<1> SUFFICES ASSUME Init PROVE Abstract!Init
  OBVIOUS
<1>1. cache.items = [k \in {} |-> 0]
  BY NewWellFormed, MaxEntriesAssumption, TTLAssumption DEF Init
<1>2. AbstractStore = [k \in {} |-> NoValue]
  BY <1>1 DEF AbstractStore
<1> QED
  BY <1>2 DEF Init, Abstract!Init

LEMMA HitRefines ==
  ASSUME Inv, NEW k \in Keys, GetOrPutHit(k)
  PROVE  Abstract!Remembered(k)
<1>1. Abstract!Alive(k) /\ k \in DOMAIN cache.items
  BY HitIsAlive, HitValue DEF GetOrPutHit
<1>2. AbstractStore[k].value = cache.slots[cache.items[k]].value
  BY <1>1, StoreDomain
<1>3. AbstractStore' = AbstractStore
  BY DEF GetOrPutHit, AbstractStore
<1> QED
  BY <1>1, <1>2, <1>3 DEF GetOrPutHit, Abstract!Remembered

\* The cardinality of the instance is the cardinality.
LEMMA SameCardinality == \A S : Abstract!Cardinality(S) = Cardinality(S)
BY DEF Cardinality, Abstract!Cardinality

LEMMA MissRefines ==
  ASSUME Inv, NEW k \in Keys, NEW v \in Values, NEW later \in Nat,
         GetOrPutMiss(k, v, later)
  PROVE  Abstract!Stored(k, v)
<1>1. /\ ~Abstract!Alive(k) /\ now' \in Nat /\ now' >= now /\ now' = later
      /\ reply' = [key |-> k, hit |-> FALSE, value |-> NoValue,
                   evicted |-> reply'.evicted]
  BY HitIsAlive DEF GetOrPutMiss
<1>2. PICK kept \in SUBSET (DOMAIN cache.items \ {k}) :
        /\ Stores(Keys, Values, cache, cache', kept, k, v, later + TTL)
        /\ \/ /\ kept = DOMAIN cache.items \ {k} /\ reply'.evicted = 0
              /\ (k \in DOMAIN cache.items \/ cache.len < MaxEntries)
           \/ /\ \E w \in DOMAIN cache.items \ {k} :
                   kept = DOMAIN cache.items \ {k, w}
              /\ reply'.evicted = 1 /\ cache.len = MaxEntries
              /\ k \notin DOMAIN cache.items
  BY MissStores
<1>3. /\ IsFiniteSet(DOMAIN cache.items) /\ cache.len = Cardinality(DOMAIN cache.items)
      /\ cache.len \in 0..MaxEntries /\ MaxEntries \in Nat
  BY MaxEntriesAssumption DEF Inv, WellFormed, WellTyped, LenMatchesItems
<1>4. Cardinality(DOMAIN cache.items \ {k})
        = IF k \in DOMAIN cache.items THEN cache.len - 1 ELSE cache.len
  BY <1>3, FS_RemoveElement
<1>5. ASSUME NEW lost \in SUBSET (DOMAIN cache.items \ {k}),
             kept = (DOMAIN cache.items \ {k}) \ lost
      PROVE  AbstractStore' = [j \in (DOMAIN AbstractStore \ lost) \cup {k} |->
                                 IF j = k THEN [value |-> v, expiresAt |-> now' + TTL]
                                          ELSE AbstractStore[j]]
  <2> DEFINE D == (DOMAIN AbstractStore \ lost) \cup {k}
             e(j) == IF j = k THEN [value |-> v, expiresAt |-> now' + TTL]
                              ELSE AbstractStore[j]
             f(j) == [ value |-> cache'.slots[cache'.items[j]].value,
                       expiresAt |-> cache'.slots[cache'.items[j]].expiresAt ]
  <2>1. DOMAIN cache'.items = D
    BY <1>2, <1>5, StoreDomain DEF Stores
  <2>2. f(k) = e(k)
    BY <1>1, <1>2 DEF Stores, UsedSlot
  <2>3. ASSUME NEW j \in D, j # k PROVE f(j) = e(j)
    <3>1. j \in kept /\ j \in DOMAIN cache.items
      BY <1>5, <2>3, StoreDomain
    <3>2. cache'.slots[cache'.items[j]] = cache.slots[cache.items[j]]
      BY <1>2, <3>1 DEF Stores
    <3> QED
      BY <2>3, <3>1, <3>2, StoreDomain
  <2>4. AbstractStore' = [j \in D |-> f(j)]
    BY <2>1 DEF AbstractStore
  <2>5. \A j \in D : f(j) = e(j)
    BY <2>2, <2>3
  <2> HIDE DEF D, e, f
  <2>6. AbstractStore' = [j \in D |-> e(j)]
    BY <2>4, <2>5
  <2> QED
    BY <2>6 DEF D, e
<1>6. CASE /\ kept = DOMAIN cache.items \ {k} /\ reply'.evicted = 0
           /\ (k \in DOMAIN cache.items \/ cache.len < MaxEntries)
  <2>1. Cardinality(DOMAIN AbstractStore \ {k}) < MaxEntries
    BY <1>3, <1>4, <1>6, StoreDomain
  <2>2. {} \in Abstract!Victims(k)
    BY <2>1, SameCardinality DEF Abstract!Victims
  <2>3. Cardinality({}) = 0
    BY FS_EmptySet
  <2> QED
    BY <1>1, <1>5, <1>6, <2>2, <2>3, SameCardinality DEF Abstract!Stored
<1>7. CASE /\ \E w \in DOMAIN cache.items \ {k} : kept = DOMAIN cache.items \ {k, w}
           /\ reply'.evicted = 1 /\ cache.len = MaxEntries
           /\ k \notin DOMAIN cache.items
  <2>1. PICK w \in DOMAIN cache.items \ {k} : kept = DOMAIN cache.items \ {k, w}
    BY <1>7
  <2>2. ~(Cardinality(DOMAIN AbstractStore \ {k}) < MaxEntries)
    BY <1>3, <1>4, <1>7, StoreDomain
  <2>3. {w} \in Abstract!Victims(k)
    BY <2>2, StoreDomain, SameCardinality DEF Abstract!Victims
  <2>4. Cardinality({w}) = 1
    BY FS_Singleton
  <2>5. kept = (DOMAIN cache.items \ {k}) \ {w}
    BY <2>1
  <2> QED
    BY <1>1, <1>5, <1>7, <2>3, <2>4, <2>5, SameCardinality DEF Abstract!Stored
<1> QED
  BY <1>2, <1>6, <1>7

\* The detailed cache implements the bounded map: every call finds, remembers
\* and forgets what the map of BoundedMap does.
THEOREM Refines == Spec => ImplementsBoundedMap
<1>1. Inv /\ [Next]_vars => [Abstract!Next]_(Abstract!vars)
  <2> SUFFICES ASSUME Inv, [Next]_vars PROVE [Abstract!Next]_(Abstract!vars)
    OBVIOUS
  <2>1. CASE \E k \in Keys : GetOrPutHit(k)
    BY <2>1, HitRefines DEF Abstract!Next
  <2>2. CASE \E k \in Keys, v \in Values, later \in 0..MaxTime : GetOrPutMiss(k, v, later)
    BY <2>2, MissRefines, MaxTimeAssumption DEF Abstract!Next
  <2>3. CASE Tick
    BY <2>3 DEF Inv, Tick, Abstract!Next, Abstract!Tick, AbstractStore
  <2>4. CASE UNCHANGED vars
    BY <2>4 DEF vars, Abstract!vars, AbstractStore
  <2> QED
    BY <2>1, <2>2, <2>3, <2>4 DEF Next
<1> QED
  BY <1>1, InitRefines, AlwaysInv, PTL DEF Spec, Abstract!Spec, ImplementsBoundedMap

------------------------------------------------------------------------------
(* The gauges of a cache of shards: CacheMetrics.                           *)

Count == ShardCount(CacheSize, DefaultShards)

Lens(c) == [idx \in DOMAIN c |-> c[idx].len]

\* The sizes of the shards Len has added up when it is at shard n, and of the others.
LenCounted(c, n) == SumFunctionOnSet(Lens(c), 0..(n - 1))
LenToCount(c, n) == SumFunctionOnSet(Lens(c), n..(Count - 1))

\* A cache that newStateCache made and GetOrPut changed.
OwnCache(c) ==
  /\ Sharded(SampleKeys, SampleValues, CacheTTL, Hash, c)
  /\ DOMAIN c = Shards
  /\ \A idx \in Shards : c[idx].maxEntries = ShardSize(CacheSize, Count, idx)

\* No shard has shrunk.
GrownTo(c, r) == \A idx \in Shards : c[idx].len <= r[idx].len

LEMMA CountType == Count \in Nat \ {0} /\ Shards = 0..(Count - 1) /\ Count <= CacheSize /\ CacheSize \in Nat
BY CacheSizeAssumption DEF Count, Shards, ShardCount

LEMMA NewOwnCache ==
  ASSUME NEW c, c = newStateCache(CacheSize, CacheTTL, DefaultShards)
  PROVE  OwnCache(c) /\ TotalLen(c) = 0
<1>1. /\ CacheTTL \in Nat /\ CacheSize \in Nat \ {0} /\ DefaultShards \in Nat \ {0}
  BY CacheSizeAssumption
<1>2. /\ Sharded(SampleKeys, SampleValues, CacheTTL, Hash, c)
      /\ DOMAIN c = Shards
  BY <1>1, NewSharded DEF Shards
<1>3. ASSUME NEW idx \in Shards
      PROVE  c[idx].maxEntries = ShardSize(CacheSize, Count, idx)
  <2>1. c[idx] = newCircularCache(ShardSize(CacheSize, Count, idx), CacheTTL)
    BY DEF newStateCache, Shards, Count
  <2> QED
    BY <2>1 DEF newCircularCache
<1>4. TotalLen(c) = 0
  BY <1>1, NewTotalLen
<1> QED
  BY <1>2, <1>3, <1>4 DEF OwnCache

\* The sizes are numbers, and the whole is what has been counted and what has not.
LEMMA LensType ==
  ASSUME NEW c, OwnCache(c)
  PROVE  /\ \A idx \in Shards : c[idx].len \in Nat /\ Lens(c)[idx] = c[idx].len
         /\ IsFiniteSet(Shards)
         /\ TotalLen(c) = SumFunctionOnSet(Lens(c), Shards)
         /\ TotalLen(c) \in Nat
<1>1. /\ \A idx \in Shards : c[idx].len \in Nat
      /\ IsFiniteSet(Shards) /\ DOMAIN c = Shards
  BY TotalLenType DEF OwnCache
<1>2. \A idx \in Shards : Lens(c)[idx] = c[idx].len
  BY <1>1 DEF Lens
<1>3. TotalLen(c) = SumFunctionOnSet(Lens(c), Shards)
  BY <1>1, SumOfWhole DEF TotalLen, Lens
<1>4. SumFunctionOnSet(Lens(c), Shards) \in Nat
  <2>1. \A idx \in Shards : Lens(c)[idx] \in Nat
    BY <1>1, <1>2
  <2> QED
    BY <1>1, <2>1, SumOfSubset
<1> QED
  BY <1>1, <1>2, <1>3, <1>4

\* The shards together hold no more than the cache was made for.
LEMMA WithinCacheSize ==
  ASSUME NEW c, OwnCache(c)
  PROVE  TotalLen(c) <= CacheSize
<1> DEFINE g == [idx \in 0..(Count - 1) |-> ShardSize(CacheSize, Count, idx)]
<1>1. Count \in Nat \ {0} /\ Shards = 0..(Count - 1) /\ CacheSize \in Nat
  BY CountType
<1>2. SumFunction(g) = CacheSize
  BY <1>1, ShardsAddUp
<1>3. SumFunction(g) = SumFunctionOnSet(g, Shards)
  BY <1>1, SumOfWhole
<1>4. \A idx \in Shards : Lens(c)[idx] \in Int /\ g[idx] \in Int /\ Lens(c)[idx] <= g[idx]
  <2> TAKE idx \in Shards
  <2>1. g[idx] = c[idx].maxEntries
    BY <1>1 DEF OwnCache
  <2>2. c[idx].maxEntries \in Nat /\ c[idx].len \in 0..c[idx].maxEntries
    BY DEF OwnCache, Sharded, ShardsWellFormed, WellFormed, WellTyped
  <2>3. Lens(c)[idx] = c[idx].len
    BY LensType
  <2> HIDE DEF g
  <2> QED
    BY <2>1, <2>2, <2>3
<1> HIDE DEF g
<1>5. SumFunctionOnSet(Lens(c), Shards) <= SumFunctionOnSet(g, Shards)
  BY <1>4, LensType, SumOfMonotone
<1> QED
  BY <1>2, <1>3, <1>5, LensType

\* Counting one shard more.
LEMMA LenAdvances ==
  ASSUME NEW c, OwnCache(c), NEW n \in Shards
  PROVE  /\ LenCounted(c, n + 1) = LenCounted(c, n) + c[n].len
         /\ LenToCount(c, n) = c[n].len + LenToCount(c, n + 1)
         /\ LenCounted(c, n) \in Nat /\ LenToCount(c, n + 1) \in Nat
         /\ c[n].len \in Nat
<1> DEFINE f == Lens(c)
           S == 0..(n - 1)
           R == (n + 1)..(Count - 1)
<1>1. n \in Nat /\ Count \in Nat /\ n < Count /\ Shards = 0..(Count - 1)
  BY CountType
<1>2. /\ 0..(n + 1 - 1) = S \cup {n} /\ n \notin S /\ S \cup {n} \subseteq Shards
      /\ n..(Count - 1) = R \cup {n} /\ n \notin R /\ R \cup {n} \subseteq Shards
  BY <1>1
<1>3. (\A idx \in Shards : f[idx] \in Nat) /\ f[n] = c[n].len /\ IsFiniteSet(Shards)
  BY LensType
<1>4. IsFiniteSet(S) /\ IsFiniteSet(R)
  BY <1>2, <1>3, FS_Subset
<1>5. SumFunctionOnSet(f, S) \in Nat /\ SumFunctionOnSet(f, R) \in Nat
  <2>1. S \subseteq Shards /\ R \subseteq Shards
    BY <1>2
  <2> HIDE DEF f, S, R
  <2>2. SumFunctionOnSet(f, S) \in Nat
    BY <1>3, <2>1, SumOfSubset
  <2>3. SumFunctionOnSet(f, R) \in Nat
    BY <1>3, <2>1, SumOfSubset
  <2> QED
    BY <2>2, <2>3
<1>6. LenCounted(c, n) = SumFunctionOnSet(f, S) /\ LenToCount(c, n + 1) = SumFunctionOnSet(f, R)
  BY DEF LenCounted, LenToCount
<1>7. LenCounted(c, n + 1) = SumFunctionOnSet(f, S \cup {n})
  <2>1. PICK m : m = n + 1
    OBVIOUS
  <2>2. LenCounted(c, m) = SumFunctionOnSet(f, 0..(m - 1))
    BY DEF LenCounted
  <2>3. 0..(m - 1) = S \cup {n}
    BY <1>1, <2>1
  <2> HIDE DEF f, S
  <2> QED
    BY <2>1, <2>2, <2>3
<1>8. LenToCount(c, n) = SumFunctionOnSet(f, R \cup {n})
  BY <1>2 DEF LenToCount
<1> HIDE DEF f, S, R
<1>9. SumFunctionOnSet(f, S \cup {n}) = f[n] + SumFunctionOnSet(f, S)
  BY <1>2, <1>3, <1>4, SumOfAdd
<1>10. SumFunctionOnSet(f, R \cup {n}) = f[n] + SumFunctionOnSet(f, R)
  <2>1. \A y \in R \cup {n} : f[y] \in Int
    BY <1>2, <1>3
  <2> QED
    BY <1>2, <1>4, <2>1, SumOfAdd
<1> QED
  BY <1>3, <1>5, <1>6, <1>7, <1>8, <1>9, <1>10

\* Where counting begins and ends.
LEMMA LenEnds ==
  ASSUME NEW c, OwnCache(c)
  PROVE  /\ LenCounted(c, 0) = 0 /\ LenToCount(c, 0) = TotalLen(c)
         /\ LenCounted(c, Count) = TotalLen(c) /\ LenToCount(c, Count) = 0
<1>1. 0..(0 - 1) = {} /\ 0..(Count - 1) = Shards /\ Count..(Count - 1) = {}
  BY CountType
<1>2. SumFunctionOnSet(Lens(c), {}) = 0
  BY SumOfEmpty
<1>3. TotalLen(c) = SumFunctionOnSet(Lens(c), Shards)
  BY LensType
<1> QED
  BY <1>1, <1>2, <1>3 DEF LenCounted, LenToCount

\* What is counted of part of the shards is within the whole, and larger if the shards have grown.
LEMMA LenGrows ==
  ASSUME NEW c, OwnCache(c), NEW r, OwnCache(r), GrownTo(c, r), NEW n \in 0..Count
  PROVE  /\ LenCounted(c, n) <= LenCounted(r, n) /\ LenToCount(c, n) <= LenToCount(r, n)
         /\ TotalLen(c) <= TotalLen(r)
         /\ LenCounted(c, n) <= TotalLen(c)
         /\ LenCounted(c, n) \in Nat /\ LenToCount(c, n) \in Nat
         /\ LenCounted(r, n) \in Nat /\ LenToCount(r, n) \in Nat
<1> DEFINE f == Lens(c)
           g == Lens(r)
<1>1. \A idx \in Shards : f[idx] \in Nat /\ g[idx] \in Nat /\ f[idx] <= g[idx]
  BY LensType DEF GrownTo
<1>2. IsFiniteSet(Shards) /\ TotalLen(c) = SumFunctionOnSet(f, Shards) /\ TotalLen(r) = SumFunctionOnSet(g, Shards)
  BY LensType
<1>3. 0..(n - 1) \subseteq Shards /\ n..(Count - 1) \subseteq Shards
  BY CountType
<1>4. /\ LenCounted(c, n) = SumFunctionOnSet(f, 0..(n - 1))
      /\ LenCounted(r, n) = SumFunctionOnSet(g, 0..(n - 1))
      /\ LenToCount(c, n) = SumFunctionOnSet(f, n..(Count - 1))
      /\ LenToCount(r, n) = SumFunctionOnSet(g, n..(Count - 1))
  BY DEF LenCounted, LenToCount
<1> HIDE DEF f, g
<1>5. ASSUME NEW S, S \subseteq Shards
      PROVE  /\ SumFunctionOnSet(f, S) <= SumFunctionOnSet(g, S)
             /\ SumFunctionOnSet(f, S) \in Nat /\ SumFunctionOnSet(g, S) \in Nat
             /\ SumFunctionOnSet(f, S) <= SumFunctionOnSet(f, Shards)
  <2>1. IsFiniteSet(S)
    BY <1>2, <1>5, FS_Subset
  <2>2. \A y \in S : f[y] \in Int /\ g[y] \in Int /\ f[y] <= g[y]
    BY <1>1, <1>5
  <2>3. SumFunctionOnSet(f, S) <= SumFunctionOnSet(g, S)
    BY ONLY <2>1, <2>2, SumOfMonotone
  <2>4. SumFunctionOnSet(f, S) \in Nat /\ SumFunctionOnSet(f, S) <= SumFunctionOnSet(f, Shards)
    BY <1>1, <1>2, <1>5, SumOfSubset
  <2>5. SumFunctionOnSet(g, S) \in Nat
    BY <1>1, <1>2, <1>5, SumOfSubset
  <2> QED
    BY <2>3, <2>4, <2>5
<1> DEFINE S == 0..(n - 1)
           R == n..(Count - 1)
<1>6. /\ SumFunctionOnSet(f, S) <= SumFunctionOnSet(g, S)
      /\ SumFunctionOnSet(f, S) \in Nat /\ SumFunctionOnSet(g, S) \in Nat
      /\ SumFunctionOnSet(f, S) <= SumFunctionOnSet(f, Shards)
  BY <1>3, <1>5
<1>7. /\ SumFunctionOnSet(f, R) <= SumFunctionOnSet(g, R)
      /\ SumFunctionOnSet(f, R) \in Nat /\ SumFunctionOnSet(g, R) \in Nat
  BY <1>3, <1>5
<1>8. SumFunctionOnSet(f, Shards) <= SumFunctionOnSet(g, Shards)
  BY <1>5
<1> QED
  BY <1>2, <1>4, <1>6, <1>7, <1>8

\* A look-up lets no shard shrink: an entry leaves its shard only when another, or the same key
\* anew, takes its place.
LEMMA LookupGrows ==
  ASSUME NEW c, OwnCache(c), NEW k \in SampleKeys, NEW v \in SampleValues, NEW t, NEW later \in Nat,
         NEW r, r = ShardedGetOrPut(c, Hash, k, v, t, later).cache
  PROVE  OwnCache(r) /\ GrownTo(c, r)
<1>1. Hash \in [SampleKeys -> Nat] /\ Sharded(SampleKeys, SampleValues, CacheTTL, Hash, c)
  BY CacheSizeAssumption DEF OwnCache
<1>2. CASE ShardedHit(c, Hash, k, t)
  <2>1. r = c
    BY <1>1, <1>2, ShardedHitKeeps
  <2> QED
    BY <2>1, LensType DEF GrownTo
<1>3. CASE ~ShardedHit(c, Hash, k, t)
  <2> DEFINE i == shardFor(c, Hash, k)
             s == c[i]
             got == GetOrPut(s, k, v, t, later)
             put == ShardedGetOrPut(c, Hash, k, v, t, later)
  <2>1. /\ Sharded(SampleKeys, SampleValues, CacheTTL, Hash, r) /\ DOMAIN r = DOMAIN c
        /\ i \in DOMAIN c /\ (\A idx \in DOMAIN c \ {i} : r[idx] = c[idx])
        /\ r[i].len = s.len + 1 - put.evicted - (IF k \in KeysIn(c) THEN 1 ELSE 0)
    <3>1. MissOutcome(SampleKeys, SampleValues, CacheTTL, Hash, c, k, v, later, put)
      BY <1>1, <1>3, ShardedMissStores
    <3> QED
      BY <3>1 DEF MissOutcome
  <2>2. r = [c EXCEPT ![i] = got.cache] /\ put.evicted = got.evicted
    BY DEF ShardedGetOrPut
  <2>3. WellFormed(SampleKeys, SampleValues, s) /\ (k \in KeysIn(c) <=> k \in DOMAIN s.items)
    <3>1. WellFormed(SampleKeys, SampleValues, s)
      BY <1>1, ShardOfKey
    <3>2. k \in KeysIn(c) <=> k \in DOMAIN s.items
      BY <1>1, EntryOfKey
    <3> QED
      BY <3>1, <3>2
  <2>4. ~Hit(s, k, t)
    BY <1>3 DEF ShardedHit
  <2>5. r[i] = got.cache
    BY <2>1, <2>2
  <2> HIDE DEF s
  <2>6. /\ got.cache.maxEntries = s.maxEntries
        /\ \/ got.evicted = 0
           \/ got.evicted = 1 /\ k \notin DOMAIN s.items
    <3>1. \E kept \in SUBSET (DOMAIN s.items \ {k}) :
             /\ Stores(SampleKeys, SampleValues, s, got.cache, kept, k, v, later + s.ttl)
             /\ \/ /\ kept = DOMAIN s.items \ {k} /\ got.evicted = 0
                   /\ (k \in DOMAIN s.items \/ s.len < s.maxEntries)
                \/ /\ \E w \in DOMAIN s.items \ {k} : kept = DOMAIN s.items \ {k, w}
                   /\ got.evicted = 1 /\ s.len = s.maxEntries
                   /\ k \notin DOMAIN s.items
      <4>1. k \in SampleKeys /\ v \in SampleValues /\ later \in Nat
        OBVIOUS
      <4> QED
        BY ONLY <4>1, <2>3, <2>4, GetOrPutStores
    <3> HIDE DEF got
    <3> QED
      BY <3>1 DEF Stores
  <2> HIDE DEF i, got, put
  <2>7. OwnCache(r)
    <3>1. \A idx \in DOMAIN c : r[idx].maxEntries = c[idx].maxEntries
      BY <2>1, <2>5, <2>6 DEF s
    <3> QED
      BY <2>1, <3>1 DEF OwnCache
  <2>8. ASSUME NEW idx \in Shards
        PROVE  c[idx].len <= r[idx].len
    <3>1. c[idx].len \in Nat /\ r[idx].len \in Nat
      BY <2>7, LensType
    <3>2. CASE idx # i
      BY <2>1, <3>1, <3>2 DEF OwnCache
    <3>3. CASE idx = i
      <4>1. c[idx].len = s.len /\ r[idx].len = r[i].len
        BY <3>3 DEF s
      <4> QED
        BY <2>1, <2>2, <2>3, <2>6, <3>1, <4>1
    <3> QED
      BY <3>2, <3>3
  <2> QED
    BY <2>7, <2>8 DEF GrownTo
<1> QED
  BY <1>2, <1>3

\* What is known of a worker that is adding up the shards: it has counted no more than there is in
\* the shards it has passed, and what there was at the start it has counted or has still to count.
LenOK(c, m) ==
  m.pc = "len" =>
    /\ m.total <= LenCounted(c, m.idx)
    /\ m.before <= m.total + LenToCount(c, m.idx)

\* The inductive invariant.
MetricsInv ==
  /\ OwnCache(samples)
  /\ time \in 0..MaxClock
  /\ last \in {Never} \cup 0..MaxClock
  /\ gauge \in Nat /\ gauge <= TotalLen(samples)
  /\ worker \in [Workers -> Workings]
  /\ \A w \in Workers : LenOK(samples, worker[w])

LEMMA ShardsCounted == Cardinality(Shards) = Count
<1>1. Count \in Nat \ {0} /\ Shards = 0..(Count - 1)
  BY CountType
<1>2. 0 \in Int /\ Count - 1 \in Int /\ ~(0 > Count - 1) /\ Count - 1 - 0 + 1 = Count
  BY <1>1
<1>3. Cardinality(0..(Count - 1)) = Count - 1 - 0 + 1
  BY <1>2, FS_Interval
<1> QED
  BY <1>1, <1>2, <1>3

\* The four places a worker can be in.
LEMMA WorkingFields ==
  ASSUME NEW m \in Workings
  PROVE  /\ m.pc \in {"idle", "inspect", "throttle", "len"}
         /\ m.pc = "throttle" => m.clock \in 0..MaxClock
         /\ m.pc = "len" =>
              /\ m = [pc |-> "len", idx |-> m.idx, total |-> m.total, before |-> m.before]
              /\ m.idx \in 0..Count /\ m.total \in 0..CacheSize /\ m.before \in 0..CacheSize
BY ShardsCounted DEF Workings, Idle

LEMMA LenWorking ==
  ASSUME NEW i \in 0..Count, NEW a \in 0..CacheSize, NEW b \in 0..CacheSize
  PROVE  [pc |-> "len", idx |-> i, total |-> a, before |-> b] \in Workings
BY ShardsCounted DEF Workings

\* A sum that is under way stays right while the cache grows.
LEMMA LenOKGrows ==
  ASSUME NEW c, OwnCache(c), NEW r, OwnCache(r), GrownTo(c, r), NEW m \in Workings, LenOK(c, m)
  PROVE  LenOK(r, m)
<1> SUFFICES ASSUME m.pc = "len"
             PROVE  /\ m.total <= LenCounted(r, m.idx)
                    /\ m.before <= m.total + LenToCount(r, m.idx)
  BY DEF LenOK
<1>1. m.idx \in 0..Count /\ m.total \in Nat /\ m.before \in Nat
  BY WorkingFields, CountType
<1>2. /\ LenCounted(c, m.idx) <= LenCounted(r, m.idx) /\ LenToCount(c, m.idx) <= LenToCount(r, m.idx)
      /\ LenCounted(c, m.idx) \in Nat /\ LenToCount(c, m.idx) \in Nat
      /\ LenCounted(r, m.idx) \in Nat /\ LenToCount(r, m.idx) \in Nat
  BY <1>1, LenGrows
<1>3. m.total <= LenCounted(c, m.idx) /\ m.before <= m.total + LenToCount(c, m.idx)
  BY DEF LenOK
<1> QED
  BY <1>1, <1>2, <1>3

\* A sum that has passed every shard lies between what there was and what there is.
LEMMA LenDone ==
  ASSUME NEW c, OwnCache(c), NEW m \in Workings, LenOK(c, m), m.pc = "len", m.idx \notin Shards
  PROVE  m.before <= m.total /\ m.total <= TotalLen(c) /\ m.total \in Nat
<1>1. m.idx = Count /\ m.total \in Nat /\ m.before \in Nat
  BY WorkingFields, CountType
<1>2. LenCounted(c, m.idx) = TotalLen(c) /\ LenToCount(c, m.idx) = 0
  BY <1>1, LenEnds
<1> QED
  BY <1>1, <1>2 DEF LenOK

LEMMA InitMetricsInv == MetricsInit => MetricsInv
<1> SUFFICES ASSUME MetricsInit PROVE MetricsInv
  OBVIOUS
<1>1. OwnCache(samples) /\ TotalLen(samples) = 0
  BY NewOwnCache DEF MetricsInit
<1>2. time \in 0..MaxClock /\ last \in {Never} \cup 0..MaxClock /\ gauge = 0
  BY SecondAssumption DEF MetricsInit
<1>3. worker \in [Workers -> Workings]
  BY DEF MetricsInit, Workings
<1>4. \A w \in Workers : LenOK(samples, worker[w])
  BY DEF MetricsInit, LenOK, Idle
<1> QED
  BY <1>1, <1>2, <1>3, <1>4 DEF MetricsInv

LEMMA LookupMetrics ==
  ASSUME MetricsInv, NEW w \in Workers, NEW k \in SampleKeys, NEW v \in SampleValues,
         NEW later \in 0..MaxClock, Lookup(w, k, v, later)
  PROVE  MetricsInv'
<1>1. PICK r : r = samples'
  OBVIOUS
<1>2. PICK c : c = samples
  OBVIOUS
<1>3. PICK t : t = time
  OBVIOUS
<1>4. OwnCache(c) /\ r = ShardedGetOrPut(c, Hash, k, v, t, later).cache /\ later \in Nat
  BY <1>1, <1>2, <1>3, SecondAssumption DEF MetricsInv, Lookup
<1>5. OwnCache(r) /\ GrownTo(c, r)
  BY <1>4, LookupGrows
<1>6. TotalLen(c) <= TotalLen(r) /\ TotalLen(c) \in Nat /\ TotalLen(r) \in Nat
  <2>1. 0 \in 0..Count
    BY CountType
  <2> QED
    BY <1>4, <1>5, <2>1, LenGrows, LensType
<1>7. \A m \in Workings : LenOK(c, m) => LenOK(r, m)
  BY <1>4, <1>5, LenOKGrows
<1>8. time' = later /\ last' = last /\ gauge' = gauge /\ worker' = worker
  BY DEF Lookup
<1>9. gauge' \in Nat /\ gauge' <= TotalLen(samples')
  BY <1>1, <1>2, <1>6, <1>8 DEF MetricsInv
<1>10. \A u \in Workers : LenOK(samples', worker'[u])
  BY <1>1, <1>2, <1>7, <1>8 DEF MetricsInv
<1> QED
  BY <1>1, <1>5, <1>8, <1>9, <1>10 DEF MetricsInv

\* A step of a worker that leaves the cache and the gauge alone.
LEMMA WorkerMetrics ==
  ASSUME MetricsInv, NEW w \in Workers, NEW m, m \in Workings, LenOK(samples, m),
         worker' = [worker EXCEPT ![w] = m], UNCHANGED << samples, time, gauge >>,
         last' \in {Never} \cup 0..MaxClock
  PROVE  MetricsInv'
<1>1. worker' \in [Workers -> Workings] /\ \A u \in Workers : LenOK(samples, worker'[u])
  <2>1. \A u \in Workers : worker'[u] = IF u = w THEN m ELSE worker[u]
    BY DEF MetricsInv
  <2> QED
    BY <2>1 DEF MetricsInv
<1> QED
  BY <1>1 DEF MetricsInv

LEMMA ThrottleMetrics ==
  ASSUME MetricsInv, NEW w \in Workers, Throttle(w)
  PROVE  MetricsInv'
<1>1. UNCHANGED << samples, time, gauge >>
  BY DEF Throttle
<1>2. worker[w].pc = "throttle" /\ worker[w] \in Workings
  BY DEF Throttle, MetricsInv
<1>3. CASE last # Never /\ worker[w].clock - last < Second
  <2>1. worker' = [worker EXCEPT ![w] = Idle] /\ last' = last
    BY <1>3 DEF Throttle
  <2>2. Idle \in Workings /\ LenOK(samples, Idle)
    BY DEF Workings, Idle, LenOK
  <2>3. last' \in {Never} \cup 0..MaxClock
    BY <2>1 DEF MetricsInv
  <2> QED
    BY <1>1, <2>1, <2>2, <2>3, WorkerMetrics
<1>4. CASE ~(last # Never /\ worker[w].clock - last < Second)
  <2>1. PICK total : total = TotalLen(samples)
    OBVIOUS
  <2> DEFINE m == [pc |-> "len", idx |-> 0, total |-> 0, before |-> total]
  <2>2. worker' = [worker EXCEPT ![w] = m] /\ last' = worker[w].clock
    BY <1>4, <2>1 DEF Throttle
  <2>3. PICK c : c = samples /\ OwnCache(c)
    BY DEF MetricsInv
  <2>4. total \in 0..CacheSize
    BY <2>1, <2>3, LensType, WithinCacheSize, CountType
  <2>5. m \in Workings
    BY <2>4, LenWorking, CountType
  <2>6. LenCounted(c, 0) = 0 /\ LenToCount(c, 0) = total
    BY <2>1, <2>3, LenEnds
  <2>7. LenOK(samples, m)
    BY <2>3, <2>4, <2>6 DEF LenOK
  <2>8. last' \in {Never} \cup 0..MaxClock
    BY <1>2, <2>2, WorkingFields
  <2> HIDE DEF m
  <2> QED
    BY <1>1, <2>2, <2>5, <2>7, <2>8, WorkerMetrics
<1> QED
  BY <1>3, <1>4

LEMMA LenShardMetrics ==
  ASSUME MetricsInv, NEW w \in Workers, LenShard(w)
  PROVE  MetricsInv'
<1>1. PICK c : c = samples /\ OwnCache(c)
  BY DEF MetricsInv
<1>2. PICK m : m = worker[w] /\ m \in Workings /\ LenOK(c, m)
  BY <1>1 DEF MetricsInv
<1>3. m.pc = "len" /\ m.idx \in Shards
  BY <1>2 DEF LenShard
<1> DEFINE n == [pc |-> "len", idx |-> m.idx + 1, total |-> m.total + c[m.idx].len, before |-> m.before]
<1>4. /\ m = [pc |-> "len", idx |-> m.idx, total |-> m.total, before |-> m.before]
      /\ m.idx \in 0..Count /\ m.total \in 0..CacheSize /\ m.before \in 0..CacheSize
  BY <1>2, <1>3, WorkingFields
<1>5. worker' = [worker EXCEPT ![w] = n] /\ UNCHANGED << samples, time, last, gauge >>
  <2>1. worker' = [worker EXCEPT ![w] = [[m EXCEPT !.total = @ + c[m.idx].len] EXCEPT !.idx = @ + 1]]
    BY <1>1, <1>2 DEF LenShard, MetricsInv
  <2>2. [[m EXCEPT !.total = @ + c[m.idx].len] EXCEPT !.idx = @ + 1] = n
    <3>1. PICK i, a, b, x : i = m.idx /\ a = m.total /\ b = m.before /\ x = c[m.idx].len
      OBVIOUS
    <3>2. m = [pc |-> "len", idx |-> i, total |-> a, before |-> b]
      BY <1>4, <3>1
    <3>3. [[m EXCEPT !.total = @ + x] EXCEPT !.idx = @ + 1] =
            [pc |-> "len", idx |-> i + 1, total |-> a + x, before |-> b]
      <4>1. PICK y : y = a + x
        OBVIOUS
      <4>2. [m EXCEPT !.total = @ + x] = [pc |-> "len", idx |-> i, total |-> y, before |-> b]
        BY ONLY <3>2, <4>1
      <4>3. PICK z : z = [m EXCEPT !.total = @ + x]
        OBVIOUS
      <4>4. PICK j : j = i + 1
        OBVIOUS
      <4>5. z = [pc |-> "len", idx |-> i, total |-> y, before |-> b] /\ z.idx + 1 = j
        BY ONLY <4>2, <4>3, <4>4
      <4>6. [z EXCEPT !.idx = @ + 1] = [pc |-> "len", idx |-> j, total |-> y, before |-> b]
        BY ONLY <4>5
      <4> QED
        BY ONLY <4>1, <4>3, <4>4, <4>6
    <3> QED
      BY <3>1, <3>3
  <2> HIDE DEF n
  <2> QED
    BY <2>1, <2>2 DEF LenShard
<1>6. /\ LenCounted(c, m.idx + 1) = LenCounted(c, m.idx) + c[m.idx].len
      /\ LenToCount(c, m.idx) = c[m.idx].len + LenToCount(c, m.idx + 1)
      /\ LenCounted(c, m.idx) \in Nat /\ LenToCount(c, m.idx + 1) \in Nat
      /\ c[m.idx].len \in Nat
  BY <1>1, <1>3, LenAdvances
<1>7. m.total <= LenCounted(c, m.idx) /\ m.before <= m.total + LenToCount(c, m.idx)
  BY <1>2, <1>3 DEF LenOK
<1>8. m.idx + 1 \in 0..Count
  BY <1>3, CountType
<1>9. n.total <= LenCounted(c, m.idx + 1) /\ n.before <= n.total + LenToCount(c, m.idx + 1)
  BY <1>4, <1>6, <1>7
<1>10. LenCounted(c, m.idx + 1) <= CacheSize
  <2>1. GrownTo(c, c)
    BY <1>1, LensType DEF GrownTo
  <2>2. LenCounted(c, m.idx + 1) <= TotalLen(c)
    BY <1>1, <1>8, <2>1, LenGrows
  <2>3. TotalLen(c) <= CacheSize /\ TotalLen(c) \in Nat
    BY <1>1, LensType, WithinCacheSize
  <2> QED
    BY <1>6, <2>2, <2>3, CountType
<1>11. n \in Workings
  <2>1. m.total + c[m.idx].len <= LenCounted(c, m.idx + 1)
    BY <1>4, <1>6, <1>7
  <2>2. m.total + c[m.idx].len \in 0..CacheSize
    BY <1>4, <1>6, <1>10, <2>1, CountType
  <2> QED
    BY <1>4, <1>8, <2>2, LenWorking
<1>12. LenOK(samples, n)
  BY <1>1, <1>9 DEF LenOK
<1>13. last' \in {Never} \cup 0..MaxClock
  BY <1>5 DEF MetricsInv
<1> HIDE DEF n
<1> QED
  BY <1>5, <1>11, <1>12, <1>13, WorkerMetrics

LEMMA SetGaugeMetrics ==
  ASSUME MetricsInv, NEW w \in Workers, SetGauge(w)
  PROVE  MetricsInv'
<1>1. PICK c : c = samples /\ OwnCache(c)
  BY DEF MetricsInv
<1>2. PICK m : m = worker[w] /\ m \in Workings /\ LenOK(c, m)
  BY <1>1 DEF MetricsInv
<1>3. m.pc = "len" /\ m.idx \notin Shards
  BY <1>2 DEF SetGauge
<1>4. m.total <= TotalLen(c) /\ m.total \in Nat
  BY <1>1, <1>2, <1>3, LenDone
<1>5. gauge' = m.total /\ worker' = [worker EXCEPT ![w] = Idle] /\ UNCHANGED << samples, time, last >>
  BY <1>2 DEF SetGauge
<1>6. Idle \in Workings /\ LenOK(samples, Idle)
  BY DEF Workings, Idle, LenOK
<1>7. worker' \in [Workers -> Workings] /\ \A u \in Workers : LenOK(samples, worker'[u])
  <2>1. \A u \in Workers : worker'[u] = IF u = w THEN Idle ELSE worker[u]
    BY <1>5 DEF MetricsInv
  <2> QED
    BY <1>5, <1>6, <2>1 DEF MetricsInv
<1>8. gauge' \in Nat /\ gauge' <= TotalLen(samples')
  BY <1>1, <1>4, <1>5
<1> QED
  BY <1>5, <1>7, <1>8 DEF MetricsInv

LEMMA NextMetricsInv == MetricsInv /\ [MetricsNext]_metricsVars => MetricsInv'
<1> SUFFICES ASSUME MetricsInv, [MetricsNext]_metricsVars PROVE MetricsInv'
  OBVIOUS
<1>1. ASSUME NEW w \in Workers, NEW k \in SampleKeys, NEW v \in SampleValues,
             NEW later \in 0..MaxClock, Lookup(w, k, v, later)
      PROVE  MetricsInv'
  BY <1>1, LookupMetrics
<1>2. ASSUME NEW w \in Workers, Inspect(w)
      PROVE  MetricsInv'
  <2> DEFINE m == [pc |-> "inspect"]
  <2>1. m \in Workings /\ LenOK(samples, m)
    BY DEF Workings, LenOK
  <2>2. worker' = [worker EXCEPT ![w] = m] /\ UNCHANGED << samples, time, last, gauge >>
    BY <1>2 DEF Inspect
  <2>3. last' \in {Never} \cup 0..MaxClock
    BY <2>2 DEF MetricsInv
  <2> HIDE DEF m
  <2> QED
    BY <2>1, <2>2, <2>3, WorkerMetrics
<1>3. ASSUME NEW w \in Workers, ReadClock(w)
      PROVE  MetricsInv'
  <2> DEFINE m == [pc |-> "throttle", clock |-> time]
  <2>1. m \in Workings /\ LenOK(samples, m)
    BY DEF Workings, LenOK, MetricsInv
  <2>2. worker' = [worker EXCEPT ![w] = m] /\ UNCHANGED << samples, time, last, gauge >>
    BY <1>3 DEF ReadClock
  <2>3. last' \in {Never} \cup 0..MaxClock
    BY <2>2 DEF MetricsInv
  <2>4. PICK n : n = m
    OBVIOUS
  <2> HIDE DEF m
  <2> QED
    BY <2>1, <2>2, <2>3, <2>4, WorkerMetrics
<1>4. ASSUME NEW w \in Workers, Throttle(w) PROVE MetricsInv'
  BY <1>4, ThrottleMetrics
<1>5. ASSUME NEW w \in Workers, LenShard(w) PROVE MetricsInv'
  BY <1>5, LenShardMetrics
<1>6. ASSUME NEW w \in Workers, SetGauge(w) PROVE MetricsInv'
  BY <1>6, SetGaugeMetrics
<1>7. CASE TimePasses
  <2>1. time' \in 0..MaxClock /\ UNCHANGED << samples, last, gauge, worker >>
    BY <1>7, SecondAssumption DEF TimePasses, MetricsInv
  <2> QED
    BY <2>1 DEF MetricsInv
<1>8. CASE UNCHANGED metricsVars
  BY <1>8 DEF MetricsInv, metricsVars
<1> QED
  BY <1>1, <1>2, <1>3, <1>4, <1>5, <1>6, <1>7, <1>8 DEF MetricsNext

LEMMA MetricsInvImplies == MetricsInv => MetricsTypeOK /\ LenOfSomeMoment
<1> SUFFICES ASSUME MetricsInv PROVE MetricsTypeOK /\ LenOfSomeMoment
  OBVIOUS
<1>1. PICK c : c = samples /\ OwnCache(c)
  BY DEF MetricsInv
<1>2. TotalLen(c) <= CacheSize /\ TotalLen(c) \in Nat /\ CacheSize \in Nat
  BY <1>1, LensType, WithinCacheSize, CountType
<1>3. gauge \in 0..CacheSize /\ gauge <= TotalLen(samples)
  BY <1>1, <1>2 DEF MetricsInv
<1>4. DOMAIN samples = Shards /\ ShardsWellFormed(SampleKeys, SampleValues, Hash, samples)
  BY <1>1 DEF OwnCache, Sharded
<1>5. ASSUME NEW w \in Workers, worker[w].pc = "len", worker[w].idx \notin Shards
      PROVE  worker[w].before <= worker[w].total /\ worker[w].total <= TotalLen(samples)
  <2>1. PICK m : m = worker[w] /\ m \in Workings /\ LenOK(c, m)
    BY <1>1 DEF MetricsInv
  <2>2. m.before <= m.total /\ m.total <= TotalLen(c)
    BY <1>1, <1>5, <2>1, LenDone
  <2> QED
    BY <1>1, <2>1, <2>2
<1> QED
  BY <1>3, <1>4, <1>5 DEF MetricsInv, MetricsTypeOK, LenOfSomeMoment

\* What is known of every sum under way and of the gauge holds while the cache changes
\* (stateCache.Len, updateCacheMetrics).
THEOREM AlwaysMetricsInv == MetricsSpec => []MetricsInv
BY InitMetricsInv, NextMetricsInv, PTL DEF MetricsSpec

\* The shards stay well formed, and no sum and no gauge (Len, updateCacheMetrics) is ever beyond
\* the size the cache was made with.
THEOREM MetricsTypeCorrect == MetricsSpec => []MetricsTypeOK
BY AlwaysMetricsInv, MetricsInvImplies, PTL

\* For any number of shards and of goroutines, Len answers a number of entries the cache had at
\* some moment of the call, and the gauge never runs ahead of the cache.
THEOREM LenIsOfSomeMoment == MetricsSpec => []LenOfSomeMoment
BY AlwaysMetricsInv, MetricsInvImplies, PTL
==============================================================================
