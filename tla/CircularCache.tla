---------------------------- MODULE CircularCache ----------------------------
(***************************************************************************)
(* The data structure behind one shard of a detector cache,                *)
(* internal/inspector/cache.go: a map from keys to slots (items), an array *)
(* of slots, a stack of freed slots (free), the number of slots ever       *)
(* handed out (usedSlots), the ring cursor of the eviction (nextEvict) and *)
(* a counter of the entries (len).  Every operator takes the cache as a    *)
(* record and gives the record the Go method leaves behind, so a state     *)
(* machine chooses where the lock is taken and when the clock is read.     *)
(***************************************************************************)
EXTENDS Naturals, Sequences, Functions, FiniteSets

------------------------------------------------------------------------------
(* Slots and maps.  A slot that is not used holds zero values nobody reads. *)

EmptySlot == [used |-> FALSE]

UsedSlot(k, v, expiresAt) ==
  [used |-> TRUE, key |-> k, value |-> v, expiresAt |-> expiresAt]

Delete(items, k) == Restrict(items, DOMAIN items \ {k})

Insert(items, k, x) ==
  [j \in DOMAIN items \cup {k} |-> IF j = k THEN x ELSE items[j]]

newCircularCache(n, ttl) ==
  [ maxEntries |-> n,
    ttl        |-> ttl,
    items      |-> [k \in {} |-> 0],
    slots      |-> [i \in 0..(n-1) |-> EmptySlot],
    free       |-> << >>,
    usedSlots  |-> 0,
    nextEvict  |-> 0,
    len        |-> 0 ]

------------------------------------------------------------------------------
(* Looking up.                                                              *)

\* Slips of RemoveSlot: the slot is never handed back; it goes back although the map still
\* leads to it.
RemoveSlotLeaks(c, idx) ==
  [c EXCEPT !.items = Delete(@, c.slots[idx].key),
            !.slots[idx] = EmptySlot,
            !.len = @ - 1]

RemoveSlotKeepsIndex(c, idx) ==
  [c EXCEPT !.slots[idx] = EmptySlot,
            !.free = Append(@, idx),
            !.len = @ - 1]

RemoveSlot(c, idx) ==
  IF c.slots[idx].used
  THEN [c EXCEPT !.items = Delete(@, c.slots[idx].key),
                 !.slots[idx] = EmptySlot,
                 !.free = Append(@, idx),
                 !.len = @ - 1]
  ELSE c

\* Slip of Hit: expiry is not looked at.
HitIgnoresExpiry(c, k, now) ==
  k \in DOMAIN c.items /\ c.slots[c.items[k]].used

\* Get finds k: its slot is used and the clock is not after its expiry.
Hit(c, k, now) ==
  /\ k \in DOMAIN c.items
  /\ c.slots[c.items[k]].used
  /\ now <= c.slots[c.items[k]].expiresAt

\* What Get leaves behind: on a miss, a stale index entry or an expired slot
\* is dropped.
Get(c, k, now) ==
  IF k \notin DOMAIN c.items \/ Hit(c, k, now)
  THEN c
  ELSE LET idx == c.items[k] IN
       IF c.slots[idx].used
       THEN RemoveSlot(c, idx)
       ELSE [c EXCEPT !.items = Delete(@, k)]

------------------------------------------------------------------------------
(* Storing.                                                                 *)

TakeFree(c) ==
  [ idx |-> c.free[Len(c.free)], evicted |-> 0,
    cache |-> [c EXCEPT !.free = SubSeq(@, 1, Len(@) - 1)] ]

TakeFresh(c) ==
  [ idx |-> c.usedSlots, evicted |-> 0,
    cache |-> [c EXCEPT !.usedSlots = @ + 1] ]

\* Slips of TurnRing: the cursor stays where it is; it runs off the end.
TurnRingStuck(c) == c

TurnRingPastEnd(c) == [c EXCEPT !.nextEvict = @ + 1]

TurnRing(c) == [c EXCEPT !.nextEvict = (@ + 1) % c.maxEntries]

EvictNext(c) ==
  LET old == c.slots[c.nextEvict] IN
  [ idx     |-> c.nextEvict,
    evicted |-> IF old.used THEN 1 ELSE 0,
    cache   |-> IF old.used
                THEN [TurnRing(c) EXCEPT !.items = Delete(@, old.key),
                                         !.len = @ - 1]
                ELSE TurnRing(c) ]

\* The slot the next entry goes to: the last one freed, else a fresh one,
\* else the one under the ring cursor, whose entry is evicted.
NextSlot(c) ==
  CASE c.free # << >> -> TakeFree(c)
    [] c.free = << >> /\ c.usedSlots < c.maxEntries -> TakeFresh(c)
    [] OTHER -> EvictNext(c)

\* Writing the entry into the slot found for it.
Occupy(c, idx, k, v, expiresAt) ==
  [c EXCEPT !.slots[idx] = UsedSlot(k, v, expiresAt),
            !.items = Insert(@, k, idx),
            !.len = @ + 1]

\* Put: the cache it leaves behind and the number of entries it evicted.
Put(c, k, v, now) ==
  IF k \in DOMAIN c.items
  THEN [ cache |-> [c EXCEPT !.slots[c.items[k]].value = v,
                             !.slots[c.items[k]].expiresAt = now + c.ttl],
         evicted |-> 0 ]
  ELSE LET s == NextSlot(c) IN
       [ cache |-> Occupy(s.cache, s.idx, k, v, now + c.ttl),
         evicted |-> s.evicted ]

------------------------------------------------------------------------------
(* GetOrPut, under the lock of the shard: the expiry is judged with one     *)
(* reading of the clock, the new entry stamped with a later one.            *)

GetOrPut(c, k, v, now, later) ==
  IF Hit(c, k, now)
  THEN [ cache |-> c, evicted |-> 0 ]
  ELSE Put(Get(c, k, now), k, v, later)

------------------------------------------------------------------------------
(* What a well-formed cache is.                                             *)

SlotsOf(c) == 0..(c.maxEntries - 1)

SlotTypes(K, V) == {EmptySlot} \cup
  [used : {TRUE}, key : K, value : V, expiresAt : Nat]

\* A circularCache[K, V].
WellTyped(K, V, c) ==
  /\ c = [ maxEntries |-> c.maxEntries, ttl |-> c.ttl, items |-> c.items,
           slots |-> c.slots, free |-> c.free, usedSlots |-> c.usedSlots,
           nextEvict |-> c.nextEvict, len |-> c.len ]
  /\ c.maxEntries \in Nat \ {0}
  /\ c.ttl \in Nat
  /\ DOMAIN c.items \subseteq K
  /\ IsFiniteSet(DOMAIN c.items)
  /\ c.items \in [DOMAIN c.items -> SlotsOf(c)]
  /\ c.slots \in [SlotsOf(c) -> SlotTypes(K, V)]
  /\ c.free \in Seq(SlotsOf(c))
  /\ c.usedSlots \in 0..c.maxEntries
  /\ c.nextEvict \in SlotsOf(c)
  /\ c.len \in 0..c.maxEntries

\* The map and the slots describe the same entries.
MapMatchesSlots(c) ==
  /\ \A k \in DOMAIN c.items :
       c.slots[c.items[k]].used /\ c.slots[c.items[k]].key = k
  /\ \A i \in SlotsOf(c) :
       c.slots[i].used =>
         c.slots[i].key \in DOMAIN c.items /\ c.items[c.slots[i].key] = i

\* The free stack holds, once each, exactly the slots handed out and given back.
FreeMatchesSlots(c) ==
  /\ \A i, j \in 1..Len(c.free) : c.free[i] = c.free[j] => i = j
  /\ \A i \in SlotsOf(c) :
       (\E j \in 1..Len(c.free) : c.free[j] = i)
         <=> (i < c.usedSlots /\ ~c.slots[i].used)
  /\ \A i \in SlotsOf(c) : i >= c.usedSlots => ~c.slots[i].used

\* len counts the entries, and a slot handed out is an entry or free.
LenMatchesItems(c) ==
  /\ c.len = Cardinality(DOMAIN c.items)
  /\ c.len + Len(c.free) = c.usedSlots

WellFormed(K, V, c) ==
  WellTyped(K, V, c) /\ MapMatchesSlots(c) /\ FreeMatchesSlots(c) /\ LenMatchesItems(c)
==============================================================================
