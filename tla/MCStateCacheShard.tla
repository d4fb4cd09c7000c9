------------------------- MODULE MCStateCacheShard -------------------------
(* A shard of three slots and four keys: one key more than there are slots, *)
(* so that the ring turns, and time for an entry to expire and be stored    *)
(* again while others live.  Keys and values are interchangeable.           *)
EXTENDS StateCacheShard, TLC

Symmetry == Permutations(Keys) \cup Permutations(Values)
=============================================================================
