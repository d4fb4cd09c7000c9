---------------------------- MODULE MCCacheMetrics ----------------------------
(* Two workers, three keys and a cache of three entries in two shards, so    *)
(* that the sizes of the shards differ and one of them evicts; entries       *)
(* expire after one tick.                                                    *)
EXTENDS CacheMetrics, TLC

CONSTANTS k1, k2, k3

MCHash == k1 :> 0 @@ k2 :> 1 @@ k3 :> 3

Symmetry == Permutations(Workers)
==============================================================================
