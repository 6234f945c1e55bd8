--------------------------- MODULE MCShardedLRUCache --------------------------
(* Instances of ShardedLRUCache for TLC. *)
EXTENDS ShardedLRUCache

UnitCharges == {1}

(* Hashes of 3 bits: 1 and 3 differ in the low bits but share a shard when *)
(* there are two; with four shards 1, 3 and 6 lie in different ones.       *)
SomeHashes == {1, 3, 6}

OneHash == {7}

(* Without caching, and two or three entries over two shards. *)
NoneOrSome == {0, 3}

Four == {4}

Symmetry ==
  Permutations(Threads) \cup Permutations(Keys) \cup Permutations(Handles)
===============================================================================
