----------------------------- MODULE MCHandleTable ----------------------------
(* Instances of HandleTable for TLC. *)
EXTENDS HandleTable, TLC

(* All three collide in one bucket; in two buckets 0 and 2 still do. *)
ThreeHashes == {0, 1, 2}

Symmetry == Permutations(Keys) \cup Permutations(Handles)
===============================================================================
