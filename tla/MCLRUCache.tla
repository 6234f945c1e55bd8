------------------------------ MODULE MCLRUCache ------------------------------
(* Instances of LRUCache for TLC: the charges and capacities of the .cfg   *)
(* files, and the permutations under which safety runs are symmetric.      *)
EXTENDS LRUCache

UnitCharges == {1}

UnevenCharges == {1, 2}

Two == {2}

One == {1}

NoneOrOne == {0, 1}

Symmetry ==
  Permutations(Threads) \cup Permutations(Keys) \cup Permutations(Handles)
=============================================================================
