------------------------------- MODULE MCLRUList ------------------------------
(* Entries are interchangeable. *)
EXTENDS LRUList

Symmetry == Permutations(Nodes)
===============================================================================
