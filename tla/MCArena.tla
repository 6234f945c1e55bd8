-------------------------------- MODULE MCArena -------------------------------
(* Instances of Arena for TLC. *)
EXTENDS Arena, TLC

(* Blocks of 12 bytes: up to 3 are cut off them, 4 and more get their own.  *)
SomeSizes == {0, 3, 4, 7, 13}

Symmetry == Permutations(Blocks)
===============================================================================
