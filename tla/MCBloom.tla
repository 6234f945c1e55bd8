-------------------------------- MODULE MCBloom -------------------------------
(***************************************************************************)
(* Instances of Bloom for TLC: words of eight bits, rotated by five.       *)
(***************************************************************************)
EXTENDS Bloom, TLC

(* One probe; two keys of 35 bits need 70, which nine bytes round up. *)
Parameters == {0, 5, 35}

(* A hash that stays where it is, two that spread, one that meets a third. *)
SomeHashes == {0, 77, 141, 255}

(* Nothing, or a char with all bits set. *)
SomeFound == {<<>>, <<0 .. 7>>}
Symmetry == Permutations(Keys)
===============================================================================
