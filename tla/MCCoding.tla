------------------------------- MODULE MCCoding -------------------------------
(***************************************************************************)
(* Instances of Coding for TLC: bytes of four bits, three of them for      *)
(* varints; integers of 8 and 16 bits, whose varints have up to 3 and 6    *)
(* bytes, the last with two and one bits in use (4 and 1 in the code).     *)
(***************************************************************************)
EXTENDS Coding

(* On both sides of one group, and all bits set. *)
Small == {7, 8, 255}

(* Zero, more than 8 bits, both sides of the longest varint32, all bits.   *)
Large == {0, 300, 511, 512, 65535}

(* Empty; with bytes that look like an unfinished length; a length of two  *)
(* bytes.                                                                  *)
SomeStrings == {<<>>, <<9, 1>>, <<1, 1, 1, 1, 1, 1, 1, 15>>}

(* Nothing; bytes nobody encoded: some that announce more and one that     *)
(* does not, on both sides of the longest varint of either width.          *)
Overlong ==
  {<<>>} \cup {[j \in 1 .. n |-> IF j < n THEN more ELSE last] :
                n \in {1, 3, 4, 6, 7}, more \in {8, 15}, last \in {0, 1, 15}}
===============================================================================
