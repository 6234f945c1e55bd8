---------------------------------- MODULE Hash --------------------------------
(***************************************************************************)
(* The hash of util/hash.cc, on words of four narrow bytes.                *)
(***************************************************************************)
EXTENDS Integers, Sequences, Bitwise

CONSTANTS
  ByteBits,    \* the width of a byte (8 in the code)
  m,           \* the multiplier (0xc6a4a793), an odd number
  Seeds,
  MaxLen       \* bound: the longest key

Byte == 0 .. 2^ByteBits - 1

W == 2^(4 * ByteBits)

VARIABLES key, seed

vars == <<key, seed>>

-----------------------------------------------------------------------------
(* h *= m; h ^= (h >> n): the shift is half a word in the loop and three   *)
(* quarters in the tail.                                                   *)
Mixed(h, n) == ((h * m) % W) ^^ (((h * m) % W) \div 2^n)

DecodeFixed32(data) ==
  data[1] + (data[2] * 2^ByteBits) + (data[3] * 2^(2 * ByteBits))
    + (data[4] * 2^(3 * ByteBits))

(* The tail: each case ends in a break. *)
Remaining(h, data) ==
  CASE Len(data) = 3 -> (h + (data[3] * 2^(2 * ByteBits))) % W
    [] Len(data) = 2 -> (h + (data[2] * 2^ByteBits)) % W
    [] Len(data) = 1 -> Mixed((h + data[1]) % W, 3 * ByteBits)
    [] Len(data) = 0 -> h

HashOf(data, s) ==
  LET words == Len(data) \div 4
      Loop[n \in 0 .. words] ==
        IF n = 0 THEN s ^^ ((Len(data) * m) % W)
        ELSE Mixed((Loop[n - 1] + DecodeFixed32(SubSeq(data, (4 * n) - 3, 4 * n))) % W,
                   2 * ByteBits)
  IN  Remaining(Loop[words], SubSeq(data, (4 * words) + 1, Len(data)))

-----------------------------------------------------------------------------
Init == key = <<>> /\ seed \in Seeds

(* A client prepares a longer key. *)
Extend(b) ==
  /\ Len(key) < MaxLen
  /\ key' = Append(key, b)
  /\ UNCHANGED seed

Next == \E b \in Byte : Extend(b)

Spec == Init /\ [][Next]_vars

-----------------------------------------------------------------------------
(* Properties.                                                             *)

(* hash.cc:29, "pick up remaining bytes", as the loop before it picks up   *)
(* four at a time: every step of the hash is a bijection of words, so a    *)
(* byte that is picked up changes the hash when it alone changes.          *)
EveryByteCounts ==
  \A i \in DOMAIN key : \A b \in Byte \ {key[i]} :
    HashOf([key EXCEPT ![i] = b], seed) # HashOf(key, seed)
===============================================================================
