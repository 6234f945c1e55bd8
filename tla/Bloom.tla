--------------------------------- MODULE Bloom --------------------------------
(***************************************************************************)
(* The Bloom filter policy of util/bloom.cc: filters appended to a string  *)
(* by policies with different parameters, and cut out of it later to be    *)
(* asked for keys.                                                         *)
(*                                                                         *)
(* BloomHash may be any function from keys to words.  A char is the set of *)
(* its bits that are one, so that |= and & are set operations.  A word has *)
(* Low * High values, where Low is 2^17 and High is 2^15 in the code; both *)
(* are constants to make words narrow.  The product n * bits_per_key is    *)
(* one of two ints and does not wrap.                                      *)
(***************************************************************************)
EXTENDS Integers, Sequences

CONSTANTS
  Keys,
  Low, High,      \* a word is rotated by the bits of Low
  HashValues,     \* what BloomHash may return
  BitsPerKey,     \* parameters of policies
  Found,          \* what the string holds before the first filter
  MaxKeys,        \* bound: keys of one filter
  MaxFilters      \* bound: filters in the string

Word == 0 .. Low * High - 1

Char == SUBSET (0 .. 7)

ASSUME BloomAssumption ==
  /\ Low \in Nat \ {0} /\ High \in Nat \ {0}
  /\ HashValues \subseteq Word
  /\ BitsPerKey \subseteq Nat
  /\ Found \subseteq Seq(Char)
  /\ MaxKeys \in Nat /\ MaxFilters \in Nat

VARIABLES
  BloomHash,   \* the hash function, chosen once
  dst,         \* *dst
  filters      \* history: where each filter lies in dst, and its keys

vars == <<BloomHash, dst, filters>>

-----------------------------------------------------------------------------
(* The weights of the bits of a char, and the chars that hold the numbers  *)
(* up to 255.                                                              *)
Weight == <<1, 2, 4, 8, 16, 32, 64, 128>>

ToChar(n) == {b \in 0 .. 7 : (n \div Weight[b + 1]) % 2 = 1}

FromChar(c) == CHOOSE n \in 0 .. 255 : ToChar(n) = c

(* k_: 0.69 * bits_per_key, at least 1 and at most 30. *)
Probes(bits_per_key) ==
  LET k == (69 * bits_per_key) \div 100
  IN  IF k < 1 THEN 1 ELSE IF k > 30 THEN 30 ELSE k

Delta(h) == (h \div Low) + ((h % Low) * High)

(* The value of h in round j of the loops, reduced to a bit of the filter. *)
BitPos(h, j, bits) == ((h + j * Delta(h)) % (Low * High)) % bits

-----------------------------------------------------------------------------
Bytes(n, bits_per_key) ==
  LET bits == IF n * bits_per_key < 64 THEN 64 ELSE n * bits_per_key
  IN  (bits + 7) \div 8

(* Fault: bits is not rounded up to whole bytes. *)
BitsRequested(n, bits_per_key) ==
  IF n * bits_per_key < 64 THEN 64 ELSE n * bits_per_key

(* bits, once it is rounded up. *)
Bits(n, bits_per_key) == Bytes(n, bits_per_key) * 8

(* The bits that the two loops of CreateFilter set. *)
BitsSet(keys, bits, k) ==
  {BitPos(BloomHash[keys[i]], j, bits) : i \in DOMAIN keys, j \in 0 .. k - 1}

(* The resize, which appends zeros, and the push_back of the number of     *)
(* probes.                                                                 *)
Grown(str, bytes, k) == Append(str \o [p \in 1 .. bytes |-> {}], ToChar(k))

(* Fault: the loops write from the front of the string. *)
ArrayAtFront(init_size) == 0

(* How many chars of the string lie before array[0]. *)
Array(init_size) == init_size

(* array[x / 8] |= 1 << (x % 8) for each x of set, where array points into *)
(* the string: any of its chars may be hit, also an old one.               *)
Marked(str, array, set) ==
  [p \in 1 .. Len(str) |-> str[p] \cup {b \in 0 .. 7 : 8 * (p - 1 - array) + b \in set}]

KeyMayMatch(key, filter) ==
  LET len  == Len(filter)
      bits == (len - 1) * 8
      k    == FromChar(filter[len])
  IN  /\ len >= 2
      /\ \/ k > 30
         \/ \A j \in 0 .. k - 1 :
              LET bitpos == BitPos(BloomHash[key], j, bits)
              IN  bitpos % 8 \in filter[(bitpos \div 8) + 1]

-----------------------------------------------------------------------------
Init ==
  /\ BloomHash \in [Keys -> HashValues]
  /\ dst \in Found
  /\ filters = <<>>

CreateFilter(keys, bits_per_key) ==
  /\ Len(filters) < MaxFilters
  /\ LET bytes == Bytes(Len(keys), bits_per_key)
         bits  == Bits(Len(keys), bits_per_key)
         k     == Probes(bits_per_key)
     IN  dst' = Marked(Grown(dst, bytes, k), Array(Len(dst)), BitsSet(keys, bits, k))
  /\ filters' = Append(filters, [begin |-> Len(dst), end |-> Len(dst'), keys |-> keys])
  /\ UNCHANGED BloomHash

(* Between two uses the owner empties the string. *)
Clear ==
  /\ dst' = <<>> /\ filters' = <<>>
  /\ UNCHANGED BloomHash

Next ==
  \/ Clear
  \/ \E n \in 0 .. MaxKeys, bits_per_key \in BitsPerKey :
       \E keys \in [1 .. n -> Keys] : CreateFilter(keys, bits_per_key)

Spec == Init /\ [][Next]_vars

-----------------------------------------------------------------------------
(* Properties.                                                             *)

(* The filter of an entry of filters, as its owner cuts it out of dst. *)
Stored(f) == SubSeq(dst, f.begin + 1, f.end)

(* filter_policy.h:37, "This method must return true if the key was in the *)
(* list of keys passed to CreateFilter()": for every filter in the string, *)
(* also after others were appended, and whatever the parameters of the     *)
(* policy that is asked.  Creation computes the number of bits from n and  *)
(* bits_per_key, matching from the length.                                 *)
NoFalseNegative ==
  \A i \in DOMAIN filters : \A j \in DOMAIN filters[i].keys :
    KeyMayMatch(filters[i].keys[j], Stored(filters[i]))

(* A filter says yes only for a reason: if a key of the filter set each of *)
(* the bits it probes.  So a filter of no keys matches nothing, and        *)
(* nothing a filter is appended to leaks into it.                          *)
NoStrayBits ==
  \A f \in {filters[i] : i \in DOMAIN filters} : \A key \in Keys :
    LET bits == (f.end - f.begin - 1) * 8
        probes(x) == {BitPos(BloomHash[x], j, bits) :
                        j \in 0 .. FromChar(dst[f.end]) - 1}
    IN  KeyMayMatch(key, Stored(f)) =>
          probes(key) \subseteq UNION {probes(f.keys[i]) : i \in DOMAIN f.keys}
===============================================================================
