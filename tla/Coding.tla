-------------------------------- MODULE Coding --------------------------------
(***************************************************************************)
(* util/coding.{h,cc} of src/: integers and byte strings appended to a     *)
(* std::string and parsed from a Slice, the two ends of which may disagree *)
(* on what was written and on how much of it has arrived.                  *)
(*                                                                         *)
(* A byte carries GroupBits bits of a varint and one that says there is    *)
(* more; the widths of integers are constants as well, so that the top     *)
(* group of a varint is only partly used, as in the code.                  *)
(***************************************************************************)
EXTENDS Integers, Sequences, FiniteSetsExt, Functions

CONSTANTS
  GroupBits,   \* bits of a varint in one byte (7 in the code)
  Width32,     \* the width of uint32_t
  Width64,     \* the width of uint64_t
  Values32, Values64,   \* the integers clients write
  Strings,     \* the byte strings clients write
  Found,       \* what the string holds before the first Put
  MaxBytes     \* bound: no Put once dst has this length

B == 2^GroupBits

Byte == 0 .. 2 * B - 1

(* The most groups a varint of w bits has: 5 for 32, 10 for 64. *)
Groups(w) == (w + (GroupBits - 1)) \div GroupBits

ASSUME CodingAssumption ==
  /\ GroupBits \in Nat \ {0} /\ MaxBytes \in Nat
  /\ \A w \in {Width32, Width64} : w \in Nat \ {0} /\ w % (GroupBits + 1) = 0
  /\ Values32 \subseteq 0 .. 2^Width32 - 1 /\ Values64 \subseteq 0 .. 2^Width64 - 1
  /\ Strings \cup Found \subseteq Seq(Byte)

(* A string has less than 2^Width32 bytes, so that its length is written as *)
(* it is.                                                                  *)
ASSUME StringsAssumption == \A s \in Strings : Len(s) < 2^Width32

(* Arithmetic, for the provers: they do not know exponentiation.  The      *)
(* groups of a varint have room for its width, the bytes of a fixed-width  *)
(* integer are its width.                                                  *)
ASSUME Powers ==
  /\ B \in Nat /\ B > 1
  /\ \A w \in {Width32, Width64} :
       /\ 2^w \in Nat /\ B <= 2^w /\ 2^w <= B^Groups(w)
       /\ 2^w = (2 * B)^(w \div (GroupBits + 1))
       /\ \A n \in 0 .. Groups(w) :
            B^n \in Nat /\ B^0 = 1 /\ B^(n + 1) = B * B^n
       /\ \A n \in 0 .. w \div (GroupBits + 1) :
            (2 * B)^n \in Nat /\ (2 * B)^0 = 1 /\ (2 * B)^(n + 1) = (2 * B) * (2 * B)^n

VARIABLES
  dst,       \* *dst: the bytes written so far
  data,      \* input.data(), as an offset in dst; -1 before there is one
  size,      \* input.size()
  puts,      \* history: the values written, and where each lies in dst
  got        \* history: what the last Get returned, and where it began

vars == <<dst, data, size, puts, got>>

-----------------------------------------------------------------------------
(* Encoding.                                                               *)

(* The byte v | B. *)
More(v) == (v % B) + B

(* Fault: a boundary value takes the shorter form. *)
LengthShort(v) == Min({n \in 1 .. Groups(Width32) : v <= B^n \/ n = Groups(Width32)})

(* The branch of EncodeVarint32. *)
Length32(v) == Min({n \in 1 .. Groups(Width32) : v < B^n \/ n = Groups(Width32)})

EncodeVarint32(v) ==
  [j \in 1 .. Length32(v) |->
     IF j < Length32(v) THEN More(v \div B^(j - 1))
                        ELSE (v \div B^(j - 1)) % (2 * B)]

EncodeVarint64[v \in Nat] ==
  IF v < B THEN <<v>> ELSE <<More(v)>> \o EncodeVarint64[v \div B]

VarintLength[v \in Nat] == IF v < B THEN 1 ELSE 1 + VarintLength[v \div B]

EncodeFixed(v, w) ==
  [j \in 1 .. w \div (GroupBits + 1) |-> (v \div (2 * B)^(j - 1)) % (2 * B)]

-----------------------------------------------------------------------------
(* Decoding, from the bytes p that are left.                               *)

Failure == [ok |-> FALSE, value |-> 0, used |-> 0]

(* The sum of the first n bytes as groups of base b. *)
Joined(p, n, b) ==
  SumFunctionOnSet([j \in 1 .. n |-> (p[j] % b) * b^(j - 1)], 1 .. n)

(* Fault: the loop makes one more round. *)
RoundsTooMany(w) == Groups(w) + 1

(* Rounds of a decoding loop: its last shift is 28 or 63. *)
Rounds(w) == Groups(w)

(* The loop ends at the first byte without the bit that says there is      *)
(* more; bits of the top group beyond the width are shifted out.           *)
GetVarintLoop(p, w) ==
  LET ends == {n \in 1 .. Rounds(w) : n <= Len(p) /\ p[n] < B}
  IN  IF ends = {} THEN Failure
      ELSE [ok |-> TRUE, value |-> Joined(p, Min(ends), B) % 2^w, used |-> Min(ends)]

GetVarint32Ptr(p) ==
  IF p # <<>> /\ p[1] < B
  THEN [ok |-> TRUE, value |-> p[1], used |-> 1]
  ELSE GetVarintLoop(p, Width32)

GetVarint64Ptr(p) == GetVarintLoop(p, Width64)

DecodeFixed(p, w) == Joined(p, w \div (GroupBits + 1), 2 * B)

(* Fault: the payload is not required to be there. *)
GetPrefixedUnchecked(p) ==
  LET len == GetVarint32Ptr(p)
  IN  IF ~len.ok THEN Failure
      ELSE [ok |-> TRUE, value |-> SubSeq(p, len.used + 1, Len(p)),
            used |-> len.used + len.value]

(* GetLengthPrefixedSlice(Slice* input, Slice* result): the length is      *)
(* consumed also when the payload is too short.                            *)
GetPrefixed(p) ==
  LET len == GetVarint32Ptr(p)
  IN  IF ~len.ok THEN Failure
      ELSE IF Len(p) - len.used >= len.value
      THEN [ok |-> TRUE, value |-> SubSeq(p, len.used + 1, len.used + len.value),
            used |-> len.used + len.value]
      ELSE [Failure EXCEPT !.used = len.used]

(* GetLengthPrefixedSlice(p, limit, result): nullptr is all a failing call *)
(* returns, and the caller still has its p.  Its test, p + len > limit, is *)
(* the one of sizes above as long as the sum fits into a pointer, which a  *)
(* 32-bit length cannot prevent where pointers have 64 bits.               *)
GetPrefixedPtr(p) == LET r == GetPrefixed(p) IN IF r.ok THEN r ELSE Failure

-----------------------------------------------------------------------------
Nothing == [op |-> "none", at |-> -1, ok |-> FALSE, value |-> 0]

Init ==
  /\ dst \in Found
  /\ data = -1 /\ size = 0
  /\ puts = <<>> /\ got = Nothing

Put(op, v, bytes) ==
  /\ data = -1 /\ Len(dst) < MaxBytes
  /\ dst' = dst \o bytes
  /\ puts' = Append(puts, [op |-> op, value |-> v,
                             begin |-> Len(dst), end |-> Len(dst')])
  /\ UNCHANGED <<data, size, got>>

PutFixed32(v) == Put("fixed32", v, EncodeFixed(v, Width32))

PutFixed64(v) == Put("fixed64", v, EncodeFixed(v, Width64))

PutVarint32(v) == Put("varint32", v, EncodeVarint32(v))

PutVarint64(v) == Put("varint64", v, EncodeVarint64[v])

(* The size is passed as a uint32_t. *)
PutLengthPrefixedSlice(s) ==
  Put("string", s, EncodeVarint32(Len(s) % 2^Width32) \o s)

(* A client makes a Slice of n bytes, which may start inside a value and   *)
(* end before the last one is complete.                                    *)
Open(from, n) ==
  /\ data = -1
  /\ data' = from /\ size' = n
  /\ UNCHANGED <<dst, puts, got>>

Input == SubSeq(dst, data + 1, data + size)

(* remove_prefix(r.used), or *input = Slice(q, limit - q). *)
Get(op, r) ==
  /\ data # -1
  /\ data' = data + r.used /\ size' = size - r.used
  /\ got' = [op |-> op, at |-> data, ok |-> r.ok, value |-> r.value]
  /\ UNCHANGED <<dst, puts>>

GetVarint32 == Get("varint32", GetVarint32Ptr(Input))

GetVarint64 == Get("varint64", GetVarint64Ptr(Input))

GetLengthPrefixedSlice == Get("string", GetPrefixed(Input))

GetLengthPrefixedSlicePtr == Get("string", GetPrefixedPtr(Input))

(* DecodeFixed checks nothing: its callers know that the bytes are there. *)
GetFixed(op, w) ==
  /\ size >= w \div (GroupBits + 1)
  /\ Get(op, [ok |-> TRUE, value |-> DecodeFixed(Input, w),
              used |-> w \div (GroupBits + 1)])

Next ==
  \/ \E v \in Values32 : PutFixed32(v) \/ PutVarint32(v)
  \/ \E v \in Values64 : PutFixed64(v) \/ PutVarint64(v)
  \/ \E s \in Strings : PutLengthPrefixedSlice(s)
  \/ \E from \in 0 .. Len(dst) : \E n \in 0 .. Len(dst) - from : Open(from, n)
  \/ GetVarint32 \/ GetVarint64
  \/ GetLengthPrefixedSlice \/ GetLengthPrefixedSlicePtr
  \/ GetFixed("fixed32", Width32) \/ GetFixed("fixed64", Width64)

Spec == Init /\ [][Next]_vars

-----------------------------------------------------------------------------
(* Properties.                                                             *)

Limit == data + size

(* What is written is what is read: a Get that starts where a value of its *)
(* kind was put returns it and moves past it, if and only if all its bytes *)
(* have arrived.  So values come back in order, and a stream cut anywhere  *)
(* yields no value that is not whole.                                      *)
ReadBack ==
  \A i \in DOMAIN puts : got.at = puts[i].begin /\ got.op = puts[i].op =>
    /\ got.ok <=> puts[i].end <= Limit
    /\ got.ok => got.value = puts[i].value /\ data = puts[i].end

(* Readers and writers may differ in the width of a varint.  The narrow    *)
(* reader refuses what is longer than its longest varint, but of what is   *)
(* as long it drops the bits beyond its width without notice.              *)
WidthsMix ==
  \A i \in DOMAIN puts :
    got.at = puts[i].begin /\ {got.op, puts[i].op} = {"varint32", "varint64"} =>
      LET p == puts[i]
          w == IF got.op = "varint32" THEN Width32 ELSE Width64
      IN  /\ got.ok <=> VarintLength[p.value] <= Groups(w) /\ p.end <= Limit
          /\ got.ok => got.value = p.value % 2^w /\ data = p.end

(* coding.h:40, "These routines only look at bytes in the range            *)
(* [p..limit-1]": on any bytes, a Get stays in the input.  One that fails  *)
(* leaves the input as it was, but for GetLengthPrefixedSlice: it may have *)
(* consumed the length of a string that has not arrived, and a caller that *)
(* tries again takes the string's first bytes for a length.                *)
GetsContained ==
  [][data # -1 =>
       /\ data <= data' /\ 0 <= size' /\ data' + size' = Limit
       /\ ~got'.ok /\ data # data' =>
            LET length == GetVarint32Ptr(SubSeq(dst, data + 1, data'))
            IN  /\ got'.op = "string"
                /\ length.ok /\ length.used = data' - data
                /\ length.value > size']_vars
===============================================================================
