------------------------------ MODULE ArenaProofs -----------------------------
(***************************************************************************)
(* The memory an arena gives out is disjoint, inside its blocks, aligned   *)
(* and accounted for, for any sizes, block size and number of blocks.      *)
(***************************************************************************)
EXTENDS Arena, DataLemmas

-----------------------------------------------------------------------------
(* Arithmetic.                                                             *)

(* The remainder of what is less than the modulus. *)
LEMMA SmallMod ==
  ASSUME NEW n \in Nat, NEW m \in Nat, n < m
  PROVE  n % m = n
<1>1. n = m * 0 + n
  OBVIOUS
<1> QED
  BY <1>1, SMT

(* Adding what is missing to the next multiple leaves no remainder. *)
LEMMA RoundedUpMod ==
  ASSUME NEW n \in Nat, NEW m \in Nat \ {0}
  PROVE  /\ n % m \in 0 .. m - 1
         /\ n % m # 0 => (n + (m - (n % m))) % m = 0
<1> DEFINE q == n \div m
           r == n % m
<1>1. q \in Nat /\ r \in 0 .. m - 1 /\ n = m * q + r
  OBVIOUS
<1>2. n + (m - r) = m * (q + 1)
  BY <1>1, SMT
<1>3. (m * (q + 1)) % m = 0
  BY <1>1, SMT
<1> QED
  BY <1>1, <1>2, <1>3

-----------------------------------------------------------------------------
(* What is in use of the current block ends where alloc_ptr_ points to,    *)
(* and no byte is in use of a block that new[] has not returned.           *)
CutOff ==
  ~destroyed =>
    /\ \A b \in blocks : size[b] > 0
    /\ \A x \in allocated :
         x.block = alloc_ptr.block => x.from + x.bytes <= alloc_ptr.offset

IInv == TypeOK /\ Disjoint /\ Contained /\ Aligned /\ CutOff

(* Nothing is in use of an arena without blocks. *)
LEMMA IInvInit == Init => IInv
<1> SUFFICES ASSUME Init PROVE IInv
  OBVIOUS
<1>1. TypeOK
  <2>1. 0 \in 0 .. BlockSize /\ 0 \in Nat /\ FALSE \in BOOLEAN
    BY ArenaAssumption
  <2>2. alloc_ptr \in [block : Blocks \cup {NULL}, offset : Nat]
    BY DEF Init
  <2> QED
    BY <2>1, <2>2 DEF Init, TypeOK
<1>2. Disjoint /\ Contained /\ Aligned /\ CutOff
  BY DEF Init, Disjoint, Contained, Aligned, CutOff
<1> QED
  BY <1>1, <1>2 DEF IInv

(* Cutting bytes off the rest of the current block, after pad bytes that   *)
(* nobody gets, preserves the invariant.                                   *)
LEMMA CutKeeps ==
  ASSUME IInv, ~destroyed, NEW bytes \in Sizes, NEW pad \in Nat, NEW aligned \in BOOLEAN,
         bytes + pad <= remaining,
         aligned => (alloc_ptr.offset + pad) % Align = 0,
         Give(alloc_ptr.block, alloc_ptr.offset + pad, bytes, aligned),
         alloc_ptr' = [alloc_ptr EXCEPT !.offset = @ + (bytes + pad)],
         remaining' = remaining - (bytes + pad),
         UNCHANGED <<size, blocks, memory_usage, destroyed>>
  PROVE  IInv'
<1> DEFINE b == alloc_ptr.block
           from == alloc_ptr.offset + pad
           new == Given(b, from, bytes, aligned)
<1>1. bytes \in Nat /\ remaining \in 0 .. BlockSize /\ BlockSize \in Nat
  BY ArenaAssumption DEF IInv, TypeOK
<1>2. \/ b \in blocks /\ alloc_ptr.offset + remaining <= size[b]
      \/ b = NULL /\ remaining = 0 /\ bytes = 0 /\ pad = 0
  BY <1>1 DEF IInv, Contained
<1>3. alloc_ptr \in [block : Blocks \cup {NULL}, offset : Nat] /\ size \in [Blocks -> Nat]
      /\ blocks \subseteq Blocks
  BY DEF IInv, TypeOK
<1>4. /\ alloc_ptr' = [block |-> b, offset |-> from + bytes]
      /\ alloc_ptr'.block = b /\ alloc_ptr'.offset = from + bytes
      /\ from \in Nat /\ from + bytes \in Nat
  <2>1. PICK o \in Nat : alloc_ptr = [block |-> b, offset |-> o]
    BY <1>3
  <2>2. alloc_ptr' = [block |-> b, offset |-> o + (bytes + pad)]
    BY <2>1
  <2>3. from = o + pad
    BY <2>1
  <2>4. o + (bytes + pad) = from + bytes /\ from \in Nat /\ from + bytes \in Nat
    BY <2>3, <1>1
  <2> HIDE DEF from, b
  <2>5. alloc_ptr' = [block |-> b, offset |-> from + bytes]
    BY <2>2, <2>4
  <2>6. ASSUME NEW c, NEW n, alloc_ptr' = [block |-> c, offset |-> n]
        PROVE  alloc_ptr'.block = c /\ alloc_ptr'.offset = n
    BY <2>6
  <2> QED
    BY <2>4, <2>5, <2>6
<1>5. allocated' = allocated \cup {new}
  BY DEF Give
<1>6. new.block = b /\ new.from = from /\ new.bytes = bytes /\ new.aligned = aligned
  BY DEF Given
<1>7. \A x \in allocated : x.block = b => x.from + x.bytes <= from
  <2> SUFFICES ASSUME NEW x \in allocated, x.block = b PROVE x.from + x.bytes <= from
    OBVIOUS
  <2>1. x.from + x.bytes <= alloc_ptr.offset
    BY DEF IInv, CutOff
  <2>2. x.from + x.bytes \in Nat
    BY ArenaAssumption DEF IInv, TypeOK
  <2>3. PICK o \in Nat : o = alloc_ptr.offset
    BY <1>3
  <2> QED
    BY <2>1, <2>2, <2>3
<1>8. TypeOK'
  <2>1. new \in [block : Blocks \cup {NULL}, from : Nat, bytes : Sizes, aligned : BOOLEAN]
    BY <1>2, <1>3, <1>4 DEF Given
  <2>2. remaining' \in 0 .. BlockSize
    BY <1>1
  <2> QED
    BY <2>1, <2>2, <1>3, <1>4, <1>5 DEF IInv, TypeOK
<1> HIDE DEF new, from, b
<1>9. Disjoint'
  BY <1>5, <1>6, <1>7 DEF IInv, Disjoint
<1>10. Contained'
  <2>1. \/ b \in blocks /\ from + bytes <= size[b]
        \/ b = NULL /\ bytes = 0
    BY <1>1, <1>2, <1>3 DEF b, from
  <2>2. \/ b \in blocks /\ alloc_ptr'.offset + remaining' <= size[b]
        \/ b = NULL /\ remaining' = 0
    BY <1>1, <1>2, <1>3, <1>4 DEF b, from
  <2> QED
    BY <2>1, <2>2, <1>4, <1>5, <1>6 DEF IInv, Contained
<1>11. Aligned'
  BY <1>5, <1>6 DEF IInv, Aligned, from
<1>12. CutOff'
  <2>1. \A x \in allocated : x.from + x.bytes \in Nat
    BY ArenaAssumption DEF IInv, TypeOK
  <2>2. \A x \in allocated : x.block = b => x.from + x.bytes <= from + bytes
    BY <2>1, <1>1, <1>4, <1>7
  <2> QED
    BY <2>2, <1>2, <1>4, <1>5, <1>6 DEF IInv, CutOff
<1> QED
  BY <1>8, <1>9, <1>10, <1>11, <1>12 DEF IInv

(* Giving out the first bytes of a new block, which becomes the current    *)
(* block or not, preserves the invariant.                                  *)
LEMMA NewBlockKeeps ==
  ASSUME IInv, ~destroyed, NEW bytes \in Sizes, NEW aligned \in BOOLEAN,
         NEW b \in Blocks, NEW n \in Nat \ {0}, bytes <= n,
         AllocateNewBlock(b, n), Give(b, 0, bytes, aligned), UNCHANGED destroyed,
         \/ UNCHANGED <<alloc_ptr, remaining>>
         \/ /\ alloc_ptr' = [block |-> b, offset |-> bytes]
            /\ remaining' = n - bytes /\ n = BlockSize
  PROVE  IInv'
<1> DEFINE new == Given(b, 0, bytes, aligned)
<1>1. bytes \in Nat /\ PtrSize \in Nat /\ Align \in Nat \ {0} /\ b # NULL
  BY ArenaAssumption
<1>2. /\ size[b] = 0 /\ size' = [size EXCEPT ![b] = n]
      /\ blocks' = blocks \cup {b} /\ memory_usage' = memory_usage + n + PtrSize
  BY DEF AllocateNewBlock
<1>3. b \notin blocks /\ b # alloc_ptr.block
  BY <1>1, <1>2 DEF IInv, CutOff, Contained
<1>4. /\ size' \in [Blocks -> Nat] /\ size'[b] = n
      /\ \A c \in blocks : size'[c] = size[c] /\ c # b
  BY <1>2, <1>3 DEF IInv, TypeOK
<1>5. allocated' = allocated \cup {new}
  BY DEF Give
<1>6. new.block = b /\ new.from = 0 /\ new.bytes = bytes /\ new.aligned = aligned
  BY DEF Given
<1>7. \A x \in allocated : x.block # b
  BY <1>1, <1>3 DEF IInv, Contained
<1>8. TypeOK'
  <2>1. new \in [block : Blocks \cup {NULL}, from : Nat, bytes : Sizes, aligned : BOOLEAN]
    BY DEF Given
  <2>2. remaining' \in 0 .. BlockSize /\ alloc_ptr' \in [block : Blocks \cup {NULL}, offset : Nat]
    BY <1>1 DEF IInv, TypeOK
  <2>3. memory_usage' \in Nat
    BY <1>1, <1>2 DEF IInv, TypeOK
  <2> QED
    BY <2>1, <2>2, <2>3, <1>2, <1>4, <1>5 DEF IInv, TypeOK
<1> HIDE DEF new
<1>9. Disjoint'
  BY <1>5, <1>6, <1>7 DEF IInv, Disjoint
<1>10. Contained'
  <2>1. \A x \in allocated' :
          \/ x.block \in blocks' /\ x.from + x.bytes <= size'[x.block]
          \/ x.block = NULL /\ x.bytes = 0
    BY <1>1, <1>2, <1>4, <1>5, <1>6, <1>7 DEF IInv, Contained
  <2>2. \/ alloc_ptr'.block = NULL /\ remaining' = 0
        \/ /\ alloc_ptr'.block \in blocks'
           /\ alloc_ptr'.offset + remaining' <= size'[alloc_ptr'.block]
    BY <1>1, <1>2, <1>4 DEF IInv, Contained
  <2> QED
    BY <2>1, <2>2 DEF Contained
<1>11. Aligned'
  <2>1. 0 % Align = 0
    BY <1>1, SmallMod
  <2> QED
    BY <2>1, <1>5, <1>6 DEF IInv, Aligned
<1>12. CutOff'
  <2>1. \A c \in blocks' : size'[c] > 0
    BY <1>1, <1>2, <1>4 DEF IInv, CutOff
  <2>2. CASE UNCHANGED alloc_ptr
    BY <2>1, <2>2, <1>2, <1>3, <1>5, <1>6 DEF IInv, CutOff
  <2>3. CASE alloc_ptr' = [block |-> b, offset |-> bytes]
    BY <2>1, <2>3, <1>1, <1>2, <1>5, <1>6, <1>7 DEF IInv, CutOff
  <2> QED
    BY <2>2, <2>3
<1> QED
  BY <1>8, <1>9, <1>10, <1>11, <1>12 DEF IInv

(* A request the current block cannot serve preserves the invariant, also  *)
(* when it fails.                                                          *)
LEMMA FallbackKeeps ==
  ASSUME IInv, ~destroyed, UNCHANGED destroyed, NEW bytes \in Sizes, NEW aligned \in BOOLEAN,
         AllocateFallback(bytes, aligned)
  PROVE  IInv'
<1>1. bytes \in Nat /\ BlockSize \in Nat \ {0}
  BY ArenaAssumption
<1>2. ASSUME NEW b \in Blocks, Give(b, 0, bytes, aligned), Large(bytes),
             AllocateNewBlock(b, bytes), UNCHANGED <<alloc_ptr, remaining>>
      PROVE  IInv'
  <2>1. bytes \in Nat \ {0}
    BY <1>1, <1>2 DEF Large
  <2> QED
    BY <2>1, <1>2, NewBlockKeeps
<1>3. ASSUME NEW b \in Blocks, Give(b, 0, bytes, aligned), ~Large(bytes),
             AllocateNewBlock(b, BlockSize),
             alloc_ptr' = [block |-> b, offset |-> bytes],
             remaining' = BlockSize - bytes
      PROVE  IInv'
  <2>1. bytes <= BlockSize
    BY <1>1, <1>3 DEF Large
  <2> QED
    BY <2>1, <1>1, <1>3, NewBlockKeeps
<1>4. CASE FallbackThrows(bytes)
  <2>1. PICK b \in Blocks, n \in {bytes, BlockSize} :
             /\ size[b] = 0 /\ size' = [size EXCEPT ![b] = n]
             /\ UNCHANGED <<blocks, memory_usage, alloc_ptr, remaining, allocated>>
    BY <1>4 DEF FallbackThrows
  <2>2. b \notin blocks /\ n \in Nat
    BY <2>1, <1>1 DEF IInv, CutOff
  <2>3. size' \in [Blocks -> Nat] /\ \A c \in blocks : size'[c] = size[c]
    BY <2>1, <2>2 DEF IInv, TypeOK
  <2> QED
    BY <2>1, <2>3 DEF IInv, TypeOK, Disjoint, Contained, Aligned, CutOff
<1> QED
  BY <1>2, <1>3, <1>4 DEF AllocateFallback

(* The slop leads to the next aligned offset, and adding it to a size does *)
(* not wrap.                                                               *)
LEMMA SlopAligns ==
  ASSUME TypeOK, NEW bytes \in Sizes
  PROVE  /\ Slop \in 0 .. Align - 1
         /\ (alloc_ptr.offset + Slop) % Align = 0
         /\ (bytes + Slop) % 2^SizeBits = bytes + Slop
<1> DEFINE o == alloc_ptr.offset
           m == 2^SizeBits
<1>1. o \in Nat /\ Align \in Nat \ {0} /\ bytes \in Nat /\ m \in Int /\ bytes <= m - Align
  BY ArenaAssumption DEF TypeOK
<1>2. o % Align \in 0 .. Align - 1 /\ (o % Align # 0 => (o + (Align - (o % Align))) % Align = 0)
  BY <1>1, RoundedUpMod
<1>3. Slop = IF o % Align = 0 THEN 0 ELSE Align - (o % Align)
  BY DEF Slop
<1>4. Slop \in 0 .. Align - 1 /\ (o + Slop) % Align = 0
  BY <1>1, <1>2, <1>3
<1> HIDE DEF m
<1>5. bytes + Slop \in Nat /\ bytes + Slop < m /\ m \in Nat
  BY <1>1, <1>4
<1> QED
  BY <1>4, <1>5, SmallMod DEF m

(* Every step preserves the invariant. *)
LEMMA IInvStep == IInv /\ [Next]_vars => IInv'
<1> SUFFICES ASSUME IInv, [Next]_vars PROVE IInv'
  OBVIOUS
<1>1. CASE UNCHANGED vars
  BY <1>1 DEF vars, block_vars, IInv, TypeOK, Disjoint, Contained, Aligned, CutOff
<1>2. ASSUME NEW bytes \in Sizes, Allocate(bytes) PROVE IInv'
  <2>1. ~destroyed /\ UNCHANGED destroyed
    BY <1>2 DEF Allocate
  <2>2. CASE AllocateFallback(bytes, FALSE)
    BY <2>1, <2>2, FallbackKeeps
  <2>3. CASE bytes <= remaining /\ Cut(bytes, 0, bytes, FALSE)
    <3>1. bytes + 0 = bytes
      BY ArenaAssumption
    <3> QED
      BY <2>1, <2>3, <3>1, CutKeeps DEF Cut, block_vars
  <2> QED
    BY <1>2, <2>2, <2>3 DEF Allocate
<1>3. ASSUME NEW bytes \in Sizes, AllocateAligned(bytes) PROVE IInv'
  <2>1. ~destroyed /\ UNCHANGED destroyed
    BY <1>3 DEF AllocateAligned
  <2>2. CASE AllocateFallback(bytes, TRUE)
    BY <2>1, <2>2, FallbackKeeps
  <2>3. /\ Slop \in 0 .. Align - 1 /\ Slop \in Nat /\ (alloc_ptr.offset + Slop) % Align = 0
        /\ (bytes + Slop) % 2^SizeBits = bytes + Slop
    BY SlopAligns, ArenaAssumption DEF IInv
  <2>4. CASE bytes + Slop <= remaining /\ Cut(bytes, Slop, bytes + Slop, TRUE)
    <3>1. PICK pad \in Nat : pad = Slop
      BY <2>3
    <3> QED
      BY <2>1, <2>3, <2>4, <3>1, CutKeeps DEF Cut, block_vars
  <2> QED
    BY <1>3, <2>2, <2>3, <2>4 DEF AllocateAligned
<1>4. CASE Destroy
  <2>1. /\ destroyed' = TRUE /\ allocated' = {} /\ blocks' = {}
        /\ UNCHANGED <<memory_usage, alloc_ptr, remaining>>
        /\ size' = [b \in Blocks |-> IF b \in blocks THEN 0 ELSE size[b]]
    BY <1>4 DEF Destroy
  <2> QED
    BY <2>1 DEF IInv, TypeOK, Disjoint, Contained, Aligned, CutOff
<1>5. CASE Destroyed
  BY <1>1, <1>5 DEF Destroyed
<1> QED
  BY <1>1, <1>2, <1>3, <1>4, <1>5 DEF Next

(* The inductive invariant holds in every reachable state. *)
LEMMA Invariance == Spec => []IInv
BY IInvInit, IInvStep, PTL DEF Spec

(* Every variable keeps its type. *)
THEOREM Typing == Spec => []TypeOK
<1>1. IInv => TypeOK
  BY DEF IInv
<1> QED
  BY <1>1, Invariance, PTL

(* No two clients are given the same byte, for any sizes and block size.   *)
THEOREM NoOverlap == Spec => []Disjoint
<1>1. IInv => Disjoint
  BY DEF IInv
<1> QED
  BY <1>1, Invariance, PTL

(* What clients are given, and what is left to give, lies inside blocks    *)
(* that the arena owns, also after requests that failed.                   *)
THEOREM InsideBlocks == Spec => []Contained
<1>1. IInv => Contained
  BY DEF IInv
<1> QED
  BY <1>1, Invariance, PTL

(* The assertion of AllocateAligned never fails.                           *)
THEOREM AlignmentHolds == Spec => []Aligned
<1>1. IInv => Aligned
  BY DEF IInv
<1> QED
  BY <1>1, Invariance, PTL

(* Only the fallback gives a block up, and it does so only for a small     *)
(* request that does not fit: less than a quarter of a block, and what     *)
(* alignment may add, is lost.                                             *)
THEOREM LittleIsWasted == Spec => WasteBounded
<1> DEFINE Bound == alloc_ptr'.block # alloc_ptr.block =>
                      remaining < (BlockSize \div 4) + Align - 1
<1>1. ASSUME IInv, [Next]_vars PROVE Bound
  <2> DEFINE q == BlockSize \div 4
  <2>1. /\ remaining \in Nat /\ Align \in Nat \ {0} /\ q \in Nat
        /\ \A bytes \in Sizes : bytes \in Nat
    BY <1>1, ArenaAssumption DEF IInv, TypeOK
  <2>2. ASSUME UNCHANGED alloc_ptr PROVE Bound
    BY <2>2
  <2>3. ASSUME NEW bytes \in Sizes, NEW n \in Nat, NEW aligned \in BOOLEAN,
               n <= bytes + (Align - 1), n > remaining, AllocateFallback(bytes, aligned)
        PROVE  Bound
    <3>1. CASE UNCHANGED alloc_ptr
      BY <3>1
    <3>2. CASE bytes <= q
      BY <2>1, <2>3, <3>2
    <3>3. UNCHANGED alloc_ptr \/ ~Large(bytes)
      BY <2>3 DEF AllocateFallback, FallbackThrows
    <3> QED
      BY <2>1, <3>1, <3>2, <3>3 DEF Large
  <2>4. ASSUME NEW bytes, NEW pad, NEW taken, NEW aligned, Cut(bytes, pad, taken, aligned)
        PROVE  alloc_ptr'.block = alloc_ptr.block
    <3>1. alloc_ptr \in [block : Blocks \cup {NULL}, offset : Nat]
      BY <1>1 DEF IInv, TypeOK
    <3> QED
      BY <2>4, <3>1 DEF Cut
  <2>5. ASSUME NEW bytes \in Sizes, Allocate(bytes) PROVE Bound
    <3>1. bytes \in Nat /\ bytes <= bytes + (Align - 1)
      BY <2>1
    <3>2. \/ Cut(bytes, 0, bytes, FALSE)
          \/ bytes > remaining /\ AllocateFallback(bytes, FALSE)
      BY <2>5 DEF Allocate
    <3> HIDE DEF Bound
    <3>3. ASSUME bytes > remaining, AllocateFallback(bytes, FALSE) PROVE Bound
      BY <2>3, <3>1, <3>3
    <3> QED
      BY <2>4, <3>2, <3>3 DEF Bound
  <2>6. ASSUME NEW bytes \in Sizes, AllocateAligned(bytes) PROVE Bound
    <3>1. Slop \in 0 .. Align - 1 /\ (bytes + Slop) % 2^SizeBits = bytes + Slop
      BY <1>1, SlopAligns DEF IInv
    <3>2. bytes + Slop \in Nat /\ bytes + Slop <= bytes + (Align - 1)
      BY <2>1, <3>1
    <3>3. \/ Cut(bytes, Slop, bytes + Slop, TRUE)
          \/ bytes + Slop > remaining /\ AllocateFallback(bytes, TRUE)
      BY <2>6, <3>1 DEF AllocateAligned
    <3> HIDE DEF Bound
    <3>4. ASSUME bytes + Slop > remaining, AllocateFallback(bytes, TRUE) PROVE Bound
      BY <2>3, <3>2, <3>4
    <3> QED
      BY <2>4, <3>3, <3>4 DEF Bound
  <2> QED
    BY <1>1, <2>2, <2>5, <2>6 DEF Next, Destroy, Destroyed, vars
<1>2. IInv /\ [Next]_vars =>
        [alloc_ptr'.block # alloc_ptr.block => remaining < (BlockSize \div 4) + Align - 1]_vars
  BY <1>1
<1> QED
  BY <1>2, Invariance, PTL DEF Spec, WasteBounded

-----------------------------------------------------------------------------
(* What the arena says it uses.                                            *)

BlockBytes == [b \in Blocks |-> size[b] + PtrSize]

GivenBytes == [x \in allocated |-> x.bytes]

(* What clients were given is accounted for together with what is left of  *)
(* the current block: Allocate moves bytes from the one to the other.      *)
Accounted ==
  /\ IsFiniteSet(allocated)
  /\ ~destroyed =>
       /\ memory_usage = SumFunctionOnSet(BlockBytes, blocks)
       /\ SumFunctionOnSet(GivenBytes, allocated) + remaining <= memory_usage

(* The sums are numbers. *)
LEMMA BytesAdd ==
  ASSUME TypeOK, IsFiniteSet(allocated)
  PROVE  /\ IsFiniteSet(blocks)
         /\ \A b \in Blocks : BlockBytes[b] = size[b] + PtrSize /\ BlockBytes[b] \in Nat
         /\ \A x \in allocated : GivenBytes[x] = x.bytes /\ GivenBytes[x] \in Nat
         /\ SumFunctionOnSet(BlockBytes, blocks) \in Nat
         /\ SumFunctionOnSet(GivenBytes, allocated) \in Nat
<1>1. IsFiniteSet(blocks)
  BY ArenaAssumption, FS_Subset DEF TypeOK
<1>2. \A b \in Blocks : BlockBytes[b] = size[b] + PtrSize /\ BlockBytes[b] \in Nat
  BY ArenaAssumption DEF BlockBytes, TypeOK
<1>3. ASSUME NEW x \in allocated PROVE GivenBytes[x] = x.bytes /\ GivenBytes[x] \in Nat
  <2>1. x \in [block : Blocks \cup {NULL}, from : Nat, bytes : Sizes, aligned : BOOLEAN]
    BY DEF TypeOK
  <2>2. x.bytes \in Sizes
    BY <2>1
  <2>3. \A n \in Sizes : n \in Nat
    BY ArenaAssumption
  <2>4. x.bytes \in Nat
    BY <2>2, <2>3
  <2> QED
    BY <2>4 DEF GivenBytes
<1>4. blocks \subseteq Blocks
  BY DEF TypeOK
<1>5. \A b \in blocks : BlockBytes[b] \in Nat
  BY <1>2, <1>4
<1> QED
  BY <1>1, <1>2, <1>3, <1>5, SumIsNat

(* A new block adds its bytes and the pointer to it. *)
LEMMA BlockAdded ==
  ASSUME TypeOK, NEW b \in Blocks, b \notin blocks, NEW n \in Nat,
         size' = [size EXCEPT ![b] = n], blocks' = blocks \cup {b}
  PROVE  SumFunctionOnSet(BlockBytes, blocks)' =
           SumFunctionOnSet(BlockBytes, blocks) + n + PtrSize
<1> DEFINE f == BlockBytes
           g == BlockBytes'
<1>1. IsFiniteSet(blocks) /\ blocks \subseteq Blocks
  BY ArenaAssumption, FS_Subset DEF TypeOK
<1>2. /\ \A c \in Blocks : f[c] \in Nat
      /\ \A c \in blocks : f[c] = g[c]
      /\ g[b] = n + PtrSize /\ PtrSize \in Nat
      /\ \A c \in blocks \cup {b} : g[c] \in Int
  BY <1>1, ArenaAssumption DEF BlockBytes, TypeOK
<1>3. SumFunctionOnSet(BlockBytes, blocks)' = SumFunctionOnSet(g, blocks \cup {b})
  OBVIOUS
<1> HIDE DEF f, g
<1>4. SumFunctionOnSet(f, blocks) = SumFunctionOnSet(g, blocks)
  BY <1>1, <1>2, SumsEqual
<1>5. SumFunctionOnSet(g, blocks \cup {b}) = g[b] + SumFunctionOnSet(g, blocks)
  BY <1>1, <1>2, SumTakesIn
<1>6. SumFunctionOnSet(f, blocks) \in Nat
  BY <1>1, <1>2, SumIsNat
<1>7. SumFunctionOnSet(g, blocks \cup {b}) = SumFunctionOnSet(f, blocks) + n + PtrSize
  BY <1>2, <1>4, <1>5, <1>6
<1> QED
  BY <1>3, <1>7 DEF f

(* A request adds what was asked for. *)
LEMMA RequestAdded ==
  ASSUME TypeOK, IsFiniteSet(allocated), NEW x, NEW n \in Nat, x.bytes = n,
         x \in allocated => n = 0, allocated' = allocated \cup {x}
  PROVE  /\ IsFiniteSet(allocated')
         /\ SumFunctionOnSet(GivenBytes, allocated)' =
              SumFunctionOnSet(GivenBytes, allocated) + n
<1> DEFINE f == GivenBytes
           g == GivenBytes'
<1>1. /\ \A y \in allocated : f[y] = y.bytes /\ f[y] \in Nat
      /\ SumFunctionOnSet(f, allocated) \in Nat
  BY BytesAdd
<1>2. /\ \A y \in allocated : f[y] = g[y]
      /\ g[x] = n
      /\ \A y \in allocated \cup {x} : g[y] \in Int
  BY <1>1 DEF GivenBytes
<1>3. SumFunctionOnSet(GivenBytes, allocated)' = SumFunctionOnSet(g, allocated \cup {x})
  OBVIOUS
<1> HIDE DEF f, g
<1>4. SumFunctionOnSet(f, allocated) = SumFunctionOnSet(g, allocated)
  BY <1>2, SumsEqual
<1>5. SumFunctionOnSet(g, allocated \cup {x}) = g[x] + SumFunctionOnSet(g, allocated)
  <2>1. CASE x \notin allocated
    BY <1>2, <2>1, SumTakesIn
  <2>2. CASE x \in allocated
    <3>1. allocated \cup {x} = allocated
      BY <2>2
    <3>2. SumFunctionOnSet(g, allocated \cup {x}) = SumFunctionOnSet(g, allocated)
      BY <3>1
    <3>3. PICK total \in Nat : SumFunctionOnSet(g, allocated) = total
      BY <1>1, <1>4
    <3>4. g[x] = 0
      BY <1>2, <2>2
    <3> QED
      BY <3>2, <3>3, <3>4
  <2> QED
    BY <2>1, <2>2
<1>6. SumFunctionOnSet(g, allocated \cup {x}) = SumFunctionOnSet(f, allocated) + n
  BY <1>1, <1>2, <1>4, <1>5
<1>7. IsFiniteSet(allocated')
  BY FS_AddElement
<1> QED
  BY <1>3, <1>6, <1>7 DEF f

(* What is cut off the current block was left of it. *)
LEMMA CutAccounted ==
  ASSUME IInv, Accounted, ~destroyed, NEW bytes \in Sizes, NEW pad \in Nat, NEW aligned,
         bytes + pad <= remaining,
         Cut(bytes, pad, bytes + pad, aligned), UNCHANGED destroyed
  PROVE  Accounted'
<1> DEFINE x == Given(alloc_ptr.block, alloc_ptr.offset + pad, bytes, aligned)
<1>1. /\ allocated' = allocated \cup {x} /\ remaining' = remaining - (bytes + pad)
      /\ UNCHANGED <<size, blocks, memory_usage>>
  BY DEF Cut, Give, block_vars
<1>2. /\ bytes \in Nat /\ remaining \in Nat /\ memory_usage \in Nat
      /\ alloc_ptr.offset \in Nat /\ TypeOK
  BY ArenaAssumption DEF IInv, TypeOK
<1>3. x.bytes = bytes /\ x.from = alloc_ptr.offset + pad /\ x.block = alloc_ptr.block
  BY DEF Given
<1> HIDE DEF x
<1>4. x \in allocated => bytes = 0
  <2> SUFFICES ASSUME x \in allocated PROVE bytes = 0
    OBVIOUS
  <2>1. x.from + x.bytes <= alloc_ptr.offset
    BY <1>3 DEF IInv, CutOff
  <2> QED
    BY <2>1, <1>2, <1>3
<1>5. /\ IsFiniteSet(allocated')
      /\ SumFunctionOnSet(GivenBytes, allocated)' =
           SumFunctionOnSet(GivenBytes, allocated) + bytes
  BY <1>1, <1>2, <1>3, <1>4, RequestAdded DEF Accounted
<1>6. SumFunctionOnSet(GivenBytes, allocated) \in Nat
  BY <1>2, BytesAdd DEF Accounted
<1>7. (SumFunctionOnSet(GivenBytes, allocated) + bytes) + (remaining - (bytes + pad)) <= memory_usage
  BY <1>2, <1>6 DEF Accounted
<1>8. SumFunctionOnSet(BlockBytes, blocks)' = SumFunctionOnSet(BlockBytes, blocks)
  BY <1>1 DEF BlockBytes
<1> QED
  BY <1>1, <1>5, <1>7, <1>8 DEF Accounted

(* A new block accounts for what is given of it and for what is left.      *)
LEMMA NewBlockAccounted ==
  ASSUME IInv, Accounted, ~destroyed, NEW bytes \in Sizes, NEW aligned,
         NEW b \in Blocks, NEW n \in Nat, AllocateNewBlock(b, n), Give(b, 0, bytes, aligned),
         \/ n = bytes /\ remaining' = remaining
         \/ remaining' = n - bytes,
         UNCHANGED destroyed
  PROVE  Accounted'
<1> DEFINE x == Given(b, 0, bytes, aligned)
<1>1. /\ allocated' = allocated \cup {x}
      /\ size[b] = 0 /\ size' = [size EXCEPT ![b] = n]
      /\ blocks' = blocks \cup {b} /\ memory_usage' = memory_usage + n + PtrSize
  BY DEF AllocateNewBlock, Give
<1>2. /\ bytes \in Nat /\ remaining \in Nat /\ memory_usage \in Nat /\ PtrSize \in Nat
      /\ TypeOK
  BY ArenaAssumption DEF IInv, TypeOK
<1>3. x.bytes = bytes /\ x.block = b
  BY DEF Given
<1> HIDE DEF x
<1>4. b \notin blocks /\ x \notin allocated
  BY <1>1, <1>3, ArenaAssumption DEF IInv, CutOff, Contained
<1>5. /\ IsFiniteSet(allocated')
      /\ SumFunctionOnSet(GivenBytes, allocated)' =
           SumFunctionOnSet(GivenBytes, allocated) + bytes
  BY <1>1, <1>2, <1>3, <1>4, RequestAdded DEF Accounted
<1>6. SumFunctionOnSet(BlockBytes, blocks)' =
        SumFunctionOnSet(BlockBytes, blocks) + n + PtrSize
  BY <1>1, <1>2, <1>4, BlockAdded
<1>7. SumFunctionOnSet(GivenBytes, allocated) \in Nat
  BY <1>2, BytesAdd DEF Accounted
<1>8. (SumFunctionOnSet(GivenBytes, allocated) + bytes) + remaining'
        <= memory_usage + n + PtrSize
  BY <1>2, <1>7 DEF Accounted
<1>9. memory_usage' = SumFunctionOnSet(BlockBytes, blocks)'
  BY <1>1, <1>6 DEF Accounted
<1> QED
  BY <1>1, <1>5, <1>8, <1>9 DEF Accounted

(* A request the current block cannot serve, also when it fails. *)
LEMMA FallbackAccounted ==
  ASSUME IInv, Accounted, ~destroyed, UNCHANGED destroyed, NEW bytes \in Sizes, NEW aligned,
         AllocateFallback(bytes, aligned)
  PROVE  Accounted'
<1>1. bytes \in Nat /\ BlockSize \in Nat
  BY ArenaAssumption
<1>2. ASSUME NEW b \in Blocks, Give(b, 0, bytes, aligned),
             AllocateNewBlock(b, bytes), UNCHANGED <<alloc_ptr, remaining>>
      PROVE  Accounted'
  BY <1>1, <1>2, NewBlockAccounted
<1>3. ASSUME NEW b \in Blocks, Give(b, 0, bytes, aligned),
             AllocateNewBlock(b, BlockSize), remaining' = BlockSize - bytes
      PROVE  Accounted'
  BY <1>1, <1>3, NewBlockAccounted
<1>4. CASE FallbackThrows(bytes)
  <2>1. PICK b \in Blocks, n \in {bytes, BlockSize} :
             /\ size[b] = 0 /\ size' = [size EXCEPT ![b] = n]
             /\ UNCHANGED <<blocks, memory_usage, alloc_ptr, remaining, allocated>>
    BY <1>4 DEF FallbackThrows
  <2> DEFINE f == BlockBytes
             g == BlockBytes'
  <2>2. b \notin blocks /\ IsFiniteSet(blocks) /\ \A c \in blocks : f[c] = g[c]
    BY <2>1, BytesAdd DEF IInv, CutOff, TypeOK, BlockBytes, Accounted
  <2>3. SumFunctionOnSet(BlockBytes, blocks)' = SumFunctionOnSet(g, blocks)
    BY <2>1
  <2> HIDE DEF f, g
  <2>4. SumFunctionOnSet(f, blocks) = SumFunctionOnSet(g, blocks)
    BY <2>2, SumsEqual
  <2> USE DEF f
  <2>5. SumFunctionOnSet(BlockBytes, blocks)' = SumFunctionOnSet(BlockBytes, blocks)
    BY <2>3, <2>4
  <2>6. SumFunctionOnSet(GivenBytes, allocated)' = SumFunctionOnSet(GivenBytes, allocated)
    BY <2>1 DEF GivenBytes
  <2> QED
    BY <2>1, <2>5, <2>6 DEF Accounted
<1> QED
  BY <1>2, <1>3, <1>4 DEF AllocateFallback

(* Every step keeps the accounts. *)
LEMMA AccountedStep ==
  ASSUME IInv, Accounted, [Next]_vars
  PROVE  Accounted'
<1>1. CASE UNCHANGED vars
  BY <1>1 DEF vars, block_vars, Accounted, BlockBytes, GivenBytes
<1>2. ASSUME NEW bytes \in Sizes, Allocate(bytes) PROVE Accounted'
  <2>1. ~destroyed /\ UNCHANGED destroyed
    BY <1>2 DEF Allocate
  <2>2. CASE AllocateFallback(bytes, FALSE)
    BY <2>1, <2>2, FallbackAccounted
  <2>3. CASE bytes <= remaining /\ Cut(bytes, 0, bytes, FALSE)
    <3>1. bytes + 0 = bytes
      BY ArenaAssumption
    <3> QED
      BY <2>1, <2>3, <3>1, CutAccounted
  <2> QED
    BY <1>2, <2>2, <2>3 DEF Allocate
<1>3. ASSUME NEW bytes \in Sizes, AllocateAligned(bytes) PROVE Accounted'
  <2>1. ~destroyed /\ UNCHANGED destroyed
    BY <1>3 DEF AllocateAligned
  <2>2. CASE AllocateFallback(bytes, TRUE)
    BY <2>1, <2>2, FallbackAccounted
  <2>3. Slop \in 0 .. Align - 1 /\ Slop \in Nat /\ (bytes + Slop) % 2^SizeBits = bytes + Slop
    BY SlopAligns, ArenaAssumption DEF IInv
  <2>4. CASE bytes + Slop <= remaining /\ Cut(bytes, Slop, bytes + Slop, TRUE)
    <3>1. PICK pad \in Nat : pad = Slop
      BY <2>3
    <3> QED
      BY <2>1, <2>4, <3>1, CutAccounted
  <2> QED
    BY <1>3, <2>2, <2>3, <2>4 DEF AllocateAligned
<1>4. CASE Destroy
  BY <1>4, FS_EmptySet DEF Destroy, Accounted
<1>5. CASE Destroyed
  BY <1>1, <1>5 DEF Destroyed
<1> QED
  BY <1>1, <1>2, <1>3, <1>4, <1>5 DEF Next

(* memory_usage_ is what the blocks take with the pointers to them, and    *)
(* never less than what clients were given, for any sizes they ask for.    *)
THEOREM UsageAgrees == Spec => []UsageExact
<1>1. Init => Accounted
  <2> SUFFICES ASSUME Init PROVE Accounted
    OBVIOUS
  <2>1. blocks = {} /\ allocated = {} /\ memory_usage = 0 /\ remaining = 0
    BY DEF Init
  <2>2. SumFunctionOnSet(BlockBytes, {}) = 0 /\ SumFunctionOnSet(GivenBytes, {}) = 0
    BY SumOfNothing
  <2> QED
    BY <2>1, <2>2, FS_EmptySet DEF Accounted
<1>2. IInv /\ Accounted => UsageExact
  <2> SUFFICES ASSUME IInv, Accounted, ~destroyed PROVE UsageExact
    BY DEF UsageExact
  <2>1. /\ SumFunctionOnSet(GivenBytes, allocated) \in Nat
        /\ remaining \in Nat /\ memory_usage \in Nat
    BY BytesAdd, ArenaAssumption DEF IInv, TypeOK, Accounted
  <2>2. SumFunctionOnSet(GivenBytes, allocated) <= memory_usage
    BY <2>1 DEF Accounted
  <2> QED
    BY <2>2 DEF Accounted, UsageExact, BlockBytes, GivenBytes
<1> QED
  BY <1>1, <1>2, AccountedStep, Invariance, PTL DEF Spec
===============================================================================
