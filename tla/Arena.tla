--------------------------------- MODULE Arena --------------------------------
(***************************************************************************)
(* class Arena of src/util/arena.{h,cc}: memory is cut off the current     *)
(* block, or comes from a new block; all of it is freed by the destructor. *)
(*                                                                         *)
(* A pointer is a block and an offset.  What operator new[] returns is     *)
(* aligned, so an address and its offset are the same modulo Align.        *)
(***************************************************************************)
EXTENDS Integers, FiniteSets, Functions

CONSTANTS
  Blocks,      \* the blocks operator new[] may return
  BlockSize,   \* kBlockSize (4096 in the code)
  Align,       \* align of AllocateAligned (8 in the code)
  PtrSize,     \* sizeof(char*)
  SizeBits,    \* the width of size_t
  Sizes,       \* the sizes clients ask for
  NULL         \* nullptr

(* Only Allocate asserts that the size is not 0.  The largest Align - 1    *)
(* sizes are left out: no client has that much memory to ask for.          *)
ASSUME ArenaAssumption ==
  /\ NULL \notin Blocks /\ IsFiniteSet(Blocks)
  /\ BlockSize \in Nat \ {0} /\ Align \in Nat \ {0} /\ PtrSize \in Nat
  /\ SizeBits \in Nat /\ Sizes \subseteq 0 .. 2^SizeBits - Align

VARIABLES
  size,          \* bytes of each block new[] returned, 0 for the others
  blocks,        \* blocks_
  alloc_ptr,     \* alloc_ptr_
  remaining,     \* alloc_bytes_remaining_
  memory_usage,  \* memory_usage_
  allocated,     \* history: what clients were given
  destroyed      \* the destructor has run

block_vars == <<size, blocks, memory_usage>>
vars == <<block_vars, alloc_ptr, remaining, allocated, destroyed>>

Init ==
  /\ size = [b \in Blocks |-> 0]
  /\ blocks = {}
  /\ alloc_ptr = [block |-> NULL, offset |-> 0]
  /\ remaining = 0
  /\ memory_usage = 0
  /\ allocated = {}
  /\ destroyed = FALSE

-----------------------------------------------------------------------------
Given(b, from, bytes, aligned) ==
  [block |-> b, from |-> from, bytes |-> bytes, aligned |-> aligned]

Give(b, from, bytes, aligned) ==
  allocated' = allocated \cup {Given(b, from, bytes, aligned)}

(* Fault: the pointer to the block is not counted. *)
AllocateNewBlockUncounted(b, bytes) ==
  /\ size[b] = 0
  /\ size' = [size EXCEPT ![b] = bytes]
  /\ blocks' = blocks \cup {b}
  /\ memory_usage' = memory_usage + bytes

AllocateNewBlock(b, bytes) ==
  /\ size[b] = 0
  /\ size' = [size EXCEPT ![b] = bytes]
  /\ blocks' = blocks \cup {b}
  /\ memory_usage' = memory_usage + bytes + PtrSize

(* Fault: only what fits no block gets a block of its own. *)
LargerThanBlock(bytes) == bytes > BlockSize

(* More than a quarter of a block gets a block of its own. *)
Large(bytes) == bytes > BlockSize \div 4

(* Fault: the new block is announced before it is there. *)
FallbackThrowsLate(bytes) ==
  \E b \in Blocks :
    /\ size[b] = 0
    /\ size' = [size EXCEPT ![b] = IF Large(bytes) THEN bytes ELSE BlockSize]
    /\ remaining' = IF Large(bytes) THEN remaining ELSE BlockSize
    /\ UNCHANGED <<blocks, memory_usage, alloc_ptr, allocated>>

(* new[] succeeds and push_back throws: the block is lost, and the arena   *)
(* is as before.  (When new[] throws, nothing happens at all.)             *)
FallbackThrows(bytes) ==
  \E b \in Blocks :
    /\ size[b] = 0
    /\ size' = [size EXCEPT ![b] = IF Large(bytes) THEN bytes ELSE BlockSize]
    /\ UNCHANGED <<blocks, memory_usage, alloc_ptr, remaining, allocated>>

AllocateFallback(bytes, aligned) ==
  \/ \E b \in Blocks :
       /\ Give(b, 0, bytes, aligned)
       /\ \/ /\ Large(bytes)
             /\ AllocateNewBlock(b, bytes)
             /\ UNCHANGED <<alloc_ptr, remaining>>
          \/ /\ ~Large(bytes)
             /\ AllocateNewBlock(b, BlockSize)
             /\ alloc_ptr' = [block |-> b, offset |-> bytes]
             /\ remaining' = BlockSize - bytes
  \/ FallbackThrows(bytes)

(* Fault: the bytes skipped for alignment stay with the block. *)
CutTooLittle(bytes, pad, taken, aligned) ==
  /\ Give(alloc_ptr.block, alloc_ptr.offset + pad, bytes, aligned)
  /\ alloc_ptr' = [alloc_ptr EXCEPT !.offset = @ + bytes]
  /\ remaining' = remaining - bytes
  /\ UNCHANGED block_vars

(* The current block loses the bytes taken; the client gets those after    *)
(* the pad.                                                                *)
Cut(bytes, pad, taken, aligned) ==
  /\ Give(alloc_ptr.block, alloc_ptr.offset + pad, bytes, aligned)
  /\ alloc_ptr' = [alloc_ptr EXCEPT !.offset = @ + taken]
  /\ remaining' = remaining - taken
  /\ UNCHANGED block_vars

Allocate(bytes) ==
  /\ ~destroyed /\ bytes > 0
  /\ \/ bytes <= remaining /\ Cut(bytes, 0, bytes, FALSE)
     \/ bytes > remaining /\ AllocateFallback(bytes, FALSE)
  /\ UNCHANGED destroyed

(* Fault: slop is the misalignment itself. *)
SlopIsMod == alloc_ptr.offset % Align

(* The bytes up to the next aligned address. *)
Slop == LET current_mod == alloc_ptr.offset % Align
        IN  IF current_mod = 0 THEN 0 ELSE Align - current_mod

(* For no bytes it returns alloc_ptr_ when no padding is needed: the end   *)
(* of a full block, or nullptr before there is a block.                    *)
AllocateAligned(bytes) ==
  LET needed == (bytes + Slop) % 2^SizeBits
  IN  /\ ~destroyed
      /\ \/ needed <= remaining /\ Cut(bytes, Slop, needed, TRUE)
         \/ needed > remaining /\ AllocateFallback(bytes, TRUE)
      /\ UNCHANGED destroyed

(* The destructor frees the blocks; what clients were given is gone.       *)
Destroy ==
  /\ ~destroyed /\ destroyed' = TRUE
  /\ size' = [b \in Blocks |-> IF b \in blocks THEN 0 ELSE size[b]]
  /\ blocks' = {} /\ allocated' = {}
  /\ UNCHANGED <<memory_usage, alloc_ptr, remaining>>

Destroyed == destroyed /\ UNCHANGED vars

Next ==
  \/ \E bytes \in Sizes : Allocate(bytes) \/ AllocateAligned(bytes)
  \/ Destroy \/ Destroyed

Spec == Init /\ [][Next]_vars

-----------------------------------------------------------------------------
(* Properties.                                                             *)

(* Every variable keeps its type. *)
TypeOK ==
  /\ size \in [Blocks -> Nat]
  /\ blocks \subseteq Blocks
  /\ alloc_ptr \in [block : Blocks \cup {NULL}, offset : Nat]
  /\ remaining \in 0 .. BlockSize /\ memory_usage \in Nat
  /\ allocated \subseteq [block : Blocks \cup {NULL}, from : Nat, bytes : Sizes,
                         aligned : BOOLEAN]
  /\ destroyed \in BOOLEAN

(* Two requests never share a byte: a client that fills its memory does    *)
(* not change another's, which is what arena_test.cc checks at the end.    *)
Disjoint ==
  \A x, y \in allocated :
    x.block = y.block /\ x # y =>
      x.from + x.bytes <= y.from \/ y.from + y.bytes <= x.from

(* What a client is given lies inside one block that the destructor will   *)
(* free, and so does the rest of the current block, also after a request   *)
(* that failed for want of memory.  Only for no bytes is nullptr returned. *)
Contained ==
  ~destroyed =>
    /\ \A x \in allocated :
         \/ x.block \in blocks /\ x.from + x.bytes <= size[x.block]
         \/ x.block = NULL /\ x.bytes = 0
    /\ \/ alloc_ptr.block = NULL /\ remaining = 0
       \/ /\ alloc_ptr.block \in blocks
          /\ alloc_ptr.offset + remaining <= size[alloc_ptr.block]

(* The assertion of AllocateAligned, in particular the claim of its        *)
(* comment that AllocateFallback always returns aligned memory.            *)
Aligned == \A x \in allocated : x.aligned => x.from % Align = 0

(* memory_usage_ counts the blocks with the pointers to them, and so never *)
(* less than what clients were given.                                      *)
UsageExact ==
  ~destroyed =>
    /\ memory_usage = SumFunctionOnSet([b \in Blocks |-> size[b] + PtrSize], blocks)
    /\ SumFunctionOnSet([x \in allocated |-> x.bytes], allocated) <= memory_usage

(* A block is given up for a new one only when less than a quarter of it,  *)
(* and what alignment may add, is left.                                    *)
WasteBounded ==
  [][alloc_ptr'.block # alloc_ptr.block => remaining < BlockSize \div 4 + Align - 1]_vars
===============================================================================
