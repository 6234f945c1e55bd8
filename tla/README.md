# Verification of learn-leveldb

TLA+ models, TLC runs and TLAPS proofs for the C++ code under `src/` of this
repository: the utility layer of LevelDB (cache, arena, coding, hash, Bloom
filter, random numbers), rewritten as a learning project. Paths below are
relative to that C++ directory (`util/cache.cc` is `src/util/cache.cc`).

## 1. Inventory

| Component | State | Operations | Hard behaviour | Correct when |
|---|---|---|---|---|
| LRU cache shard, `LRUCache` in `util/cache.cc` | `table_`, `lru_`, `in_use_`, `usage_`, reference counts, `mutex_` | `Insert`, `Lookup`, `Release`, `Erase`, `Prune`, `TotalCharge`, destructor | several threads, handles that outlive the lock, entries that outlive the table, eviction under the lock | counts are exact, no entry is freed early or leaked, lists and table agree, eviction is LRU and never takes a referenced entry |
| Handle table, `HandleTable` in `util/cache.cc` | `list_`, `length_`, `elems_`, `next_hash` of the entries | `Lookup`, `Insert`, `Remove`, `Resize` | in-place relinking, hash collisions, growth at the boundary | it is a map from keys to entries, whatever the hash |
| Circular lists, `LRU_Remove` and `LRU_Append` | `next`, `prev` | unlink, append | stale links of removed nodes, dummy heads | they are sequences |
| Sharded cache, `ShardedLRUCache` in `util/cache.cc`, behind `include/leveldb/cache.h` | 16 shards, `last_id_` | the `Cache` interface, `NewId` | calls that visit the shards one lock at a time | keys always meet the same shard; identifiers differ; totals mean something |
| Arena, `util/arena.{h,cc}` | current block, remaining bytes, blocks, usage | `Allocate`, `AllocateAligned`, `MemoryUsage` | block changes, alignment, the size limit | allocations are disjoint, aligned and inside a block |
| Coding, `util/coding.{h,cc}` | none (cursor in the input) | fixed and variable-length integers, length-prefixed slices | truncated and overlong input | decoding inverts encoding and fails cleanly |
| Bloom filter, `util/bloom.cc`, `include/leveldb/filter_policy.h` | bits per key, probes | `CreateFilter`, `KeyMayMatch` | agreement of two separate loops | no false negative |
| Hash, `util/hash.cc` | none | `Hash` | word width, tail bytes | deterministic; every byte counts |
| Random, `util/random.h` | `seed_` | `Next`, `Uniform`, `Skewed` | modular reduction without division | stays in 1 .. 2^31 - 2 |
| Slice, `include/leveldb/slice.h` | pointer, length | views, comparison | none | used by the others |
| Port layer, `port/` | mutex, condition variable | `Lock`, `Unlock`, `Wait`, `Signal` | wrappers of the standard library | as the standard library |
| Tests and experiments, `unittest/`, `try/` | - | - | - | read as documentation |

How they meet: a client calls the sharded cache, which hashes the key (Hash)
and calls one shard; the shard calls its handle table and its two lists under
its mutex, and calls the client's deleter back with the mutex held. The handle
it returns is a pointer to the entry, which the client later uses with no lock:
`Value` reads `value`, and `Release` reads `hash` to choose the shard before the
shard's mutex is taken. The Bloom filter calls Hash; length-prefixed slices use
the variable-length integers; Arena and Random stand alone.

The hazards that the properties are aimed at are listed, each at its line, in
`PROJECT.json` under `hazards`.

## 2. Modules

| Module | What it is |
|---|---|
| `CacheSpec` | abstract: what `include/leveldb/cache.h` promises |
| `LRUCache` | one shard, several threads; refines `CacheSpec` |
| `LRUCacheHistory` | `LRUCache` with a history variable, for when idle entries may exceed the capacity |
| `KeyMap` | abstract: the map a shard takes its hash table for |
| `HandleTable` | the hash table with its chains of pointers; refines `KeyMap` |
| `HandleTableSteps` | `HandleTable` with a history variable, for how long a call takes |
| `LRUList` | `lru_` and `in_use_` with their pointers; spells the sequences of `LRUCache` |
| `ShardedLRUCache` | the shards together: routing, capacity, identifiers, calls that visit all shards |
| `Arena` | the memory allocator |
| `Coding` | integers and strings written to a string of bytes and parsed from a part of it |
| `Bloom` | the Bloom filter policy: creation and matching |
| `Hash` | the hash function |
| `Random` | the random number generator |
| `MCLRUCache`, `MCHandleTable`, `MCLRUList`, `MCShardedLRUCache`, `MCArena`, `MCCoding`, `MCBloom` | values of constants and symmetry for the runs |
| `DataLemmas` | lemmas about natural numbers, sums over finite sets and the sequence operators used for the lists |
| `LRUCacheProofs`, `HandleTableProofs`, `LRUListProofs`, `ShardedLRUCacheProofs`, `ArenaProofs`, `BloomProofs` | the inductive invariants, the theorems and the refinements |
| `UtilProofs` | the same for `Coding` and `Random`, which share the arithmetic of quotients and remainders |

The models of the cache cut the code at its own seams. `LRUCache` takes
`table_` for a map and the lists for sequences; `HandleTable` and `LRUList` look
below these two abstractions at the pointers and show that they hold.
`ShardedLRUCache` stands above: a shard's method is one step of it, which
`MutualExclusion` and `UsageExact` of `LRUCache` justify. `Bloom` takes Hash for
any function from keys to words, and needs nothing more of it.

### CacheSpec

A map from keys to entries, the number of references clients hold on each
entry, and the deletion of entries. Entries appear by `Insert`; a key stops
mapping to its entry by `Forget` (an `Erase`, an eviction, a `Prune` are the
same to a client); an entry is deleted by the `Release` of its last reference,
or by `Destroy` when nobody references it. `Destroy` covers eviction and the
cache's destructor, so it may hit an entry that is still mapped; the key is
then forgotten in the same step. The fairness condition `Reclaim` says that what
is neither mapped nor referenced is deleted in the end. In `PROJECT.json` its definitions
name the methods of `LRUCache` that the header's promises stand for.

### LRUCache

| Variable | In the code |
|---|---|
| `capacity` | `capacity_`, any of `Capacities`; it never changes |
| `live` | the addresses `malloc` returned and `free` has not taken back; addresses are reused |
| `entry` | the fields `key`, `charge`, `in_cache`, `refs` of the `LRUHandle` at an address |
| `table` | `table_`, as the map that its `Lookup` computes |
| `lru` | `lru_`, oldest (`lru_.next`) first |
| `in_use` | `in_use_`; its order is never used |
| `usage` | `usage_` |
| `mutex` | the owner of `mutex_` |
| `pc`, `mine`, `victim` | where a thread is; its `e` or `handle`; the argument of the next `FinishErase` |
| `held` | history: references returned to clients and not yet given back |
| `closing` | the destructor has begun |

A method is split where it carries a pointer from one structure to another:
between `table_.Lookup` and `Ref`, between `table_.Insert` or `table_.Remove`
and `FinishErase`, between two rounds of a loop, and between a client giving up
its handle and `Release` taking the mutex. So the states in which table, lists and
counts disagree exist in the model, and that only the owner of the mutex
sees them is checked, not assumed.

| Code | Actions |
|---|---|
| `Lookup` | `LookupFind`, `LookupRef` |
| `Insert` | `InsertLink` (or `InsertUncached` when the capacity is 0), `InsertFinishErase`, then `InsertEvict` and `InsertFinishEvict` while over capacity, `InsertReturn` |
| `Erase` | `EraseUnlink`, `EraseFinish` |
| `Prune` | `PruneStart`, then `PruneUnlink` and `PruneFinishErase` until `lru_` is empty, `PruneReturn` |
| `Release` | `ReleaseCall` (no lock), `ReleaseUnref` |
| `~LRUCache` | `DestroyStart`, `DestroyEntry` per entry of `lru_` |

Abstractions. The value and the deleter of an entry are not modelled: a handle's
address stands for its value, and the deleter's call is the step that takes the
address out of `live`. `TotalCharge` of a shard reads `usage_` and changes
nothing. Clients follow the interface: they give back only references they were
given, make no call once they have begun to destroy the cache, and their deleters
do not call the cache. The hash of an entry is the shard and bucket it lives in and does not
matter inside one shard; `ShardedLRUCache` and `HandleTable` have it.

Some operators of this and the other modules carry a comment that begins with
*Fault*: they are erroneous variants of a definition that follows them, and no
specification uses them. Each is a mistake that one of the properties is there
to exclude (`PROJECT.json`, `mutants`).

### HandleTable

The variables `list`, `length`, `elems` and `next_hash` are the fields of the same
name (with an underscore in the class), `ptr` is the local of `FindPointer`, and
`new_list`, `i`, `h`, `count` are those of `Resize`. What the code holds in an
`LRUHandle**` is a *slot*: a cell of the array or the `next_hash` field of an entry.
A call runs in steps, one per round of a loop, because the properties are about
the states in the middle of `Resize`, which relinks the chain it is walking. No
second call starts before it returns: the shard's mutex is held.

| Code | Actions |
|---|---|
| `FindPointer` | `LookupStart`, `InsertStart`, `RemoveStart`, then `FindNext` |
| `Lookup`, `Insert`, `Remove` after it | `Lookup`, `Insert`, `Remove` |
| `Resize`, from the constructor and `Insert` | `ResizeStart`, `ResizeBucket`, `ResizeMove`, `ResizeChainEnd`, `ResizeFinish` |

The initial state chooses any function from keys to `HashValues`, so every pattern
of collisions is checked. `hash & (length_ - 1)` is written as a remainder, which
it is as long as `ArraySized`. The `next_hash` field of a removed entry keeps its
value, and the entry may be inserted again, as recycled memory. The least
length, 4 in the code, is the constant `MinLength`. What a pointer leads to (`Chain`) is the least
set closed under `next_hash`, which needs no recursion and is defined for links that loop,
too; `SlotsHolding` are the slots that hold a given entry. `HandleTableSteps` adds `steps`, the
rounds the running call has made since it began.

### LRUList

`next` and `prev` are total functions on entries and dummy heads, so that the stale
links of unlinked and freed entries exist; freed memory may change or
keep its contents. `Removed` and `Appended` are `LRU_Remove` and
`LRU_Append`, assignment by assignment; the actions are the combinations the
cache uses (`Ref`, `Unref`, `FinishErase`, insertion with and without caching, the
last `Unref` of an unlinked entry) and the destructor's loop, which frees the
entry it stands on after it has read its `next`. `order` is a history variable:
the sequences that `LRUCache` keeps instead of pointers.

### ShardedLRUCache

Per shard the table and `lru_`; per thread the locals of the calls that are not
atomic: `Prune` and `TotalCharge` take one lock at a time (`...Start`, `...Shard` per round,
`...Return`), and `NewId` reads and writes `last_id_` in two steps under `id_mutex_`.
Any function from keys to `HashValues` is a hash; the shard is its high
`NumShardBits` bits. `Insert`, `Lookup` and `Erase` compute the hash from the key, and an
entry keeps what `Insert` was given: `Release` chooses the shard by the hash it reads in the entry
(`ReleaseShard`), which for freed memory (`Blank`) is 0. The capacity of a shard is computed with `size_t` arithmetic
of width `SizeBits`. `watch` is a history variable: the entries that have been
idle ever since a running `Prune` began.

### Arena

`alloc_ptr`, `remaining`, `blocks` and `memory_usage` are the fields; `size` is the
heap's view of the blocks, and `allocated` a history variable: the regions clients were
given. An address is a block and an offset; `operator new[]` is external and
returns aligned blocks that do not overlap. `Allocate` and
`AllocateAligned` are one action each, with the fallback inside; `FallbackThrows` is
the case in which `push_back` throws after `new[]` succeeded. Only `Allocate` asserts that
the size is not 0. `AllocateAligned(0)` cuts nothing off but the padding: it returns the end
of what was given so far, or `nullptr` before there is a block. `needed` is
computed modulo the width of `size_t`; the assumption on `Sizes` leaves out the
`Align - 1` largest sizes, for which it wraps. `Cut` is what both calls do when the
current block has room.

### Coding

`dst` is the string the `Put` functions append to; `data` and `size` are the two fields of
the `Slice` that a client makes of a part of it (`Open`) and that the `Get` functions
shorten. The part may begin inside a value and end before a value does, and `dst` may
begin with bytes nobody encoded. `puts` and `got` are history variables: where each
value lies, and what the last `Get` returned. So what the reader sees is any cut of
what the writer wrote, and the two need not agree on the kind of a value.

The encoders follow the branches and loops of the code; a decoding loop, which only
looks for the first byte without the continuation bit, is written as the least
index of such a byte. A byte has one bit more than the `GroupBits` of a
varint (7 in the code), and the widths 32 and 64 are constants. `EncodeVarint64` and `VarintLength`, which
loop until the value is used up, are recursive functions of the value. Clients write no string whose length does
not fit into a `uint32_t` (`StringsAssumption`; see section 5). Pointers handed from
one function to the next are counts of bytes used; `nullptr` is `Failure`. The test
`p + len > limit` of `util/coding.cc:153` is one of sizes in the model (see section 5).

| Code | Actions |
|---|---|
| `PutFixed32`, `PutFixed64`, `PutVarint32`, `PutVarint64`, `PutLengthPrefixedSlice` | of the same name |
| `GetVarint32`, `GetVarint64` (around `GetVarint32Ptr`, `GetVarint64Ptr`) | of the same name |
| `GetLengthPrefixedSlice`, on a slice and on pointers | `GetLengthPrefixedSlice`, `GetLengthPrefixedSlicePtr` |
| `DecodeFixed32`, `DecodeFixed64` | `GetFixed`, for a caller that knows the bytes are there |

### Bloom

`BloomHash` is any function from keys to words, chosen once. A char is the set of its bits
that are one; a word has `Low * High` values, and is rotated by the bits of `Low`.
`CreateFilter` works on `dst`, which may hold other filters or anything else: `Grown` is the
`resize` and the `push_back`, and `Marked` what the loops write through `array`, a pointer
into the whole string (`Array`), so that nothing but the arithmetic keeps them from the chars
in front of it. `filters` is a history variable: where each lies. `KeyMayMatch` is an operator, because it
changes nothing: the properties ask it about every filter in `dst`, cut out
by its owner. What creation and matching compute separately in the code is computed
separately in the model: the number of bits (from the number of keys, or from the length
of the filter) and the number of probes (from the policy, or from the last byte).

### Hash and Random

`Hash` has the loop over words and the switch over the remaining bytes; a word is four
bytes of `ByteBits` bits. The function has no state: the behaviours of the module are those of a client
who makes a key longer, byte by byte up to `MaxLen`, and stand for no code.

`Random` has `seed_` and the result of the last call; its state machine is `RandomInit`, `RandomNext` and
`RandomSpec`, so that one module can prove about it and `Coding`, and `Next_` is the method `Next`. The constants `M` and `A` are 2^31 - 1
and 16807 in the code. `NextSeed` is the shift, the mask and the single
subtraction, in words that hold twice `M + 1` values; the product has 64 bits and
does not wrap. `Skewed` draws twice in one step; `result` names the call, so that `Lehmer` knows how
many draws it made.

## 3. Runs

| Run | Instance | States | Shows |
|---|---|---|---|
| `shard_safety` | 2 threads, 3 keys, 3 addresses, charges 1 and 2, capacity 2 | 109,228 up to symmetry | counts, lists, table and usage agree; eviction takes the oldest idle entry and never a referenced one; when `Insert` returns, what is idle and exceeds the capacity has been released since |
| `shard_refinement` | 2 threads, 2 keys, 3 addresses, charge 1, capacity 0 or 1 | 40,612 | the shard implements `CacheSpec`, cached and uncached; entries are reclaimed; critical sections end |
| `destructor_assertion` | 2 threads, 1 key, 3 addresses, capacity 1 | violation | see findings |
| `table_safety` | 3 keys, 4 entries, hashes 0 to 2, least length 1 | 162,956 up to symmetry | chains never loop or meet, each entry is in its bucket, counts are exact, the table is a map, and a call makes no more rounds than there are entries and buckets |
| `list_pointers` | 4 entries | 233,218 up to symmetry | the pointers spell the sequences, the destructor's walk is right |
| `sharded` | 2 threads, 3 keys, 3 addresses, 2 shards, capacity 0 or 3, 1 identifier | 217,606 up to symmetry | all calls about an entry meet in its shard, identifiers differ, `Prune` misses nothing |
| `sharded_total` | 1 thread, 4 shards | violation | see findings |
| `arena` | 2 blocks of 12 bytes, alignment 4, sizes 0, 3, 4, 7, 13 | 178,713 up to symmetry | regions are disjoint, inside owned blocks and aligned; usage is exact; waste is bounded |
| `coding` | bytes of 4 bits, widths 8 and 16, 8 integers, 3 strings, 16 beginnings | 385,130 | what is written whole is read back, what is cut is refused, on any bytes a `Get` stays in its input and leaves it alone if it fails, with the one exception the property names |
| `bloom` | 3 keys, 4 hash values of 8 bits, 0, 5 or 35 bits per key, 2 filters of up to 2 keys | 34,792 up to symmetry | no false negative; a match has its reason in the keys of the same filter |
| `hash_tail` | keys of up to 5 bytes of 2 bits, 2 seeds | violation | see findings |
| `random` | modulo 127, multiplier 43 | 1,386 | each draw multiplies the seed modulo `M`, two of them in `Skewed` and one in every other call; the seed never gets stuck; results are in range |

Bounds. Two threads, so that one can be inside a method while the other waits for the
mutex with a handle it has given up; a third would wait in the same way, since
nothing tells waiting threads apart. Three keys, so that two idle entries wait
while a third is inserted and the order of eviction shows. Three
addresses with charges 1 and 2 against capacity 2, so that the cache can be full,
or over capacity with everything referenced, that one insert can evict two entries,
and that entries erased while referenced share the memory with cached ones. `MaxRefs` stops
`Lookup` at three references per entry: the code distinguishes 0, 1, 2 and more.
The run with liveness uses no symmetry; its two capacities
are the boundary between caching and not.

In `table_safety` a least length of 1 instead of 4 makes three keys grow the table
from 1 to 2 to 4 buckets: nothing in the code depends on the 4 but the number of
entries at which it grows. Hashes 0, 1 and 2 give chains of up to three entries, keys that part
when the table grows, and keys that stay together. A fourth address lets an entry
displace another while the table is full. In `list_pointers` four entries give lists whose
first, inner and last entries are distinct on one list while the other is not
empty. `sharded` has 2 shards and `sharded_total` 4 instead of 16: with 2 shards
a thread can act on the shard a running `Prune` has passed and on the one
it has not reached. Hashes of three bits tell the high bits, which choose the shard, from the low
ones. Capacity 3 over two shards makes the division round up, and with capacity 0
nothing is cached. `MaxId` bounds the identifiers; one is enough for two threads to be
given the same.

`arena` has a quarter of 3 bytes and alignment 4: requests of 3 bytes, one after the other,
meet every misalignment, and one of them with its slop may exceed what is left when the request alone does
not. 3 and 4 bytes lie on both sides of the quarter, 7 and 13 on both sides of the block, and 0 bytes
may be asked for at every point. Two blocks show every
transition from the current block: to a new current block, to a block of its own and
back, and to a lost block.

`coding` has bytes of four bits, three of them for varints, and words of 8 and 16 bits: a
varint has at most 3 and 6 bytes, and its last byte has room for bits that do not
belong to the word, as the fifth and the tenth byte have in the code. The integers lie
on both sides of one group, of the narrow word and of the longest narrow varint. One of
the strings looks like the beginning of a length, one has a length of two bytes. `MaxBytes` lets a
`Put` begin only before the fourth byte; the values behind each other that this
allows include two of any kind, and a value behind bytes that announce
more. Those bytes (`Overlong`) are 1 to 7 long, on both sides of the longest varints.

`bloom` rotates words of 8 bits by 5, as the code rotates 32 by 17 (to the right). 0 bits per key gives one
probe by the lower limit, 5 bits give three, and 35 bits give 24, which is most of the limit
of 30; two keys of 35 bits need 70, which is rounded up to nine bytes, while the
other sizes are raised to 64. The two keys of a filter may be the same, the third key
is the one that was not inserted, and two filters are enough for one to lie between
another and the beginning, and for both to come from different policies. `random` starts from each argument of
the constructor, the two bad seeds and the arguments the mask changes among them.

Fairness. A thread that holds the mutex keeps running (`WF` on `Continue`), and
so does the destructor; the code has no blocking call inside a critical
section. Nobody is promised the mutex: `std::mutex` is not fair. The
deletion of an unreachable entry therefore needs no other assumption: it is
the last `Release` itself, or the critical section that unlinks the entry, that
deletes it. `HandleTable` needs no fairness: `CallsBounded` gives the number of rounds
after which a call has returned. The other components have no loop that waits and
run inside one call.

### Findings

* `destructor_assertion`. `util/cache.cc:185` comments its assertion with "Error
  if caller has an unreleased handle". The assertion tests `in_use_`, and an
  entry that was erased, displaced or inserted at capacity 0 is on no list while its
  handle is out: the destructor goes on, and the entry survives the cache.
* `sharded_total`. `include/leveldb/cache.h:58` calls `TotalCharge` "an estimate of
  the combined charges of all elements stored in the cache". The loop of
  `util/cache.cc:362` ends at `kNumShardBits`, not `kNumShards`, so with 16 shards it
  adds up 4; the run has one thread, so no concurrent call is to blame.
* `hash_tail`. `util/hash.cc:29` says "pick up remaining bytes". The cases of the switch end in
  a `break`, so of two or three remaining bytes only the last is picked up, and only a
  single remaining byte is mixed in: keys that differ in another byte of the tail have the
  same hash. With cases that fall through the property holds on the same instance.
  Nothing that uses `Hash` becomes wrong by it, only slower: `Bloom`, `ShardedLRUCache`
  and `HandleTable` are checked for hash functions that collide.

## 4. Proofs

`LRUCacheProofs` proves, for all sets of threads, keys and addresses (threads and
addresses finite), all charges, every capacity and every bound `MaxRefs`,
from the assumption `LRUCacheAssumption` only:

| Theorem | States |
|---|---|
| `Invariance` | `IInv` holds in every reachable state |
| `Typing` | `TypeOK` |
| `Exclusion` | `MutualExclusion` |
| `ReferenceCounting` | `RefsExact` |
| `ListMembership` | `ListsExact` |
| `TableAgreement` | `TableExact` |
| `EvictionOrder` | `EvictsOldest` |
| `PointersAreLive` | `NoUseAfterFree` |
| `AssertionsNeverFail` | `AssertionsHold` |
| `NothingLeftBehind` | `DestructorFrees` |
| `PinsHold` | `PinnedStaysCached`: what a client references goes only by an `Erase` or an `Insert` of its own key |
| `OrderOfIdling` | `RecencyKept` |
| `UsageAgrees` | `UsageExact` |
| `InsertTrimsAll` | `TrimmedByInsert`, of `LRUCacheHistory` |
| `ShardKeepsPromise` | `PromiseKept`: every behaviour of `LRUCache` is one of `CacheSpec` |
| `NothingCachedAtZero` | `UncachedOK`: with capacity 0 the table is empty |

None of the safety properties is inductive alone. `IInv` joins them with three
facts about the code's locals: `LocalsOK` (which local is meaningful at which
program point; in particular what `table_.Lookup` returned is still in the table when
it is referenced, because the mutex was never dropped), `KeysOK` (a live entry
has a key) and `ClosingOK` (nothing runs and `in_use_` is empty once the destructor has
begun). The argument turns on two of the parts. `RefsExact` says the count of an
entry is the number of clients, plus the threads that stand for a client
(`Holders`), plus one if cached; so a step that frees an entry because its count
reached zero frees one that nobody can name. `TableExact` allows exactly one
disagreement, the victim of the thread that owns the mutex, which is why
`table_.Remove(old->key())` in the eviction loops returns `old` itself
(`EvictsOldest`), and so the loops make progress.

The proof has one lemma per action (`...Keeps`), which rests on lemmas per helper
(`RefStep`, `UnrefStep`, `FinishEraseStep`) that say what each does to counts and lists, on
`HoldersStep`, which counts how one thread's move changes `Holders`, and on
`DataLemmas` about `RemoveFirst`, `Append` and injective sequences. `PinsHold` and `OrderOfIdling`
are about steps, and follow from the invariant: an action that touches the table
or the lists can only take an entry at the front of `lru_`, which no client holds, and
what it does to the order of the rest is one of `SameOrder`, `RemoveFirstOrder`,
`AppendNewOrder` and `TailOrder` of `DataLemmas`.

`UsageExact` speaks of the entries whose `in_cache` is set, so it changes only where that flag
does: at `InsertLink`, and at the `FinishErase` that follows an unlinking. The lemmas on sums of
`DataLemmas` give the change of the sum, and what remains is that an entry is discounted
with the charge it was counted with, although others come and go meanwhile.

`TrimmedByInsert` holds when nobody has the mutex, and is not inductive: `Prune`, `Erase` and `Release`
change the list inside their critical sections. `TrimmedOutsideInsert` says the same
whenever no `Insert` is running. Inside an `Insert` nothing is claimed; the eviction loop runs while
`lru_` has an entry and the usage exceeds the capacity, so at its end one of the two
is over (`InsertTrims`). Outside, nothing raises `usage_`, and only a `Release` puts an entry on
`lru_`, which counts as released.

The refinement mapping lets a key map to the entry in the table, if that entry is marked
as cached, and takes the clients' references from `held` and the threads that
stand for a client. So a key is forgotten when the table drops it, even if the entry is
freed later, and a new entry exists for clients from the moment `Insert` has linked it.
`SeenAs...` says, one lemma per step of the promise, what a step of the shard must do to
be seen as it; `...Seen`, one lemma per action of `LRUCache`, which it is seen as. `ReleaseUnref`
is the hard one: it is a `Release` when a reference is left or the entry stays
cached, and a last `Release` that deletes the entry otherwise. `UncachedOK` is needed
because `InsertUncached` leaves the table alone: what it returns must not be behind
a key that maps to something else.

`HandleTableProofs` proves, for any finite sets of keys and entries, any hash function and any
power of two as the least length:

| Theorem | States |
|---|---|
| `TypeCorrect` | `TypeOK` |
| `EntriesInTheirBuckets` | `InBucket` |
| `PointedToOnce` | `OneSlotEach` |
| `ElementsCounted` | `ElemsExact` |
| `ArrayIsSized` | `ArraySized` |
| `CallsAreBounded` | `CallsBounded`, of `HandleTableSteps` |
| `TableIsKeyMap` | `IsKeyMap`: every behaviour of `HandleTable` is one of `KeyMap` |

The invariant `IInv` adds four parts to the properties. `ForestOK` says that no two entries are
followed by the same entry and none by the head of a chain, of all the chains of both arrays
during `Resize`; `KeysOK` that the entries have different keys; `ArrayOK` which locals of `Resize`
mean something when; `SearchOK` that a search has not passed the entry it looks for, and
that what `Insert` is about to link is not in the table. `OneSlotEach` follows from the forest.

The argument is about a forest of chains, given by the links and the heads, and has no
recursion: a chain is the least closed set, so to show that a change of a link does to a chain
what it should is to show that the expected set is closed, and is in every closed
set. `UnlinkRoot`, `UnlinkNext`, `LinkRoot` and `LinkNext` say so for the two changes
the code makes, through a pointer to a head or to a `next_hash`; `SlotUnlinked` and
`SlotLinked` put them together for `*ptr`. A round of `Resize` is then an unlinking followed by
a linking. That it finishes with all entries in the new array is `AllMovedNext`.

`CallsBounded` needs a measure, `StepsOK`: the rounds a search has made and the entries still ahead
of `ptr` are together no more than `elems_` (`FindNextShortens`); `Resize` pays with the buckets and
entries it has moved. For the refinement, `ContentsMapKeys` shows that the contents are a
map, because keys differ; `...Maps`, one lemma per kind of step, that it is a request
or an answer of `KeyMap`, or shows nothing of it.

The provers know nothing of exponentiation: that a doubled power of two is one, and that a power of two is
not less than its exponent, is an assumption on constants (`PowersOfTwo`), which TLC evaluates.

`LRUListProofs` proves, for any number of entries and any addresses:

| Theorem | States |
|---|---|
| `LinksSpellOrder` | `Linked` |
| `KeyNeverFails` | `KeyAssertion` |
| `WalkIsRight` | `WalkOnCourse` |
| `Typing` | `TypeOK` |

A list is a circle: a function from positions to nodes, of which the first and
last are the head, and no two others coincide (`NodeFacts`). `AppendedCircles` and
`RemovedCircles` say what each helper does to the circle it works on, and, with the
frame lemma `CircleFrame`, that it leaves the other alone; for this the two
lists must share no entry (`Separate`, which the invariant adds to the properties).
The stale links of nodes on neither list are left arbitrary, so no step of the proof
can use them. `ListsKeep` puts the conjuncts together once for all actions.

`ShardedLRUCacheProofs` proves, for any threads, keys, addresses, hash function, number of
shards and capacity:

| Theorem | States |
|---|---|
| `CallsMeet` | `OneShard` |
| `PruneMissesNothing` | `PruneComplete` |
| `IdsNeverRepeat` | `IdsDistinct` |
| `ShardedTyping` | `TypeOK` |
| `ShareIsRight` | the shares of the shards add up to the capacity asked for, or less than one unit per shard more |

`OneShard` is inductive with the count of references (`Counted`), the types of what it
mentions, and `HashStored`: the hash in an entry is the hash of its key from the `Insert` on
until it is freed, so that the shard `Release` finds is the one the key leads to. That an entry keeps its hash
is shown step by step for every call (`UncachedSameHash`, `HashStays`). As one shard's method is one step here, the lemmas follow what a step
does to the cache: `ForgetKeeps` (entries leave table and list), `CountKeeps` (an
entry gains or loses a reference), `InsertChanges` and `InsertKeeps` (a new entry takes the place of
an old one, and others are evicted).

For `Prune` the invariant `WatchInv` says of the history variable `watch`: what has been idle ever
since the call began is on none of the lists the loop has passed. Other threads
do not disturb it, because no step puts on a list what was idle and is not on
it (`NoneMoves`, proved for each action): an entry comes to a list only by a
`Release`, and then a client held it. With the loop at its end nothing can be left.

The identifiers need the invariant `IdInv`: while a thread is between its read and its write, it
owns `id_mutex_` and `last_id_` is what it has read. `ShareIsRight` is about one number and
needs no run. The provers know nothing of exponentiation; that powers of two are
natural numbers and that the high bits of a hash are the number of a shard are
assumptions on the constants (`ShardedAssumption`), which TLC evaluates.

`ArenaProofs` proves, for any sizes, block size, alignment and width of `size_t`:

| Theorem | States |
|---|---|
| `NoOverlap` | `Disjoint` |
| `InsideBlocks` | `Contained` |
| `AlignmentHolds` | `Aligned` |
| `Typing` | `TypeOK` |
| `LittleIsWasted` | `WasteBounded`: a block is left only when less than a quarter and the padding remains |
| `UsageAgrees` | `UsageExact` |

The invariant adds `CutOff`: in the current block nothing beyond `alloc_ptr_` is in
use (a region of no bytes may end there, which shares no byte with what is given next), and a block of the arena has been returned by `new[]`, so that a block it
returns next is a different one. `LittleIsWasted` is about the step that leaves a block:
only a request of at most a quarter of a block, which did not fit with its slop, makes it.
That clients were given no more than `memory_usage_` counts is not inductive, since `Allocate` gives
and does not count; `Accounted` adds what is left of the current block to what was given.

`BloomProofs` proves, for every hash function, any keys, parameters, word width and
position in the string:

| Theorem | States |
|---|---|
| `NeverDenied` | `NoFalseNegative` |
| `OnlyOwnBits` | `NoStrayBits` |
| `OldBytesStay` | `CreateFilter` changes no char that was in the string before it |

The invariant is `Intact`: every filter is still in `dst` as `Filter` made it for its keys
and some parameter. `Filter` is the filter alone, as a string of its own: `SetInArray` and `MarkedBehind` show that
the writes through `array` stay behind the old chars, and `CreatedIsFilter` that the string grows by just
such a filter, from which `OldBytesStay` follows. The rest is about one filter: `BitPosInArray` (a probe
stays inside the array), `FilterShape` (its length gives back the number of bits, and its
last char the number of probes, for which `CharReadBack` shows that a number up to 255
can be stored as eight bits), and `Asked`: matching is the question whether all probes of the
key are among the bits that were set. Both theorems follow from `Asked`.

`UtilProofs` proves of `Coding`, for any bits per group, any two widths, any integers of these widths,
any strings whose length fits into the prefix, any bytes in front of them and any window the reader is given:

| Theorem | States |
|---|---|
| `ReadBackHolds` | `ReadBack`: what is whole is read back, what is cut is refused |
| `WidthsMixHolds` | `WidthsMix`: what a reader of the other width makes of a varint |
| `GetsStayInside` | `GetsContained`, on any bytes |
| `CodingInvariance` | the invariant below |

The invariant `CodingInv` relates two histories to bytes. `PutsOK`: each value still lies in `dst`, as the
bytes `BytesOf` of its kind. `CursorOK`: what the last `Get` returned is what the decoder of its kind
yields for the bytes from where it began to the end of the input (`IsResult`). Both properties about values
then need no state any more, only what a decoder makes of bytes that agree, as far as they reach, with
those of a value (`ValueIsRead`, `VarintIsRead`, `StringIsRead`).

The heart of these is the expansion of a number in a base `b`. `DigitsAreNumber`: the sum of the first `m`
digits, and `b^m` times the quotient by `b^m`, is the number, by induction on `m` with `DivDiv`. `IsVarint` says
what the bytes of a varint are; `VarintDecodes` that a loop of any width, given a prefix of them and
anything behind, stops at the same byte and joins the same digits, or fails. That the encoders make such
bytes takes an induction on the number of groups (`LoopsMakeVarints`) for the loop of
`EncodeVarint64`, and the comparisons of `EncodeVarint32` for its branches (`Varints32`). `FastPathIsLoop`
shows that the test at the head of `GetVarint32Ptr` changes nothing. `LoopIsContained`, for any bytes, is the part that
`GetsStayInside` needs: a loop looks at no byte behind those it uses, so a length read again from what was
consumed is the same length.

A recursive function of TLA+ is a `CHOOSE`, and says nothing until some function satisfies its
equation. `RecursionExists` gives one for every recursion on a quotient, the limit of functions on
`0 .. n` that agree (`RecursionAgrees`); `EncodeVarint64Loop` and `VarintLengthLoop` are the two equations.
The provers know nothing of exponentiation: that `b^(n + 1)` is `b * b^n`, and that the
groups of a varint have room for its width, is the assumption `Powers` on the constants, which TLC evaluates.

`UtilProofs` proves of `Random`, for any modulus `M` and any multiplier below it, if `M` divides no
product `s * A` with `0 < s < M` (so for every prime, which 2^31 - 1 is; that is not
proved here):

| Theorem | States |
|---|---|
| `IsLehmer` | `Lehmer`: each draw is a multiplication modulo `M`; `Skewed` makes two, every other call one |
| `NeverStuck` | the seed stays in 1 .. M - 1 |
| `CallsStayInRange` | `TypeOK`: also the results of `Uniform`, `OneIn` and `Skewed` are in range |

`NextSeedIsRemainder` is the heart of it: with the product written as `q * (M + 1) + r`, the sum
`q + r` is congruent to it modulo `M`, and is less than `2 * M`, so one subtraction is
enough. That 2^l lies in 1 .. 2^n for l up to n, which bounds `Skewed`, is again an
assumption on constants (`PowersGrow`).

`DataLemmas` has the induction the other proofs share. The library's induction theorems take a
predicate as a parameter, which the provers cannot instantiate; here a predicate is a set. A
nonempty set of natural numbers has a least element (`LeastNatural`), a set of natural numbers that
holds 0 and with each number the next holds all of them (`NaturalsBySteps`), and the same for the finite
parts of a set (`SubsetsBySteps`). From the latter follows what is known of
`SumFunctionOnSet`: it is well defined (`SumIsSums`), a natural number for natural
summands (`SumIsNat`), the same for the same summands (`SumsEqual`), and changes by one summand
when one element comes or goes (`SumTakesIn`, `SumTakesOut`).

Model-checked only:

* `EveryByteCounts` and the other properties that are violated;
* liveness (`PromiseReclaims`, `CriticalSectionEnds`), which is out of the prover's reach, as is
  `ENABLED`.

## 5. Not modelled

Every function of the repository's own code with state or an algorithm is modelled.
The header `include/catch.hpp`, the vendored test framework, has 17,801 of the
19,545 lines of C++ under `src/`; it is no part of the program's logic, and so the modelled
lines are a small share of all lines although they are nearly all of `util/`. Not
modelled are also:

* the tests and the experiments in `try/`, which were read for how the components are used;
* `port::CondVar`, the Snappy stubs and the heap profile stub, which have no caller, and the
  annotations of `port/thread_annotations.h`, which have no effect at run time;
* the comparison, conversion and printing of `Slice`: pure functions of one line, no state;
* running out of memory (`malloc` returning null, unchecked in `Insert`; but `Arena` models
  a `push_back` that throws), deleters that call back into the cache (they would wait for the
  mutex their own caller holds), and numbers that wrap: 2^32 references of one entry; charges that add up to
  2^64 or more, so that `usage_` and the result of `TotalCharge` would be too small (`UsageExact` counts without a
  width); a pointer `p + len` that passes the end of the address space in
  `GetLengthPrefixedSlice`, which a length of 32 bits makes possible only where pointers have 32 bits, too; and
  strings of 2^32 bytes: `PutLengthPrefixedSlice` cuts their length, as its model does, but no client of
  the model writes one (`StringsAssumption`).

`util/coding.h:32` says of the `Get` functions that they "advance the slice past the parsed value",
and nothing of what a failure leaves behind. `GetLengthPrefixedSlice` leaves the slice behind
the length it has read; `GetsContained` states this as it is.

## 6. Plan

Done, in this order: the shard (`CacheSpec`, `LRUCache`) and its proof; the hash
table; the two lists and their proof; the shards together; the arena and its proof;
`Coding`; `Bloom`, `Hash` and `Random`; the proofs of the shard's refinement, of the
filter, of the generator and of the calls of the sharded cache; the lemmas on sums and the
proofs that need them; the proof of the hash table and its refinement; the round trip of `Coding`.

Every safety and action property of a passing run is now a theorem. What is left:

1. `Random`: that `M` divides no product of smaller numbers, now an assumption, from its being prime.
2. `LRUCache` and `LRUList`: the changes of `order` as a refinement with a theorem of its own, each combination
   of `Removed` and `Appended` being the step that `LRUCache` makes with its sequences.
