---------------------------- MODULE ShardedLRUCache ---------------------------
(***************************************************************************)
(* class ShardedLRUCache of src/util/cache.cc: 2^NumShardBits shards, the  *)
(* choice of a shard by the high bits of the hash, identifiers, and the    *)
(* calls that visit the shards one lock at a time.                         *)
(*                                                                         *)
(* A method of one shard is one step: LRUCache shows that its critical     *)
(* sections exclude each other and that usage_ is the charge of what is    *)
(* cached, which is therefore not a variable here.                         *)
(***************************************************************************)
EXTENDS Integers, Sequences, FiniteSets, FiniteSetsExt, SequencesExt

CONSTANTS
  Threads, Keys, Handles,
  Charges,       \* the charges clients insert with
  Capacities,    \* the arguments NewLRUCache may be called with
  NumShardBits,  \* kNumShardBits (4 in the code)
  HashBits,      \* the width of a hash (32 in the code)
  HashValues,    \* the hashes keys may have
  SizeBits,      \* the width of size_t
  MaxRefs,       \* bound: refs of an entry a Lookup may still raise
  MaxId,         \* bound: identifiers handed out
  NULL

NumShards == 2^NumShardBits

Shards == 0 .. NumShards - 1

(* hash >> (32 - kNumShardBits). *)
Shard(x) == x \div 2^(HashBits - NumShardBits)

(* The powers of two are numbers, greater than their exponents, and the    *)
(* high bits of a hash number the shards: the last two conjuncts are facts *)
(* of arithmetic that the provers know nothing of.                         *)
ASSUME ShardedAssumption ==
  /\ NULL \notin Threads \cup Keys \cup Handles
  /\ IsFiniteSet(Threads) /\ IsFiniteSet(Handles)
  /\ Charges \subseteq Nat
  /\ NumShardBits \in Nat /\ HashBits \in Nat /\ NumShardBits <= HashBits
  /\ HashValues \subseteq 0 .. 2^HashBits - 1
  /\ SizeBits \in Nat /\ Capacities \subseteq 0 .. 2^SizeBits - 1
  /\ MaxRefs \in Nat /\ MaxId \in Nat
  /\ {NumShards, 2^SizeBits} \subseteq Nat \ {0} /\ NumShardBits < NumShards
  /\ \A x \in HashValues : Shard(x) \in Shards

VARIABLES
  hash,      \* Hash of each key: any function
  entry,     \* the LRUHandle at each address, Blank when it is free
  capacity,  \* shard_[s].capacity_
  table,     \* shard_[s].table_
  lru,       \* shard_[s].lru_, oldest first
  last_id,   \* last_id_
  id_mutex,  \* owner of id_mutex_, or NULL
  pc,        \* where a thread is
  s,         \* local s of the loops of Prune and TotalCharge
  total,     \* local total of TotalCharge
  id,        \* what ++last_id_ has read in NewId
  held,      \* history: references returned to clients and not given back
  ids,       \* history: how often NewId returned each number
  watch      \* history: the entries idle since a running Prune began

cache == <<entry, table, lru>>
vars == <<hash, capacity, cache, last_id, id_mutex, pc, s, total, id, held, ids, watch>>

Blank == [key |-> NULL, hash |-> 0, charge |-> 0, in_cache |-> FALSE, refs |-> 0]

ShardOf(k) == Shard(hash[k])

(* The share of a shard in the capacity c; the addition wraps. *)
PerShard(c) == ((c + (NumShards - 1)) % 2^SizeBits) \div NumShards

Init ==
  /\ hash \in [Keys -> HashValues]
  /\ entry = [h \in Handles |-> Blank]
  /\ \E c \in Capacities : capacity = [n \in Shards |-> PerShard(c)]
  /\ table = [n \in Shards |-> [k \in Keys |-> NULL]]
  /\ lru = [n \in Shards |-> <<>>]
  /\ last_id = 0 /\ id_mutex = NULL
  /\ pc = [t \in Threads |-> "idle"]
  /\ s = [t \in Threads |-> 0]
  /\ total = [t \in Threads |-> 0]
  /\ id = [t \in Threads |-> 0]
  /\ held = [h \in Handles |-> 0]
  /\ ids = [n \in 1 .. MaxId |-> 0]
  /\ watch = [t \in Threads |-> {}]

-----------------------------------------------------------------------------
(* The shards' methods, each under the lock of its shard.                  *)

ChargeOf(hs) == SumFunctionOnSet([h \in Handles |-> entry[h].charge], hs)

TotalChargeOf(n) == ChargeOf({table[n][k] : k \in Keys} \ {NULL})

Idle == UNION {ToSet(lru[n]) : n \in Shards}

(* FinishErase on each of the entries hs. *)
Uncached(es, hs) ==
  [h \in Handles |->
     IF h \notin hs THEN es[h]
     ELSE IF es[h].refs = 1 THEN Blank
     ELSE [es[h] EXCEPT !.in_cache = FALSE, !.refs = @ - 1]]

Without(tab, hs) == [k \in Keys |-> IF tab[k] \in hs THEN NULL ELSE tab[k]]

(* The loop of Insert ends when the n oldest entries of q are gone. *)
EvictionEnds(q, usage, limit, n) ==
  LET Fits(m) == m = Len(q) \/ usage - ChargeOf(ToSet(SubSeq(q, 1, m))) <= limit
  IN  Fits(n) /\ \A m \in 0 .. n - 1 : ~Fits(m)

(* Entries that a client references now were not idle all the time. *)
Watch ==
  watch' = [t \in Threads |-> watch[t] \cap UNION {ToSet(lru'[n]) : n \in Shards}]

(* Fault: the hash is not stored. *)
NewUnhashed(k, c, cached, refs) ==
  [key |-> k, hash |-> 0, charge |-> c, in_cache |-> cached, refs |-> refs]

(* Fault: the client's reference is not counted. *)
NewUncounted(k, c, cached, refs) ==
  [key |-> k, hash |-> hash[k], charge |-> c, in_cache |-> cached, refs |-> refs - 1]

(* The entry keeps the hash by which its shard was chosen. *)
New(k, c, cached, refs) ==
  [key |-> k, hash |-> hash[k], charge |-> c, in_cache |-> cached, refs |-> refs]

(* With a capacity: the new entry takes the place of the key's old one in  *)
(* the table, and the oldest idle entries go.                              *)
InsertCached(k, c, h) ==
  LET i    == ShardOf(k)
      old  == table[i][k]
      idle == RemoveFirst(lru[i], old)
      more == c + TotalChargeOf(i) - ChargeOf({old} \ {NULL})
  IN  \E n \in 0 .. Len(idle) :
        LET gone == ToSet(SubSeq(idle, 1, n))
        IN  /\ EvictionEnds(idle, more, capacity[i], n)
            /\ entry' = [Uncached(entry, gone \cup {old}) EXCEPT ![h] = New(k, c, TRUE, 2)]
            /\ table' = [table EXCEPT ![i] = [Without(@, gone) EXCEPT ![k] = h]]
            /\ lru' = [lru EXCEPT ![i] = SubSeq(idle, n + 1, Len(idle))]

Insert(t, k, c, h) ==
  /\ pc[t] = "idle"
  /\ entry[h].refs = 0
  /\ IF capacity[ShardOf(k)] > 0
     THEN InsertCached(k, c, h)
     ELSE entry' = [entry EXCEPT ![h] = New(k, c, FALSE, 1)] /\ UNCHANGED <<table, lru>>
  /\ held' = [held EXCEPT ![h] = 1]
  /\ Watch
  /\ UNCHANGED <<hash, capacity, last_id, id_mutex, pc, s, total, id, ids>>

Lookup(t, k) ==
  /\ pc[t] = "idle"
  /\ LET n == ShardOf(k)
         h == table[n][k]
     IN  /\ h # NULL /\ entry[h].refs < MaxRefs
         /\ entry' = [entry EXCEPT ![h].refs = @ + 1]
         /\ lru' = [lru EXCEPT ![n] = RemoveFirst(@, h)]
         /\ held' = [held EXCEPT ![h] = @ + 1]
  /\ Watch
  /\ UNCHANGED <<hash, capacity, table, last_id, id_mutex, pc, s, total, id, ids>>

(* The hash in the entry is read without a lock. *)
ReleaseShard(h) == Shard(entry[h].hash)

Release(t, h) ==
  /\ pc[t] = "idle"
  /\ held[h] > 0
  /\ held' = [held EXCEPT ![h] = @ - 1]
  /\ entry' = [entry EXCEPT ![h] =
                 IF entry[h].refs = 1 THEN Blank ELSE [entry[h] EXCEPT !.refs = @ - 1]]
  /\ lru' = [lru EXCEPT ![ReleaseShard(h)] =
               IF entry[h].in_cache /\ entry[h].refs = 2 THEN Append(@, h) ELSE @]
  /\ Watch
  /\ UNCHANGED <<hash, capacity, table, last_id, id_mutex, pc, s, total, id, ids>>

Erase(t, k) ==
  /\ pc[t] = "idle"
  /\ LET n   == ShardOf(k)
         old == table[n][k]
     IN  /\ entry' = Uncached(entry, {old})
         /\ table' = [table EXCEPT ![n] = Without(@, {old})]
         /\ lru' = [lru EXCEPT ![n] = RemoveFirst(@, old)]
  /\ Watch
  /\ UNCHANGED <<hash, capacity, last_id, id_mutex, pc, s, total, id, held, ids>>

-----------------------------------------------------------------------------
(* Prune and TotalCharge lock one shard after the other.                   *)

Enter(t, label) ==
  /\ pc[t] = "idle"
  /\ pc' = [pc EXCEPT ![t] = label]

Return(t) ==
  /\ pc' = [pc EXCEPT ![t] = "idle"]
  /\ s' = [s EXCEPT ![t] = 0]

PruneStart(t) ==
  /\ Enter(t, "prune")
  /\ watch' = [watch EXCEPT ![t] = Idle]
  /\ UNCHANGED <<hash, capacity, cache, last_id, id_mutex, s, total, id, held, ids>>

PruneShard(t) ==
  /\ pc[t] = "prune" /\ s[t] < NumShards
  /\ LET gone == ToSet(lru[s[t]])
     IN  /\ entry' = Uncached(entry, gone)
         /\ table' = [table EXCEPT ![s[t]] = Without(@, gone)]
         /\ lru' = [lru EXCEPT ![s[t]] = <<>>]
  /\ s' = [s EXCEPT ![t] = @ + 1]
  /\ Watch
  /\ UNCHANGED <<hash, capacity, last_id, id_mutex, pc, total, id, held, ids>>

(* Fault: the last shard is left out. *)
PruneReturnsEarly(t) ==
  /\ pc[t] = "prune" /\ s[t] = NumShards - 1
  /\ Return(t)
  /\ watch' = [watch EXCEPT ![t] = {}]
  /\ UNCHANGED <<hash, capacity, cache, last_id, id_mutex, total, id, held, ids>>

PruneReturn(t) ==
  /\ pc[t] = "prune" /\ s[t] = NumShards
  /\ Return(t)
  /\ watch' = [watch EXCEPT ![t] = {}]
  /\ UNCHANGED <<hash, capacity, cache, last_id, id_mutex, total, id, held, ids>>

TotalChargeStart(t) ==
  /\ Enter(t, "total")
  /\ UNCHANGED <<hash, capacity, cache, last_id, id_mutex, s, total, id, held, ids, watch>>

TotalChargeShard(t) ==
  /\ pc[t] = "total" /\ s[t] < NumShardBits
  /\ total' = [total EXCEPT ![t] = @ + TotalChargeOf(s[t])]
  /\ s' = [s EXCEPT ![t] = @ + 1]
  /\ UNCHANGED <<hash, capacity, cache, last_id, id_mutex, pc, id, held, ids, watch>>

TotalChargeReturn(t) ==
  /\ pc[t] = "total" /\ s[t] = NumShardBits
  /\ Return(t)
  /\ total' = [total EXCEPT ![t] = 0]
  /\ UNCHANGED <<hash, capacity, cache, last_id, id_mutex, id, held, ids, watch>>

-----------------------------------------------------------------------------
(* NewId: ++last_id_ reads and then writes, under id_mutex_.               *)

(* Fault: no lock is taken. *)
NewIdUnlocked(t) ==
  /\ Enter(t, "id")
  /\ last_id < MaxId
  /\ id' = [id EXCEPT ![t] = last_id]
  /\ UNCHANGED <<hash, capacity, cache, last_id, id_mutex, s, total, held, ids, watch>>

NewIdRead(t) ==
  /\ Enter(t, "id")
  /\ id_mutex = NULL /\ id_mutex' = t
  /\ last_id < MaxId
  /\ id' = [id EXCEPT ![t] = last_id]
  /\ UNCHANGED <<hash, capacity, cache, last_id, s, total, held, ids, watch>>

NewIdWrite(t) ==
  /\ pc[t] = "id"
  /\ last_id' = id[t] + 1
  /\ ids' = [ids EXCEPT ![id[t] + 1] = @ + 1]
  /\ id' = [id EXCEPT ![t] = 0]
  /\ id_mutex' = NULL
  /\ Return(t)
  /\ UNCHANGED <<hash, capacity, cache, total, held, watch>>

-----------------------------------------------------------------------------
Next ==
  \E t \in Threads :
    \/ \E k \in Keys :
         \/ Lookup(t, k) \/ Erase(t, k)
         \/ \E c \in Charges, h \in Handles : Insert(t, k, c, h)
    \/ \E h \in Handles : Release(t, h)
    \/ PruneStart(t) \/ PruneShard(t) \/ PruneReturn(t)
    \/ TotalChargeStart(t) \/ TotalChargeShard(t) \/ TotalChargeReturn(t)
    \/ NewIdRead(t) \/ NewIdWrite(t)

Spec == Init /\ [][Next]_vars

-----------------------------------------------------------------------------
(* Properties.                                                             *)

Entry == [key : Keys \cup {NULL}, hash : HashValues \cup {0}, charge : Charges \cup {0},
          in_cache : BOOLEAN, refs : Nat]

(* Every variable keeps its type. *)
TypeOK ==
  /\ hash \in [Keys -> HashValues]
  /\ entry \in [Handles -> Entry]
  /\ capacity \in [Shards -> Nat]
  /\ table \in [Shards -> [Keys -> Handles \cup {NULL}]]
  /\ lru \in [Shards -> Seq(Handles)]
  /\ last_id \in 0 .. MaxId
  /\ id_mutex \in Threads \cup {NULL}
  /\ pc \in [Threads -> {"idle", "prune", "total", "id"}]
  /\ s \in [Threads -> 0 .. NumShards]
  /\ total \in [Threads -> Nat]
  /\ id \in [Threads -> 0 .. MaxId]
  /\ held \in [Handles -> Nat]
  /\ ids \in [1 .. MaxId -> Nat]
  /\ watch \in [Threads -> SUBSET Handles]

CachedIn(n) == {h \in Handles : entry[h].in_cache /\ ShardOf(entry[h].key) = n}

(* All calls about an entry meet in one shard: the table that Insert by    *)
(* key put it in is the one Lookup and Erase search, and Release, which    *)
(* has only the handle and the hash in the entry, moves it to the list of  *)
(* that same shard.                                                        *)
OneShard ==
  /\ \A n \in Shards, k \in Keys : table[n][k] # NULL =>
       n = ShardOf(k) /\ entry[table[n][k]].in_cache /\ entry[table[n][k]].key = k
  /\ \A n \in Shards :
       ToSet(lru[n]) = {h \in CachedIn(n) : entry[h].refs = 1 /\ held[h] = 0}
  /\ \A h \in Handles : entry[h].in_cache =>
       table[ShardOf(entry[h].key)][entry[h].key] = h

(* cache.h:54, "Remove all cache entries that are not actively in use":    *)
(* Prune is not atomic, but when it returns, no entry is left that was     *)
(* idle all the time since the call began.                                 *)
PruneComplete ==
  [][\A t \in Threads : pc[t] = "prune" /\ pc'[t] = "idle" => watch[t] = {}]_vars

(* No number is returned by two calls of NewId. *)
IdsDistinct == \A n \in 1 .. MaxId : ids[n] <= 1

(* cache.h:58, "an estimate of the combined charges of all elements stored *)
(* in the cache": with nothing else running, what TotalCharge returns is   *)
(* the combined charge.                                                    *)
TotalChargeSeesAll ==
  \A t \in Threads :
    pc[t] = "total" /\ s[t] = NumShardBits /\ (\A u \in Threads \ {t} : pc[u] = "idle") =>
      total[t] = ChargeOf({h \in Handles : entry[h].in_cache})
===============================================================================
