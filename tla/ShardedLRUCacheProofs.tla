-------------------------- MODULE ShardedLRUCacheProofs -----------------------
(***************************************************************************)
(* Calls about an entry meet in one shard, Prune misses nothing,           *)
(* identifiers are distinct, and the share of a shard is right, for any    *)
(* threads, keys, addresses, hash functions, shards and capacities.        *)
(***************************************************************************)
EXTENDS ShardedLRUCache, DataLemmas

(* What NewId relies on: its lock, and that last_id_ has not changed since *)
(* the owner of the lock read it.  Exactly the numbers up to last_id_ have *)
(* been handed out, once each.                                             *)
IdInv ==
  /\ last_id \in Nat
  /\ pc \in [Threads -> {"idle", "prune", "total", "id"}]
  /\ id \in [Threads -> Nat]
  /\ \A t \in Threads : pc[t] = "id" =>
       id_mutex = t /\ id[t] = last_id /\ last_id < MaxId
  /\ ids = [n \in 1 .. MaxId |-> IF n <= last_id THEN 1 ELSE 0]

(* An empty cache has handed out no identifier. *)
LEMMA IdInvInit == Init => IdInv
BY ShardedAssumption DEF Init, IdInv

(* Calls that do not end in NewId leave its variables alone. *)
LEMMA OtherCallsKeep ==
  ASSUME IdInv, NEW t \in Threads, NEW p \in {"idle", "prune", "total"},
         UNCHANGED <<last_id, id_mutex, id, ids>>,
         pc[t] # "id", pc' = pc \/ pc' = [pc EXCEPT ![t] = p]
  PROVE  IdInv'
BY DEF IdInv

(* Every step of every thread preserves the invariant. *)
LEMMA IdInvStep == IdInv /\ [Next]_vars => IdInv'
<1> SUFFICES ASSUME IdInv, [Next]_vars PROVE IdInv'
  OBVIOUS
<1>1. CASE UNCHANGED vars
  BY <1>1 DEF vars, cache, IdInv
<1>2. ASSUME NEW t \in Threads,
             \/ \E k \in Keys : Lookup(t, k) \/ Erase(t, k)
             \/ \E k \in Keys, c \in Charges, h \in Handles : Insert(t, k, c, h)
             \/ \E h \in Handles : Release(t, h)
      PROVE  IdInv'
  <2>1. UNCHANGED <<last_id, id_mutex, id, ids, pc>> /\ pc[t] = "idle"
    BY <1>2 DEF Lookup, Erase, Insert, Release
  <2> QED
    BY <2>1, OtherCallsKeep
<1>3. ASSUME NEW t \in Threads,
             \/ PruneStart(t) \/ PruneShard(t) \/ PruneReturn(t)
             \/ TotalChargeStart(t) \/ TotalChargeShard(t) \/ TotalChargeReturn(t)
      PROVE  IdInv'
  <2>1. UNCHANGED <<last_id, id_mutex, id, ids>> /\ pc[t] # "id"
    BY <1>3 DEF PruneStart, PruneShard, PruneReturn, TotalChargeStart,
                TotalChargeShard, TotalChargeReturn, Enter
  <2>2. \E p \in {"idle", "prune", "total"} : pc' = pc \/ pc' = [pc EXCEPT ![t] = p]
    BY <1>3 DEF PruneStart, PruneShard, PruneReturn, TotalChargeStart,
                TotalChargeShard, TotalChargeReturn, Enter, Return
  <2> QED
    BY <2>1, <2>2, OtherCallsKeep
<1>4. ASSUME NEW t \in Threads, NewIdRead(t) PROVE IdInv'
  <2>1. \A u \in Threads : pc[u] # "id"
    BY <1>4, ShardedAssumption DEF NewIdRead, IdInv
  <2> QED
    BY <1>4, <2>1 DEF NewIdRead, Enter, IdInv
<1>5. ASSUME NEW t \in Threads, NewIdWrite(t) PROVE IdInv'
  <2>1. id[t] = last_id /\ last_id \in Nat /\ last_id < MaxId /\ MaxId \in Nat
    BY <1>5, ShardedAssumption DEF NewIdWrite, IdInv
  <2>2. \A u \in Threads \ {t} : pc[u] # "id"
    BY <1>5 DEF NewIdWrite, IdInv
  <2>3. last_id' = last_id + 1 /\ ids' = [ids EXCEPT ![last_id + 1] = @ + 1]
    BY <1>5, <2>1 DEF NewIdWrite
  <2>4. ids' = [n \in 1 .. MaxId |-> IF n <= last_id' THEN 1 ELSE 0]
    <3>1. last_id + 1 \in 1 .. MaxId /\ ids[last_id + 1] = 0
      BY <2>1 DEF IdInv
    <3>2. \A n \in 1 .. MaxId : ids'[n] = IF n <= last_id + 1 THEN 1 ELSE 0
      BY <2>1, <2>3, <3>1 DEF IdInv
    <3>3. ids' = [n \in 1 .. MaxId |-> ids'[n]]
      BY <2>3 DEF IdInv
    <3> QED
      BY <2>3, <3>2, <3>3
  <2>5. /\ pc' \in [Threads -> {"idle", "prune", "total", "id"}]
        /\ id' \in [Threads -> Nat]
        /\ \A u \in Threads : pc'[u] # "id"
    BY <1>5, <2>2 DEF NewIdWrite, Return, IdInv
  <2>6. last_id' \in Nat
    BY <2>1, <2>3
  <2> QED
    BY <2>4, <2>5, <2>6 DEF IdInv
<1> QED
  BY <1>1, <1>2, <1>3, <1>4, <1>5 DEF Next

(* No two calls of NewId return the same number, however many threads call *)
(* it: id_mutex_ keeps the read and the write of ++last_id_ together.      *)
THEOREM IdsNeverRepeat == Spec => []IdsDistinct
<1>1. IdInv => IdsDistinct
  BY DEF IdInv, IdsDistinct
<1> QED
  BY <1>1, IdInvInit, IdInvStep, PTL DEF Spec

(* Rounding a quotient up covers the dividend with less than one divisor   *)
(* to spare.                                                               *)
LEMMA RoundedUp ==
  ASSUME NEW c \in Nat, NEW n \in Nat, n > 0
  PROVE  n * ((c + (n - 1)) \div n) \in c .. c + n - 1
<1> DEFINE m == c + (n - 1)
<1>1. m \in Nat
  OBVIOUS
<1>2. m = n * (m \div n) + (m % n) /\ 0 <= m % n /\ m % n < n /\ m \div n \in Int
  BY <1>1
<1>3. n * (m \div n) \in Int
  BY <1>2
<1> QED
  BY <1>1, <1>2, <1>3

(* The share the constructor gives a shard, times the number of shards, is *)
(* the capacity asked for or less than one unit per shard more, unless the *)
(* rounding wraps.                                                         *)
THEOREM ShareIsRight ==
  ASSUME NEW c \in Capacities, c + (NumShards - 1) < 2^SizeBits
  PROVE  NumShards * PerShard(c) \in c .. c + NumShards - 1
<1> DEFINE size == 2^SizeBits
<1>1. c \in Nat /\ size \in Nat /\ NumShards \in Nat \ {0} /\ c + (NumShards - 1) < size
  BY ShardedAssumption
<1> HIDE DEF size
<1>2. (c + (NumShards - 1)) % size = c + (NumShards - 1)
  BY <1>1
<1>3. PerShard(c) = (c + (NumShards - 1)) \div NumShards
  BY <1>2 DEF PerShard, size
<1> QED
  BY <1>1, <1>3, RoundedUp
-----------------------------------------------------------------------------
(* One shard for all calls about an entry.                                 *)

(* An entry is referenced by its clients, and by the cache if it is cached *)
(* there; what is referenced has a key.                                    *)
Counted ==
  \A h \in Handles :
    /\ entry[h].refs = held[h] + (IF entry[h].in_cache THEN 1 ELSE 0)
    /\ entry[h].refs > 0 => entry[h].key \in Keys

ShardTypes ==
  /\ hash \in [Keys -> HashValues]
  /\ entry \in [Handles -> Entry]
  /\ table \in [Shards -> [Keys -> Handles \cup {NULL}]]
  /\ lru \in [Shards -> Seq(Handles)]
  /\ held \in [Handles -> Nat]
  /\ \A n \in Shards : IsInjective(lru[n])

CacheInv == ShardTypes /\ Counted /\ OneShard

(* Every key has a shard. *)
LEMMA ShardOfKey ==
  ASSUME ShardTypes, NEW k \in Keys
  PROVE  ShardOf(k) \in Shards
BY ShardedAssumption DEF ShardTypes, ShardOf

(* An empty cache. *)
LEMMA CacheInvInit == Init => CacheInv
<1> SUFFICES ASSUME Init PROVE CacheInv
  OBVIOUS
<1>1. ShardTypes
  <2>1. <<>> \in Seq(Handles) /\ IsInjective(<<>>) /\ Blank \in Entry
    BY DEF IsInjective, Blank, Entry
  <2> QED
    BY <2>1 DEF Init, ShardTypes, Entry
<1>2. Counted
  BY DEF Init, Counted, Blank
<1>3. OneShard
  BY DEF Init, OneShard, CachedIn, Blank, ToSet
<1> QED
  BY <1>1, <1>2, <1>3 DEF CacheInv

(* What FinishErase does to an entry, one by one. *)
LEMMA UncachedEntry ==
  ASSUME ShardTypes, Counted, NEW F, NEW h \in Handles, h \in F => entry[h].in_cache
  PROVE  LET e == Uncached(entry, F)[h]
         IN  /\ e \in Entry
             /\ h \notin F => e = entry[h]
             /\ h \in F => ~e.in_cache /\ e.refs = held[h]
             /\ e.refs > 0 => e.key \in Keys
<1> DEFINE e == Uncached(entry, F)[h]
           o == entry[h]
           c == held[h]
<1>1. /\ o \in Entry /\ c \in Nat
      /\ o.refs = c + (IF o.in_cache THEN 1 ELSE 0)
      /\ o.refs > 0 => o.key \in Keys
      /\ h \in F => o.in_cache
  BY DEF ShardTypes, Counted, Entry
<1>2. e = IF h \notin F THEN o
          ELSE IF o.refs = 1 THEN Blank
          ELSE [o EXCEPT !.in_cache = FALSE, !.refs = @ - 1]
  BY DEF Uncached
<1> HIDE DEF e, o, c
<1> SUFFICES /\ e \in Entry
             /\ h \notin F => e = o
             /\ h \in F => ~e.in_cache /\ e.refs = c
             /\ e.refs > 0 => e.key \in Keys
  BY DEF e, o, c
<1>3. CASE h \notin F
  BY <1>1, <1>2, <1>3
<1>4. CASE h \in F /\ o.refs = 1
  BY <1>1, <1>2, <1>4 DEF Entry, Blank
<1>5. CASE h \in F /\ o.refs # 1
  <2>1. o.refs = c + 1 /\ o.refs > 0 /\ c = o.refs - 1
    BY <1>1, <1>5
  <2>2. /\ o.key \in Keys /\ o.hash \in HashValues \cup {0}
        /\ o.charge \in Charges \cup {0} /\ c \in Nat
    BY <1>1, <2>1 DEF Entry
  <2>3. e = [o EXCEPT !.in_cache = FALSE, !.refs = o.refs - 1]
    BY <1>2, <1>5
  <2>4. e = [key |-> o.key, hash |-> o.hash, charge |-> o.charge, in_cache |-> FALSE, refs |-> c]
    BY <1>1, <2>1, <2>3 DEF Entry
  <2>5. e \in Entry
    BY <2>2, <2>4 DEF Entry
  <2> QED
    BY <1>5, <2>2, <2>4, <2>5
<1> QED
  BY <1>3, <1>4, <1>5

(* A shard that drops some of its entries from table and list.             *)
LEMMA ForgetKeeps ==
  ASSUME CacheInv, NEW n \in Shards, NEW F, F \cap Handles \subseteq CachedIn(n),
         entry' = Uncached(entry, F), table' = [table EXCEPT ![n] = Without(@, F)],
         NEW q \in Seq(Handles), IsInjective(q), ToSet(q) = ToSet(lru[n]) \ F,
         lru' = [lru EXCEPT ![n] = q],
         UNCHANGED <<hash, held>>
  PROVE  CacheInv'
<1>1. ASSUME NEW h \in Handles
      PROVE  /\ entry'[h] \in Entry
             /\ h \notin F => entry'[h] = entry[h]
             /\ h \in F => ~entry'[h].in_cache /\ entry'[h].refs = held[h]
             /\ entry'[h].refs > 0 => entry'[h].key \in Keys
  <2>1. h \in F => entry[h].in_cache
    BY DEF CachedIn
  <2> QED
    BY <2>1, UncachedEntry DEF CacheInv
<1>2. \A k \in Keys : table'[n][k] = IF table[n][k] \in F THEN NULL ELSE table[n][k]
  BY DEF CacheInv, ShardTypes, Without
<1>3. \A m \in Shards \ {n} : table'[m] = table[m] /\ lru'[m] = lru[m]
  BY DEF CacheInv, ShardTypes
<1>4. lru'[n] = q
  BY DEF CacheInv, ShardTypes
<1>5. ShardTypes'
  <2>1. entry' \in [Handles -> Entry]
    BY <1>1 DEF Uncached
  <2>2. table' \in [Shards -> [Keys -> Handles \cup {NULL}]]
    BY DEF CacheInv, ShardTypes, Without
  <2>3. lru' \in [Shards -> Seq(Handles)] /\ \A m \in Shards : IsInjective(lru'[m])
    BY <1>3, <1>4 DEF CacheInv, ShardTypes
  <2> QED
    BY <2>1, <2>2, <2>3 DEF CacheInv, ShardTypes, Entry
<1>6. Counted'
  BY <1>1 DEF CacheInv, ShardTypes, Counted
<1>7. \A k \in Keys : ShardOf(k)' = ShardOf(k)
  BY DEF ShardOf
<1>8. \A m \in Shards : CachedIn(m)' = CachedIn(m) \ F
  BY <1>1 DEF CachedIn, ShardOf
<1>9. OneShard'
  <2>1. ASSUME NEW m \in Shards, NEW k \in Keys, table'[m][k] # NULL
        PROVE  /\ m = ShardOf(k) /\ entry'[table'[m][k]].in_cache
               /\ entry'[table'[m][k]].key = k
    <3>1. table'[m][k] = table[m][k] /\ table[m][k] \in Handles
      BY <1>2, <1>3, <2>1 DEF CacheInv, ShardTypes
    <3>2. m = ShardOf(k) /\ entry[table[m][k]].in_cache /\ entry[table[m][k]].key = k
      BY <2>1, <3>1 DEF CacheInv, OneShard
    <3>3. table[m][k] \notin F
      <4>1. CASE m = n
        BY <1>2, <2>1, <4>1
      <4>2. CASE m # n
        BY <3>1, <3>2, <4>2 DEF CachedIn
      <4> QED
        BY <4>1, <4>2
    <3> QED
      BY <1>1, <3>1, <3>2, <3>3
  <2>2. ASSUME NEW m \in Shards
        PROVE  ToSet(lru'[m]) = {h \in CachedIn(m)' : entry'[h].refs = 1 /\ held'[h] = 0}
    <3>1. ToSet(lru[m]) = {h \in CachedIn(m) : entry[h].refs = 1 /\ held[h] = 0}
      BY DEF CacheInv, OneShard
    <3>2. ToSet(lru'[m]) = ToSet(lru[m]) \ F
      <4>1. CASE m = n
        BY <1>4, <4>1
      <4>2. CASE m # n
        BY <1>3, <3>1, <4>2 DEF CachedIn
      <4> QED
        BY <4>1, <4>2
    <3> QED
      BY <1>1, <1>8, <3>1, <3>2 DEF CachedIn
  <2>3. ASSUME NEW h \in Handles, entry'[h].in_cache
        PROVE  table'[ShardOf(entry'[h].key)][entry'[h].key] = h
    <3>1. h \notin F /\ entry'[h] = entry[h]
      BY <1>1, <2>3
    <3>2. table[ShardOf(entry[h].key)][entry[h].key] = h
      BY <2>3, <3>1 DEF CacheInv, OneShard
    <3>3. entry[h].key \in Keys
      BY <2>3, <3>1 DEF CacheInv, Counted, ShardTypes, Entry
    <3>4. ShardOf(entry[h].key) \in Shards
      BY <3>3, ShardOfKey DEF CacheInv
    <3> QED
      BY <1>2, <1>3, <3>1, <3>2, <3>3, <3>4
  <2> QED
    BY <1>7, <2>1, <2>2, <2>3 DEF OneShard, ShardOf
<1> QED
  BY <1>5, <1>6, <1>9 DEF CacheInv

(* An entry gains or loses a reference, or comes into being uncached: the  *)
(* tables stay, and only the list q of its shard changes.                  *)
Recounted(h, e, c, n, q) ==
  /\ entry' = [entry EXCEPT ![h] = e] /\ held' = [held EXCEPT ![h] = c]
  /\ UNCHANGED <<hash, table>>
  /\ e.in_cache = entry[h].in_cache
  /\ e.in_cache => e.key = entry[h].key /\ n = ShardOf(e.key)
  /\ e.refs = c + (IF e.in_cache THEN 1 ELSE 0)
  /\ e.refs > 0 => e.key \in Keys
  /\ lru' = [lru EXCEPT ![n] = q]
  /\ ToSet(q) \ {h} = ToSet(lru[n]) \ {h}
  /\ h \in ToSet(q) <=> e.in_cache /\ c = 0

(* Such a step leaves table, lists and counts in agreement. *)
LEMMA CountKeeps ==
  ASSUME CacheInv, NEW h \in Handles, NEW e \in Entry, NEW c \in Nat, NEW n \in Shards,
         NEW q \in Seq(Handles), IsInjective(q), Recounted(h, e, c, n, q)
  PROVE  CacheInv'
<1> USE DEF Recounted
<1>1. /\ entry'[h] = e /\ held'[h] = c
      /\ \A g \in Handles \ {h} : entry'[g] = entry[g] /\ held'[g] = held[g]
  BY DEF CacheInv, ShardTypes
<1>2. lru'[n] = q /\ \A m \in Shards \ {n} : lru'[m] = lru[m]
  BY DEF CacheInv, ShardTypes
<1>3. ShardTypes'
  BY <1>2 DEF CacheInv, ShardTypes, Entry
<1>4. Counted'
  BY <1>1 DEF CacheInv, Counted
<1>5. \A g \in Handles : /\ entry'[g].in_cache <=> entry[g].in_cache
                         /\ entry[g].in_cache => entry'[g].key = entry[g].key
  BY <1>1
<1>6. \A m \in Shards : CachedIn(m)' = CachedIn(m)
  BY <1>5 DEF CachedIn, ShardOf
<1>7. ASSUME NEW m \in Shards
      PROVE  ToSet(lru'[m]) = {g \in CachedIn(m)' : entry'[g].refs = 1 /\ held'[g] = 0}
  <2>1. ToSet(lru[m]) = {g \in CachedIn(m) : entry[g].refs = 1 /\ held[g] = 0}
    BY DEF CacheInv, OneShard
  <2>2. ToSet(lru'[m]) \ {h} = ToSet(lru[m]) \ {h}
    <3>1. CASE m = n
      BY <1>2, <3>1
    <3>2. CASE m # n
      BY <1>2, <3>2
    <3> QED
      BY <3>1, <3>2
  <2>3. h \in ToSet(lru'[m]) <=> m = n /\ e.in_cache /\ c = 0
    <3>1. CASE m = n
      BY <1>2, <3>1
    <3>2. CASE m # n
      <4>1. h \in CachedIn(m) => FALSE
        BY <3>2 DEF CachedIn
      <4> QED
        BY <1>2, <2>1, <3>2, <4>1
    <3> QED
      BY <3>1, <3>2
  <2>4. h \in CachedIn(m) <=> m = n /\ e.in_cache
    BY DEF CachedIn
  <2>5. e.in_cache /\ c = 0 => e.refs = 1
    OBVIOUS
  <2> QED
    BY <1>1, <1>6, <2>1, <2>2, <2>3, <2>4, <2>5 DEF CachedIn
<1>8. \A m \in Shards, k \in Keys : table'[m][k] # NULL =>
        /\ m = ShardOf(k)' /\ entry'[table'[m][k]].in_cache
        /\ entry'[table'[m][k]].key = k
  <2> SUFFICES ASSUME NEW m \in Shards, NEW k \in Keys, table[m][k] # NULL
               PROVE  /\ m = ShardOf(k) /\ entry'[table[m][k]].in_cache
                      /\ entry'[table[m][k]].key = k
    BY DEF ShardOf
  <2>1. table[m][k] \in Handles
    BY DEF CacheInv, ShardTypes
  <2> QED
    BY <1>5, <2>1 DEF CacheInv, OneShard
<1>9. \A g \in Handles : entry'[g].in_cache =>
        table'[ShardOf(entry'[g].key)][entry'[g].key] = g
  BY <1>5 DEF CacheInv, OneShard
<1>10. OneShard'
  BY <1>7, <1>8, <1>9 DEF OneShard, ShardOf
<1> QED
  BY <1>3, <1>4, <1>10 DEF CacheInv

(* The entry h takes the key's place in the table of shard n, and the      *)
(* entries in F, the displaced one among them, are no longer cached.       *)
Displaced(k, c, h, n, F, q) ==
  /\ table[n][k] \in F /\ F \cap Handles \subseteq CachedIn(n)
  /\ entry'[h] = New(k, c, TRUE, 2) /\ held'[h] = 1
  /\ \A g \in Handles \ {h} :
       /\ held'[g] = held[g]
       /\ g \notin F => entry'[g] = entry[g]
       /\ g \in F => ~entry'[g].in_cache /\ entry'[g].refs = held[g]
       /\ entry'[g].refs > 0 => entry'[g].key \in Keys
  /\ table'[n][k] = h
  /\ \A j \in Keys \ {k} :
       table'[n][j] = IF table[n][j] \in F THEN NULL ELSE table[n][j]
  /\ \A m \in Shards \ {n} : table'[m] = table[m] /\ lru'[m] = lru[m]
  /\ lru'[n] = q

(* What a caching Insert changes, entry by entry and key by key.           *)
LEMMA InsertChanges ==
  ASSUME CacheInv, NEW k \in Keys, NEW c \in Charges, NEW h \in Handles, entry[h].refs = 0,
         NEW n, n = ShardOf(k), NEW G, G \cap Handles \subseteq CachedIn(n),
         entry' = [Uncached(entry, G \cup {table[n][k]}) EXCEPT ![h] = New(k, c, TRUE, 2)],
         table' = [table EXCEPT ![n] = [Without(@, G) EXCEPT ![k] = h]],
         NEW q \in Seq(Handles), IsInjective(q), lru' = [lru EXCEPT ![n] = q],
         held' = [held EXCEPT ![h] = 1], UNCHANGED hash
  PROVE  ShardTypes' /\ Displaced(k, c, h, n, G \cup {table[n][k]}, q)
<1> DEFINE F == G \cup {table[n][k]}
<1>1. n \in Shards /\ NULL \notin Handles
  BY ShardOfKey, ShardedAssumption DEF CacheInv
<1>2. F \cap Handles \subseteq CachedIn(n)
  <2>1. table[n][k] \in Handles => table[n][k] \in CachedIn(n)
    BY <1>1 DEF CacheInv, OneShard, CachedIn
  <2> QED
    BY <2>1
<1>5. ASSUME NEW g \in Handles \ {h}
      PROVE  /\ entry'[g] \in Entry /\ held'[g] = held[g]
             /\ g \notin F => entry'[g] = entry[g]
             /\ g \in F => ~entry'[g].in_cache /\ entry'[g].refs = held[g]
             /\ entry'[g].refs > 0 => entry'[g].key \in Keys
  <2>1. g \in F => entry[g].in_cache
    BY <1>2 DEF CachedIn
  <2>2. entry'[g] = Uncached(entry, F)[g]
    BY DEF Uncached
  <2>3. held'[g] = held[g]
    BY DEF CacheInv, ShardTypes
  <2> QED
    BY <2>1, <2>2, <2>3, UncachedEntry DEF CacheInv
<1>6. entry'[h] = New(k, c, TRUE, 2) /\ held'[h] = 1
  BY DEF Uncached, CacheInv, ShardTypes
<1>7. /\ table'[n][k] = h
      /\ \A j \in Keys \ {k} :
           table'[n][j] = IF table[n][j] \in F THEN NULL ELSE table[n][j]
      /\ \A m \in Shards \ {n} : table'[m] = table[m]
  <2>1. ASSUME NEW j \in Keys \ {k}
        PROVE  table[n][j] \in F => table[n][j] \in G \/ table[n][j] = NULL
    BY <1>1 DEF CacheInv, OneShard
  <2>2. table'[n] = [Without(table[n], G) EXCEPT ![k] = h]
    BY <1>1 DEF CacheInv, ShardTypes
  <2>3. \A m \in Shards \ {n} : table'[m] = table[m]
    BY <1>1 DEF CacheInv, ShardTypes
  <2>4. \A j \in Keys \ {k} :
          table'[n][j] = IF table[n][j] \in G THEN NULL ELSE table[n][j]
    BY <2>2 DEF Without
  <2>5. table'[n][k] = h
    BY <2>2 DEF Without
  <2> QED
    BY <2>1, <2>3, <2>4, <2>5
<1>8. lru'[n] = q /\ \A m \in Shards \ {n} : lru'[m] = lru[m]
  BY <1>1 DEF CacheInv, ShardTypes
<1>9. ShardTypes'
  <2>1. entry' \in [Handles -> Entry]
    <3>1. New(k, c, TRUE, 2) \in Entry
      BY DEF Entry, New, CacheInv, ShardTypes
    <3> QED
      BY <1>5, <1>6, <3>1 DEF Uncached
  <2>2. table' \in [Shards -> [Keys -> Handles \cup {NULL}]]
    BY <1>1 DEF CacheInv, ShardTypes, Without
  <2>3. lru' \in [Shards -> Seq(Handles)] /\ \A m \in Shards : IsInjective(lru'[m])
    BY <1>1, <1>8 DEF CacheInv, ShardTypes
  <2>4. held' \in [Handles -> Nat]
    BY DEF CacheInv, ShardTypes
  <2> QED
    BY <2>1, <2>2, <2>3, <2>4 DEF CacheInv, ShardTypes, Entry
<1> QED
  <2>1. table[n][k] \in F
    OBVIOUS
  <2>2. ShardTypes' /\ Displaced(k, c, h, n, F, q)
    <3> HIDE DEF F
    <3> QED
      BY <1>2, <1>5, <1>6, <1>7, <1>8, <1>9, <2>1 DEF Displaced
  <2> QED
    BY <2>2

(* An entry that was not in the cache and is in the table of its key's     *)
(* shard now: all of the cache is consistent again.                        *)
LEMMA InsertKeeps ==
  ASSUME CacheInv, ShardTypes', UNCHANGED hash,
         NEW k \in Keys, NEW c, NEW h \in Handles, entry[h].refs = 0,
         NEW n \in Shards, n = ShardOf(k), NEW F, NEW q,
         Displaced(k, c, h, n, F, q), ToSet(q) = ToSet(lru[n]) \ F
  PROVE  CacheInv'
<1> USE DEF Displaced
<1>1. /\ entry'[h].key = k /\ entry'[h].in_cache
      /\ entry'[h].refs = 2 /\ entry'[h].refs # 1 /\ entry'[h].refs = held'[h] + 1
  BY DEF New
<1>2. ~entry[h].in_cache /\ held[h] = 0
  BY DEF CacheInv, Counted, ShardTypes
<1>3. h \notin F
  BY <1>2 DEF CachedIn
<1>4. Counted'
  <2>1. /\ entry'[h].refs = held'[h] + 1 /\ entry'[h].key \in Keys
    BY <1>1
  <2>2. ASSUME NEW g \in Handles \ {h}
        PROVE  /\ entry'[g].refs = held'[g] + (IF entry'[g].in_cache THEN 1 ELSE 0)
               /\ entry'[g].refs > 0 => entry'[g].key \in Keys
    <3>1. held[g] \in Nat /\ held[g] + 0 = held[g]
      BY DEF CacheInv, ShardTypes
    <3>2. entry[g].refs = held[g] + (IF entry[g].in_cache THEN 1 ELSE 0)
      BY DEF CacheInv, Counted
    <3> QED
      BY <3>1, <3>2
  <2>3. entry'[h].refs = held'[h] + (IF entry'[h].in_cache THEN 1 ELSE 0)
    BY <1>1, <2>1
  <2>4. \A g \in Handles :
          /\ entry'[g].refs = held'[g] + (IF entry'[g].in_cache THEN 1 ELSE 0)
          /\ entry'[g].refs > 0 => entry'[g].key \in Keys
    <3> SUFFICES ASSUME NEW g \in Handles
                 PROVE  /\ entry'[g].refs = held'[g] + (IF entry'[g].in_cache THEN 1 ELSE 0)
                        /\ entry'[g].refs > 0 => entry'[g].key \in Keys
      OBVIOUS
    <3>1. CASE g = h
      BY <2>1, <2>3, <3>1, Zenon
    <3>2. CASE g # h
      BY <2>2, <3>2, Zenon
    <3> QED
      BY <3>1, <3>2
  <2> QED
    BY <2>4 DEF Counted
<1>5. ASSUME NEW m \in Shards
       PROVE  CachedIn(m)' = (CachedIn(m) \ F) \cup (IF m = n THEN {h} ELSE {})
  <2>1. \A g \in Handles : entry'[g].in_cache <=> g = h \/ (entry[g].in_cache /\ g \notin F)
    BY <1>1, <1>2, <1>3
  <2>2. \A g \in Handles \ {h} : entry'[g].in_cache => entry'[g].key = entry[g].key
    OBVIOUS
  <2> QED
    <3>1. ASSUME NEW g \in Handles
          PROVE  g \in CachedIn(m)' <=> (g \in CachedIn(m) /\ g \notin F) \/ (m = n /\ g = h)
      <4>1. CASE g = h
        BY <1>1, <1>2, <4>1 DEF CachedIn, ShardOf
      <4>2. CASE g # h
        BY <2>1, <2>2, <4>2 DEF CachedIn, ShardOf
      <4> QED
        BY <4>1, <4>2
    <3> QED
      BY <3>1 DEF CachedIn
<1>6. ASSUME NEW m \in Shards
       PROVE  ToSet(lru'[m]) = {g \in CachedIn(m)' : entry'[g].refs = 1 /\ held'[g] = 0}
  <2>1. ToSet(lru[m]) = {g \in CachedIn(m) : entry[g].refs = 1 /\ held[g] = 0}
    BY DEF CacheInv, OneShard
  <2>2. ToSet(lru'[m]) = ToSet(lru[m]) \ F
    <3>1. CASE m = n
      BY <3>1
    <3>2. CASE m # n
      BY <2>1, <3>2 DEF CachedIn
    <3> QED
      BY <3>1, <3>2
  <2>3. h \notin CachedIn(m)
    BY <1>2 DEF CachedIn
  <2>4. \A g \in CachedIn(m) \ F : entry'[g] = entry[g] /\ held'[g] = held[g]
    BY <2>3 DEF CachedIn
  <2>5. ~(entry'[h].refs = 1)
    BY <1>1
  <2> QED
    BY <1>5, <2>1, <2>2, <2>3, <2>4, <2>5
<1>7. ASSUME NEW m \in Shards, NEW j \in Keys, table'[m][j] # NULL
       PROVE  /\ m = ShardOf(j) /\ entry'[table'[m][j]].in_cache
              /\ entry'[table'[m][j]].key = j
  <2>1. CASE m = n /\ j = k
    BY <1>1, <2>1
  <2>2. CASE ~(m = n /\ j = k)
    <3>1. table'[m][j] = table[m][j] /\ table[m][j] \in Handles
      BY <1>7, <2>2 DEF CacheInv, ShardTypes
    <3>2. m = ShardOf(j) /\ entry[table[m][j]].in_cache /\ entry[table[m][j]].key = j
      BY <1>7, <3>1 DEF CacheInv, OneShard
    <3>3. table[m][j] \notin F
      <4>1. CASE m = n
        BY <1>7, <2>2, <4>1
      <4>2. CASE m # n
        BY <3>1, <3>2, <4>2 DEF CachedIn
      <4> QED
        BY <4>1, <4>2
    <3>4. table[m][j] # h
      BY <1>2, <3>2
    <3> QED
      BY <3>1, <3>2, <3>3, <3>4
  <2> QED
    BY <2>1, <2>2
<1>8. ASSUME NEW g \in Handles, entry'[g].in_cache
       PROVE  table'[ShardOf(entry'[g].key)][entry'[g].key] = g
  <2>1. CASE g = h
    BY <1>1, <2>1
  <2>2. CASE g # h
    <3>1. g \notin F /\ entry'[g] = entry[g]
      BY <1>8, <2>2
    <3>2. table[ShardOf(entry[g].key)][entry[g].key] = g
      BY <1>8, <3>1 DEF CacheInv, OneShard
    <3>3. entry[g].key \in Keys
      BY <1>8, <3>1 DEF CacheInv, Counted, ShardTypes, Entry
    <3>4. ShardOf(entry[g].key) \in Shards
      BY <3>3, ShardOfKey DEF CacheInv
    <3>5. entry[g].key # k
      BY <3>1, <3>2
    <3> QED
      BY <3>1, <3>2, <3>3, <3>4, <3>5
  <2> QED
    BY <2>1, <2>2
<1>9. OneShard'
  BY <1>6, <1>7, <1>8 DEF OneShard, ShardOf
<1> QED
  BY <1>4, <1>9 DEF CacheInv

-----------------------------------------------------------------------------
(* The steps of the cache, one lemma per action: they keep the invariant,  *)
(* and put nothing on a list that was idle and is not on it.               *)

NoneMoves == \A n \in Shards : ToSet(lru'[n]) \cap Idle \subseteq ToSet(lru[n])

(* A list that loses elements gains none. *)
LEMMA ShrinkMoves ==
  ASSUME ShardTypes, NEW n \in Shards, NEW q, lru' = [lru EXCEPT ![n] = q],
         ToSet(q) \subseteq ToSet(lru[n])
  PROVE  NoneMoves
BY DEF ShardTypes, NoneMoves

(* Idle entries are cached in the shard of the list they are on, and no    *)
(* client holds them.                                                      *)
LEMMA ListedAreCached ==
  ASSUME CacheInv, NEW n \in Shards
  PROVE  /\ lru[n] \in Seq(Handles) /\ IsInjective(lru[n])
         /\ ToSet(lru[n]) \subseteq CachedIn(n)
         /\ \A h \in ToSet(lru[n]) : held[h] = 0
BY DEF CacheInv, ShardTypes, OneShard

(* What the table has is cached there. *)
LEMMA TabledAreCached ==
  ASSUME CacheInv, NEW n \in Shards, NEW k \in Keys
  PROVE  /\ table[n][k] \in Handles \cup {NULL}
         /\ table[n][k] # NULL => n = ShardOf(k) /\ table[n][k] \in CachedIn(n)
         /\ {table[n][k]} \cap Handles \subseteq CachedIn(n)
<1>1. NULL \notin Handles
  BY ShardedAssumption
<1>2. table[n][k] \in Handles \cup {NULL}
  BY DEF CacheInv, ShardTypes
<1>3. ASSUME table[n][k] # NULL
      PROVE  n = ShardOf(k) /\ table[n][k] \in CachedIn(n)
  BY <1>2, <1>3 DEF CacheInv, OneShard, CachedIn
<1> QED
  BY <1>1, <1>2, <1>3

(* Erase: the key's entry leaves table and list. *)
LEMMA EraseKeeps ==
  ASSUME CacheInv, NEW t \in Threads, NEW k \in Keys, Erase(t, k)
  PROVE  CacheInv' /\ NoneMoves
<1> DEFINE n == ShardOf(k)
           old == table[n][k]
           q == RemoveFirst(lru[n], old)
<1>1. n \in Shards
  BY ShardOfKey DEF CacheInv
<1>2. {old} \cap Handles \subseteq CachedIn(n)
  BY <1>1, TabledAreCached
<1>3. q \in Seq(Handles) /\ IsInjective(q) /\ ToSet(q) = ToSet(lru[n]) \ {old}
  BY <1>1, ListedAreCached, RemoveFirstProperties
<1>4. /\ entry' = Uncached(entry, {old})
      /\ table' = [table EXCEPT ![n] = Without(@, {old})]
      /\ lru' = [lru EXCEPT ![n] = q]
      /\ UNCHANGED <<hash, held>>
  <2>1. lru' = [lru EXCEPT ![n] = RemoveFirst(@, old)]
    BY DEF Erase
  <2>2. lru' = [lru EXCEPT ![n] = q]
    BY <1>1, <2>1 DEF CacheInv, ShardTypes
  <2> QED
    BY <2>2 DEF Erase
<1> HIDE DEF n, old, q
<1>5. CacheInv'
  BY <1>1, <1>2, <1>3, <1>4, ForgetKeeps
<1> QED
  BY <1>1, <1>3, <1>4, <1>5, ShrinkMoves DEF CacheInv

(* A round of Prune: the idle entries of a shard leave. *)
LEMMA PruneShardKeeps ==
  ASSUME CacheInv, NEW t \in Threads, s[t] \in Shards, PruneShard(t)
  PROVE  CacheInv' /\ NoneMoves /\ lru'[s[t]] = <<>>
<1> DEFINE n == s[t]
           gone == ToSet(lru[n])
<1>1. gone \cap Handles \subseteq CachedIn(n)
  BY ListedAreCached
<1>2. <<>> \in Seq(Handles) /\ IsInjective(<<>>) /\ ToSet(<<>>) = {}
  BY DEF IsInjective, ToSet
<1>3. /\ entry' = Uncached(entry, gone)
      /\ table' = [table EXCEPT ![n] = Without(@, gone)]
      /\ lru' = [lru EXCEPT ![n] = <<>>]
      /\ UNCHANGED <<hash, held>>
  BY DEF PruneShard
<1>4. ToSet(<<>>) = ToSet(lru[n]) \ gone
  BY <1>2
<1>5. n \in Shards
  OBVIOUS
<1>6. lru'[n] = <<>>
  BY <1>3, <1>5 DEF CacheInv, ShardTypes
<1> HIDE DEF n, gone
<1>7. CacheInv'
  BY <1>1, <1>2, <1>3, <1>4, <1>5, ForgetKeeps
<1>8. NoneMoves
  BY <1>2, <1>3, <1>5, ShrinkMoves DEF CacheInv
<1> QED
  BY <1>6, <1>7, <1>8 DEF n

(* Lookup: one reference more, and the entry is not idle. *)
LEMMA LookupKeeps ==
  ASSUME CacheInv, NEW t \in Threads, NEW k \in Keys, Lookup(t, k)
  PROVE  CacheInv' /\ NoneMoves
<1> DEFINE n == ShardOf(k)
           h == table[n][k]
           o == entry[h]
           e == [o EXCEPT !.refs = o.refs + 1]
           c == held[h] + 1
           q == RemoveFirst(lru[n], h)
<1>1. n \in Shards /\ h # NULL
  BY ShardOfKey DEF CacheInv, Lookup
<1>2. h \in Handles /\ h \in CachedIn(n)
  BY <1>1, TabledAreCached
<1>3. /\ o \in Entry /\ o.in_cache /\ o.refs = held[h] + 1
      /\ held[h] \in Nat /\ o.key \in Keys /\ n = ShardOf(o.key)
  BY <1>2 DEF CachedIn, CacheInv, ShardTypes, Counted, Entry
<1>4. /\ e \in Entry /\ e.in_cache = o.in_cache /\ e.key = o.key
      /\ e.refs = o.refs + 1
  <2>0. e = [o EXCEPT !.refs = o.refs + 1]
    OBVIOUS
  <2> HIDE DEF o, e
  <2>1. e = [key |-> o.key, hash |-> o.hash, charge |-> o.charge,
             in_cache |-> o.in_cache, refs |-> o.refs + 1]
    BY <1>3, <2>0 DEF Entry
  <2>2. o.refs + 1 \in Nat
    BY <1>3 DEF Entry
  <2> QED
    BY <1>3, <2>1, <2>2 DEF Entry
<1>5. q \in Seq(Handles) /\ IsInjective(q) /\ ToSet(q) = ToSet(lru[n]) \ {h}
  BY <1>1, ListedAreCached, RemoveFirstProperties
<1>6. /\ entry' = [entry EXCEPT ![h] = e] /\ held' = [held EXCEPT ![h] = c]
      /\ lru' = [lru EXCEPT ![n] = q]
      /\ UNCHANGED <<hash, table>>
  BY <1>1, <1>2 DEF Lookup, CacheInv, ShardTypes
<1>7. c \in Nat /\ c # 0 /\ e.refs = c + 1
  BY <1>3, <1>4
<1>8. Recounted(h, e, c, n, q)
  <2> HIDE DEF n, h, e, c, q
  <2> QED
    BY <1>3, <1>4, <1>5, <1>6, <1>7 DEF Recounted
<1> HIDE DEF n, h, o, e, c, q
<1>9. CacheInv'
  BY <1>1, <1>2, <1>4, <1>5, <1>7, <1>8, CountKeeps
<1> QED
  BY <1>1, <1>5, <1>6, <1>9, ShrinkMoves DEF CacheInv

(* What is referenced still has the hash by which Insert chose its shard. *)
HashStored ==
  \A h \in Handles : entry[h].refs > 0 => entry[h].hash = hash[entry[h].key]

(* An entry is new, or free, or has the key and the hash it had. *)
SameHash(h) ==
  \/ entry'[h].refs > 0 => entry[h].refs > 0 /\ entry'[h].key = entry[h].key
                                             /\ entry'[h].hash = entry[h].hash
  \/ entry'[h].hash = hash[entry'[h].key]

(* FinishErase changes neither. *)
LEMMA UncachedSameHash ==
  ASSUME ShardTypes, NEW F, NEW h \in Handles, NEW e, e = Uncached(entry, F)[h], e.refs > 0
  PROVE  entry[h].refs > 0 /\ e.key = entry[h].key /\ e.hash = entry[h].hash
<1> DEFINE o == entry[h]
<1>1. o \in Entry
  BY DEF ShardTypes
<1>2. e = IF h \notin F THEN o
          ELSE IF o.refs = 1 THEN Blank
          ELSE [o EXCEPT !.in_cache = FALSE, !.refs = @ - 1]
  BY DEF Uncached
<1> HIDE DEF o
<1> SUFFICES o.refs > 0 /\ e.key = o.key /\ e.hash = o.hash
  BY DEF o
<1>3. CASE h \in F /\ o.refs # 1
  BY <1>1, <1>2, <1>3 DEF Entry
<1>4. CASE h \in F /\ o.refs = 1
  BY <1>2, <1>4 DEF Blank
<1>5. CASE h \notin F
  BY <1>2, <1>5
<1> QED
  BY <1>3, <1>4, <1>5

(* Nor does any step of a thread. *)
LEMMA HashStays ==
  ASSUME CacheInv, NEW t \in Threads, NEW h \in Handles,
         \/ \E k \in Keys : Lookup(t, k) \/ Erase(t, k)
         \/ \E k \in Keys, c \in Charges, g \in Handles : Insert(t, k, c, g)
         \/ \E g \in Handles : Release(t, g)
         \/ PruneShard(t)
  PROVE  hash' = hash /\ SameHash(h)
<1>1. ShardTypes /\ entry[h] \in Entry /\ entry \in [Handles -> Entry]
  BY DEF CacheInv, ShardTypes
<1>2. entry'[h] = entry[h] => SameHash(h)
  BY DEF SameHash
<1>3. ASSUME NEW F, entry'[h] = Uncached(entry, F)[h] PROVE SameHash(h)
  <2>1. PICK e : e = Uncached(entry, F)[h]
    OBVIOUS
  <2>2. e.refs > 0 => entry[h].refs > 0 /\ e.key = entry[h].key /\ e.hash = entry[h].hash
    BY <1>1, <2>1, UncachedSameHash
  <2> QED
    BY <1>3, <2>1, <2>2 DEF SameHash
<1>4. ASSUME NEW k \in Keys, Lookup(t, k) PROVE hash' = hash /\ SameHash(h)
  <2> DEFINE n == ShardOf(k)
             g == table[n][k]
  <2>1. n \in Shards /\ g # NULL
    BY <1>4, ShardOfKey DEF CacheInv, Lookup
  <2>2. g \in Handles /\ entry[g].refs > 0
    <3>1. g \in Handles /\ g \in CachedIn(n)
      BY <2>1, TabledAreCached
    <3> HIDE DEF g
    <3> QED
      BY <3>1 DEF CacheInv, Counted, ShardTypes, CachedIn
  <2>3. entry' = [entry EXCEPT ![g].refs = @ + 1] /\ hash' = hash
    BY <1>4 DEF Lookup
  <2> HIDE DEF g, n
  <2>4. CASE h = g
    <3>1. entry'[h].key = entry[h].key /\ entry'[h].hash = entry[h].hash
      BY <1>1, <2>3 DEF Entry
    <3> QED
      BY <2>2, <2>3, <2>4, <3>1 DEF SameHash
  <2>5. CASE h # g
    BY <1>1, <1>2, <2>3, <2>5
  <2> QED
    BY <2>4, <2>5
<1>5. ASSUME NEW k \in Keys, Erase(t, k) PROVE hash' = hash /\ SameHash(h)
  BY <1>3, <1>5 DEF Erase
<1>6. ASSUME NEW k \in Keys, NEW c \in Charges, NEW g \in Handles, Insert(t, k, c, g)
      PROVE  hash' = hash /\ SameHash(h)
  <2>1. PICK es, b, r :
          /\ entry' = [es EXCEPT ![g] = New(k, c, b, r)]
          /\ es = entry \/ \E F : es = Uncached(entry, F)
    <3>1. CASE capacity[ShardOf(k)] > 0
      <4>1. InsertCached(k, c, g)
        BY <1>6, <3>1 DEF Insert
      <4> DEFINE i == ShardOf(k)
                 old == table[i][k]
                 idle == RemoveFirst(lru[i], old)
      <4>2. PICK n \in 0 .. Len(idle) :
              entry' = [Uncached(entry, ToSet(SubSeq(idle, 1, n)) \cup {old})
                          EXCEPT ![g] = New(k, c, TRUE, 2)]
        BY <4>1 DEF InsertCached
      <4> QED
        BY <4>2
    <3>2. CASE ~(capacity[ShardOf(k)] > 0)
      <4>1. entry' = [entry EXCEPT ![g] = New(k, c, FALSE, 1)]
        BY <1>6, <3>2 DEF Insert
      <4> QED
        BY <4>1
    <3> QED
      BY <3>1, <3>2
  <2>2. hash' = hash /\ DOMAIN es = Handles
    BY <1>1, <1>6, <2>1 DEF Insert, Uncached
  <2>3. CASE h = g
    <3>1. entry'[h] = New(k, c, b, r)
      BY <2>1, <2>2, <2>3
    <3> QED
      BY <2>2, <3>1 DEF New, SameHash
  <2>4. CASE h # g
    BY <1>2, <1>3, <2>1, <2>2, <2>4
  <2> QED
    BY <2>3, <2>4
<1>7. ASSUME NEW g \in Handles, Release(t, g) PROVE hash' = hash /\ SameHash(h)
  <2>1. hash' = hash
    BY <1>7 DEF Release
  <2>2. entry' = [entry EXCEPT ![g] = IF entry[g].refs = 1 THEN Blank
                                      ELSE [entry[g] EXCEPT !.refs = @ - 1]]
    BY <1>7 DEF Release
  <2>3. entry[g].refs \in Nat
    BY <1>1 DEF Entry
  <2>4. entry[g].refs > 0
    BY <1>7 DEF Release, CacheInv, ShardTypes, Counted
  <2>5. CASE h = g /\ entry[h].refs = 1
    <3>1. entry'[h] = Blank
      BY <1>1, <2>2, <2>5
    <3> QED
      BY <2>1, <3>1 DEF Blank, SameHash
  <2>6. CASE h = g /\ entry[h].refs # 1
    <3>1. entry'[h] = [entry[h] EXCEPT !.refs = @ - 1]
      BY <1>1, <2>2, <2>6
    <3>2. entry'[h].key = entry[h].key /\ entry'[h].hash = entry[h].hash
      BY <1>1, <3>1 DEF Entry
    <3> QED
      BY <2>1, <2>4, <2>6, <3>2 DEF SameHash
  <2>7. CASE h # g
    BY <1>1, <1>2, <2>1, <2>2, <2>7
  <2> QED
    BY <2>5, <2>6, <2>7
<1>8. ASSUME PruneShard(t) PROVE hash' = hash /\ SameHash(h)
  BY <1>3, <1>8 DEF PruneShard
<1> QED
  BY <1>4, <1>5, <1>6, <1>7, <1>8

(* So what every entry has stored stays its key's hash. *)
LEMMA HashStoredStep ==
  ASSUME HashStored, hash' = hash, \A h \in Handles : SameHash(h)
  PROVE  HashStored'
BY DEF HashStored, SameHash

(* Release: one reference less; the last one makes a cached entry idle. *)
LEMMA ReleaseKeeps ==
  ASSUME CacheInv, HashStored, NEW t \in Threads, NEW h \in Handles, Release(t, h)
  PROVE  CacheInv' /\ NoneMoves
<1> DEFINE o == entry[h]
           n == ShardOf(o.key)
           e == IF o.refs = 1 THEN Blank ELSE [o EXCEPT !.refs = o.refs - 1]
           c == held[h] - 1
           q == IF o.in_cache /\ o.refs = 2 THEN Append(lru[n], h) ELSE lru[n]
<1>1. /\ o \in Entry /\ held[h] \in Nat /\ held[h] > 0
      /\ o.refs = held[h] + (IF o.in_cache THEN 1 ELSE 0)
      /\ o.key \in Keys
  BY DEF Release, CacheInv, ShardTypes, Counted, Entry
<1>2. n \in Shards
  BY <1>1, ShardOfKey DEF CacheInv
<1>3. lru[n] \in Seq(Handles) /\ IsInjective(lru[n]) /\ h \notin ToSet(lru[n])
  BY <1>1, <1>2, ListedAreCached
<1>4. /\ entry' = [entry EXCEPT ![h] = e] /\ held' = [held EXCEPT ![h] = c]
      /\ UNCHANGED <<hash, table>>
  <2>1. entry' = [entry EXCEPT ![h] = IF entry[h].refs = 1 THEN Blank
                                      ELSE [entry[h] EXCEPT !.refs = entry[h].refs - 1]]
    BY DEF Release
  <2>2. entry' = [entry EXCEPT ![h] = e]
    BY <2>1
  <2>3. held' = [held EXCEPT ![h] = c] /\ UNCHANGED <<hash, table>>
    BY DEF Release
  <2> QED
    BY <2>2, <2>3
<1>5. lru' = [lru EXCEPT ![n] = q]
  <2>0. ReleaseShard(h) = n
    <3>1. entry[h].refs > 0
      BY <1>1
    <3> QED
      BY <3>1 DEF HashStored, ReleaseShard, ShardOf
  <2>1. lru' = [lru EXCEPT ![n] = IF o.in_cache /\ o.refs = 2 THEN Append(@, h) ELSE @]
    BY <2>0 DEF Release
  <2> HIDE DEF o, n
  <2> QED
    BY <1>2, <2>1 DEF CacheInv, ShardTypes
<1>6. \A m \in Shards : h \notin ToSet(lru[m])
  BY <1>1, ListedAreCached
<1>7. /\ q \in Seq(Handles) /\ IsInjective(q)
      /\ ToSet(q) = IF o.in_cache /\ o.refs = 2 THEN ToSet(lru[n]) \cup {h} ELSE ToSet(lru[n])
  <2> DEFINE l == lru[n]
  <2>1. l \in Seq(Handles) /\ IsInjective(l) /\ h \notin ToSet(l)
    BY <1>3
  <2>2. /\ Append(l, h) \in Seq(Handles) /\ IsInjective(Append(l, h))
        /\ ToSet(Append(l, h)) = ToSet(l) \cup {h}
    <3> HIDE DEF l
    <3> QED
      BY <2>1, AppendNewProperties
  <2>3. q = IF o.in_cache /\ o.refs = 2 THEN Append(l, h) ELSE l
    OBVIOUS
  <2> HIDE DEF q, l, o
  <2> QED
    BY <2>1, <2>2, <2>3 DEF l
<1> HIDE DEF o, n, e, c, q
<1>8. CASE o.refs = 1
  <2>1. e = Blank /\ o.in_cache = FALSE /\ c = 0
    BY <1>1, <1>8 DEF e, c, Entry
  <2>2. e \in Entry /\ e.in_cache = FALSE /\ e.refs = 0
    BY <2>1 DEF Blank, Entry
  <2>3. ToSet(q) = ToSet(lru[n])
    BY <1>7, <2>1
  <2>4. Recounted(h, e, c, n, q)
    <3>1. e.refs = c + (IF e.in_cache THEN 1 ELSE 0) /\ ~(e.refs > 0)
      BY <2>1, <2>2
    <3>2. h \notin ToSet(q) /\ ToSet(q) \ {h} = ToSet(lru[n]) \ {h}
      BY <1>3, <2>3
    <3>3. e.in_cache = entry[h].in_cache
      BY <2>1, <2>2 DEF o
    <3> QED
      BY <1>4, <1>5, <2>2, <3>1, <3>2, <3>3, Zenon DEF Recounted
  <2>5. CacheInv'
    BY <1>2, <1>7, <2>1, <2>2, <2>4, CountKeeps
  <2> QED
    BY <1>2, <1>5, <2>3, <2>5, ShrinkMoves DEF CacheInv
<1>9. CASE o.refs # 1
  <2>1. /\ e \in Entry /\ e.in_cache = o.in_cache /\ e.key = o.key
        /\ e.refs = o.refs - 1
    <3>1. o.refs - 1 \in Nat
      BY <1>1 DEF Entry
    <3> QED
      BY <1>1, <1>9, <3>1 DEF e, Entry
  <2>2. /\ c \in Nat /\ e.refs = c + (IF e.in_cache THEN 1 ELSE 0)
        /\ c = 0 /\ o.in_cache <=> o.in_cache /\ o.refs = 2
    BY <1>1, <2>1 DEF c
  <2>3. Recounted(h, e, c, n, q)
    <3>1. ToSet(q) \ {h} = ToSet(lru[n]) \ {h}
      BY <1>7
    <3>2. h \in ToSet(q) <=> e.in_cache /\ c = 0
      BY <1>3, <1>7, <2>1, <2>2
    <3> QED
      BY <1>1, <1>4, <1>5, <2>1, <2>2, <3>1, <3>2 DEF Recounted, o, n
  <2>4. CacheInv'
    BY <1>2, <1>7, <2>1, <2>2, <2>3, CountKeeps
  <2>5. NoneMoves
    BY <1>2, <1>5, <1>6, <1>7 DEF NoneMoves, CacheInv, ShardTypes, Idle
  <2> QED
    BY <2>4, <2>5
<1> QED
  BY <1>8, <1>9

(* Insert at capacity 0: an entry only its client knows. *)
LEMMA InsertUncachedKeeps ==
  ASSUME CacheInv, NEW k \in Keys, NEW c \in Charges, NEW h \in Handles, entry[h].refs = 0,
         entry' = [entry EXCEPT ![h] = New(k, c, FALSE, 1)],
         held' = [held EXCEPT ![h] = 1], UNCHANGED <<hash, table, lru>>
  PROVE  CacheInv' /\ NoneMoves
<1> DEFINE n == ShardOf(k)
           e == New(k, c, FALSE, 1)
           q == lru[n]
<1>1. n \in Shards
  BY ShardOfKey DEF CacheInv
<1>2. ~entry[h].in_cache
  BY DEF CacheInv, Counted, ShardTypes
<1>3. e \in Entry /\ e.refs = 1 /\ e.in_cache = FALSE /\ e.key = k
  BY DEF New, Entry, CacheInv, ShardTypes
<1>4. q \in Seq(Handles) /\ IsInjective(q) /\ h \notin ToSet(q)
  BY <1>1, <1>2, ListedAreCached DEF CachedIn
<1>5. lru' = [lru EXCEPT ![n] = q]
  BY DEF CacheInv, ShardTypes
<1>6. entry[h].in_cache = FALSE
  BY <1>2 DEF CacheInv, ShardTypes
<1> HIDE DEF n, e, q
<1>7. Recounted(h, e, 1, n, q)
  <2>1. e.refs = 1 + (IF e.in_cache THEN 1 ELSE 0)
    BY <1>3
  <2>2. /\ entry' = [entry EXCEPT ![h] = e] /\ ToSet(q) \ {h} = ToSet(lru[n]) \ {h}
    BY DEF e, q
  <2>3. ~(h \in ToSet(q)) /\ e.in_cache = entry[h].in_cache /\ e.key \in Keys
    BY <1>3, <1>4, <1>6
  <2> QED
    BY <1>3, <1>5, <2>1, <2>2, <2>3 DEF Recounted
<1>8. CacheInv'
  BY <1>1, <1>3, <1>4, <1>7, CountKeeps
<1> QED
  BY <1>1, <1>5, <1>8, ShrinkMoves DEF CacheInv, q

(* Insert: the displaced entry and the oldest idle ones leave. *)
LEMMA InsertCachedKeeps ==
  ASSUME CacheInv, NEW k \in Keys, NEW c \in Charges, NEW h \in Handles, entry[h].refs = 0,
         InsertCached(k, c, h), held' = [held EXCEPT ![h] = 1], UNCHANGED hash
  PROVE  CacheInv' /\ NoneMoves
<1> DEFINE i == ShardOf(k)
           old == table[i][k]
           idle == RemoveFirst(lru[i], old)
<1>1. i \in Shards
  BY ShardOfKey DEF CacheInv
<1>2. idle \in Seq(Handles) /\ IsInjective(idle) /\ ToSet(idle) = ToSet(lru[i]) \ {old}
  BY <1>1, ListedAreCached, RemoveFirstProperties
<1>3. PICK n \in 0 .. Len(idle) :
        LET gone == ToSet(SubSeq(idle, 1, n))
        IN  /\ entry' = [Uncached(entry, gone \cup {old}) EXCEPT ![h] = New(k, c, TRUE, 2)]
            /\ table' = [table EXCEPT ![i] = [Without(@, gone) EXCEPT ![k] = h]]
            /\ lru' = [lru EXCEPT ![i] = SubSeq(idle, n + 1, Len(idle))]
  BY DEF InsertCached
<1> DEFINE gone == ToSet(SubSeq(idle, 1, n))
           q == SubSeq(idle, n + 1, Len(idle))
           F == gone \cup {old}
<1>4. /\ q \in Seq(Handles) /\ IsInjective(q) /\ ToSet(q) = ToSet(idle) \ gone
      /\ gone \subseteq ToSet(idle)
  <2> HIDE DEF idle
  <2> QED
    BY <1>2, SuffixProperties
<1>5. gone \subseteq CachedIn(i) /\ ToSet(q) = ToSet(lru[i]) \ F
  BY <1>1, <1>2, <1>4, ListedAreCached
<1>6. /\ entry' = [Uncached(entry, F) EXCEPT ![h] = New(k, c, TRUE, 2)]
      /\ table' = [table EXCEPT ![i] = [Without(@, gone) EXCEPT ![k] = h]]
      /\ lru' = [lru EXCEPT ![i] = q]
  BY <1>3
<1>7. i = ShardOf(k) /\ F = gone \cup {table[i][k]}
  OBVIOUS
<1> HIDE DEF i, old, idle, gone, q, F
<1>8. gone \cap Handles \subseteq CachedIn(i)
  BY <1>5
<1>9. ShardTypes' /\ Displaced(k, c, h, i, F, q)
  BY <1>4, <1>6, <1>7, <1>8, InsertChanges
<1>10. CacheInv'
  BY <1>1, <1>5, <1>7, <1>9, InsertKeeps
<1> QED
  BY <1>1, <1>5, <1>6, <1>10, ShrinkMoves DEF CacheInv

(* Insert, with and without a capacity. *)
LEMMA InsertStep ==
  ASSUME CacheInv, NEW t \in Threads, NEW k \in Keys, NEW c \in Charges, NEW h \in Handles,
         Insert(t, k, c, h)
  PROVE  CacheInv' /\ NoneMoves
<1>1. entry[h].refs = 0 /\ held' = [held EXCEPT ![h] = 1] /\ UNCHANGED hash
  BY DEF Insert
<1>2. CASE capacity[ShardOf(k)] > 0
  BY <1>1, <1>2, InsertCachedKeeps DEF Insert
<1>3. CASE ~(capacity[ShardOf(k)] > 0)
  BY <1>1, <1>3, InsertUncachedKeeps DEF Insert
<1> QED
  BY <1>2, <1>3

-----------------------------------------------------------------------------
(* Prune misses nothing.                                                   *)

(* What a thread watches is still idle, but on none of the lists that its  *)
(* loop has passed.                                                        *)
WatchInv ==
  /\ pc \in [Threads -> {"idle", "prune", "total", "id"}]
  /\ s \in [Threads -> Nat]
  /\ watch \in [Threads -> SUBSET Idle]
  /\ \A t \in Threads : pc[t] \in {"idle", "id"} => s[t] = 0
  /\ \A t \in Threads : pc[t] = "prune" =>
       \A n \in Shards : n < s[t] => watch[t] \cap ToSet(lru[n]) = {}

SInv == CacheInv /\ HashStored /\ WatchInv

(* Nobody watches anything before there is anything. *)
LEMMA SInvInit == Init => SInv
<1> SUFFICES ASSUME Init PROVE SInv
  OBVIOUS
<1>1. WatchInv
  BY DEF Init, WatchInv
<1>2. HashStored
  BY DEF Init, HashStored, Blank
<1> QED
  BY <1>1, <1>2, CacheInvInit DEF SInv

(* The steps that change lists: s may move on past a list that is empty.   *)
LEMMA WatchStep ==
  ASSUME WatchInv, NoneMoves, Watch, UNCHANGED pc, s' \in [Threads -> Nat],
         \A t \in Threads :
           \/ s'[t] = s[t]
           \/ pc[t] = "prune" /\ s'[t] = s[t] + 1 /\ (s[t] \in Shards => lru'[s[t]] = <<>>)
  PROVE  WatchInv'
<1>1. watch' = [t \in Threads |-> watch[t] \cap Idle']
  BY DEF Watch, Idle
<1>2. watch' \in [Threads -> SUBSET (Idle')]
  BY <1>1
<1>3. ASSUME NEW t \in Threads, pc[t] \in {"idle", "id"} PROVE s'[t] = 0
  BY <1>3 DEF WatchInv
<1>4. ASSUME NEW t \in Threads, pc[t] = "prune", NEW n \in Shards, n < s'[t]
      PROVE  watch'[t] \cap ToSet(lru'[n]) = {}
  <2>1. CASE n < s[t]
    <3>1. watch[t] \cap ToSet(lru[n]) = {} /\ watch[t] \subseteq Idle
      BY <1>4, <2>1 DEF WatchInv
    <3> QED
      BY <1>1, <3>1 DEF NoneMoves
  <2>2. CASE ~(n < s[t])
    <3>1. n \in Nat /\ s[t] \in Nat
      BY <1>4, ShardedAssumption DEF WatchInv, Shards
    <3>2. n = s[t] /\ lru'[n] = <<>>
      BY <1>4, <2>2, <3>1
    <3> QED
      BY <3>2 DEF ToSet
  <2> QED
    BY <2>1, <2>2
<1> QED
  BY <1>2, <1>3, <1>4 DEF WatchInv

(* The steps that change no list, of one thread. *)
LEMMA WatchMove ==
  ASSUME WatchInv, UNCHANGED lru, NEW t \in Threads,
         NEW p \in {"idle", "prune", "total", "id"}, pc' = [pc EXCEPT ![t] = p],
         NEW j \in Nat, s' = [s EXCEPT ![t] = j],
         NEW w \in SUBSET Idle, watch' = [watch EXCEPT ![t] = w],
         p \in {"idle", "prune", "id"} => j = 0
  PROVE  WatchInv'
<1>1. Idle' = Idle
  BY DEF Idle
<1>2. p = "prune" => \A n \in Shards : ~(n < j)
  BY ShardedAssumption DEF Shards
<1> QED
  BY <1>1, <1>2 DEF WatchInv

(* The step of a thread in one of the calls, seen by the watchers. *)
LEMMA WatchInvOther ==
  ASSUME WatchInv, NEW t \in Threads,
         \/ PruneStart(t) \/ PruneReturn(t)
         \/ TotalChargeStart(t) \/ TotalChargeShard(t) \/ TotalChargeReturn(t)
         \/ NewIdRead(t) \/ NewIdWrite(t)
  PROVE  WatchInv' /\ UNCHANGED cache /\ UNCHANGED <<hash, held>>
<1>0. UNCHANGED cache /\ UNCHANGED <<hash, held>>
  BY DEF PruneStart, PruneReturn, TotalChargeStart, TotalChargeShard, TotalChargeReturn,
         NewIdRead, NewIdWrite
<1>1. /\ UNCHANGED lru /\ pc[t] \in {"idle", "prune", "total", "id"} /\ s[t] \in Nat
      /\ watch[t] \in SUBSET Idle /\ (pc[t] \in {"idle", "id"} => s[t] = 0)
      /\ s = [s EXCEPT ![t] = s[t]] /\ watch = [watch EXCEPT ![t] = watch[t]]
      /\ pc = [pc EXCEPT ![t] = pc[t]]
  BY <1>0 DEF cache, WatchInv
<1>2. CASE PruneStart(t)
  <2>1. /\ pc' = [pc EXCEPT ![t] = "prune"] /\ s' = [s EXCEPT ![t] = s[t]] /\ s[t] = 0
        /\ watch' = [watch EXCEPT ![t] = Idle]
    BY <1>1, <1>2 DEF PruneStart, Enter
  <2> QED
    BY <1>0, <1>1, <2>1, WatchMove
<1>3. CASE PruneReturn(t)
  <2>1. /\ pc' = [pc EXCEPT ![t] = "idle"] /\ s' = [s EXCEPT ![t] = 0]
        /\ watch' = [watch EXCEPT ![t] = {}] /\ {} \in SUBSET Idle
    BY <1>3 DEF PruneReturn, Return
  <2> QED
    BY <1>0, <1>1, <2>1, WatchMove
<1>4. CASE TotalChargeStart(t) \/ NewIdRead(t)
  <2>1. /\ \E p \in {"total", "id"} : pc' = [pc EXCEPT ![t] = p]
        /\ s' = [s EXCEPT ![t] = s[t]] /\ s[t] = 0
        /\ watch' = [watch EXCEPT ![t] = watch[t]]
    BY <1>1, <1>4 DEF TotalChargeStart, NewIdRead, Enter
  <2> QED
    BY <1>0, <1>1, <2>1, WatchMove
<1>5. CASE TotalChargeShard(t)
  <2>1. /\ pc' = [pc EXCEPT ![t] = "total"] /\ s' = [s EXCEPT ![t] = s[t] + 1]
        /\ watch' = [watch EXCEPT ![t] = watch[t]] /\ s[t] + 1 \in Nat
    BY <1>1, <1>5 DEF TotalChargeShard
  <2> QED
    BY <1>0, <1>1, <2>1, WatchMove
<1>6. CASE TotalChargeReturn(t) \/ NewIdWrite(t)
  <2>1. /\ pc' = [pc EXCEPT ![t] = "idle"] /\ s' = [s EXCEPT ![t] = 0]
        /\ watch' = [watch EXCEPT ![t] = watch[t]]
    BY <1>1, <1>6 DEF TotalChargeReturn, NewIdWrite, Return
  <2> QED
    BY <1>0, <1>1, <2>1, WatchMove
<1> QED
  BY <1>2, <1>3, <1>4, <1>5, <1>6

(* What no step of the cache touches stays consistent. *)
LEMMA CacheInvStutter ==
  ASSUME CacheInv, UNCHANGED cache, UNCHANGED <<hash, held>>
  PROVE  CacheInv'
BY DEF CacheInv, cache, ShardTypes, Counted, OneShard, CachedIn, ShardOf

(* Every step of every thread preserves the invariant. *)
LEMMA SInvStep == SInv /\ [Next]_vars => SInv'
<1> SUFFICES ASSUME SInv, [Next]_vars PROVE SInv'
  OBVIOUS
<1>0. CacheInv /\ HashStored /\ WatchInv
  BY DEF SInv
<1>1. CASE UNCHANGED vars
  <2>1. CacheInv'
    BY <1>0, <1>1, CacheInvStutter DEF vars
  <2>2. WatchInv'
    BY <1>0, <1>1 DEF vars, cache, WatchInv, Idle
  <2>3. HashStored'
    BY <1>0, <1>1 DEF vars, cache, HashStored
  <2> QED
    BY <2>1, <2>2, <2>3 DEF SInv
<1>2. ASSUME NEW t \in Threads,
             \/ \E k \in Keys : Lookup(t, k) \/ Erase(t, k)
             \/ \E k \in Keys, c \in Charges, h \in Handles : Insert(t, k, c, h)
             \/ \E h \in Handles : Release(t, h)
      PROVE  SInv'
  <2>1. CacheInv' /\ NoneMoves
    BY <1>0, <1>2, LookupKeeps, EraseKeeps, InsertStep, ReleaseKeeps
  <2>2. Watch /\ UNCHANGED <<pc, s>>
    BY <1>2 DEF Lookup, Erase, Insert, Release
  <2>3. s' \in [Threads -> Nat] /\ \A u \in Threads : s'[u] = s[u]
    BY <1>0, <2>2 DEF WatchInv
  <2>4. WatchInv'
    BY <1>0, <2>1, <2>2, <2>3, WatchStep
  <2>5. hash' = hash /\ \A h \in Handles : SameHash(h)
    BY <1>0, <1>2, HashStays DEF Lookup, Erase, Insert, Release
  <2>6. HashStored'
    BY <1>0, <2>5, HashStoredStep
  <2> QED
    BY <2>1, <2>4, <2>6 DEF SInv
<1>3. ASSUME NEW t \in Threads, PruneShard(t) PROVE SInv'
  <2>1. s[t] \in Shards
    BY <1>0, <1>3, ShardedAssumption DEF PruneShard, WatchInv, Shards
  <2>2. CacheInv' /\ NoneMoves /\ lru'[s[t]] = <<>>
    BY <1>0, <1>3, <2>1, PruneShardKeeps
  <2>3. Watch /\ UNCHANGED pc /\ s' = [s EXCEPT ![t] = @ + 1] /\ pc[t] = "prune"
    BY <1>3 DEF PruneShard
  <2>4. /\ s' \in [Threads -> Nat]
        /\ s'[t] = s[t] + 1 /\ \A u \in Threads \ {t} : s'[u] = s[u]
    BY <1>0, <2>3 DEF WatchInv
  <2>5. WatchInv'
    BY <1>0, <2>2, <2>3, <2>4, WatchStep
  <2>6. hash' = hash /\ \A h \in Handles : SameHash(h)
    BY <1>0, <1>3, HashStays DEF PruneShard
  <2>7. HashStored'
    BY <1>0, <2>6, HashStoredStep
  <2> QED
    BY <2>2, <2>5, <2>7 DEF SInv
<1>4. ASSUME NEW t \in Threads,
             \/ PruneStart(t) \/ PruneReturn(t)
             \/ TotalChargeStart(t) \/ TotalChargeShard(t) \/ TotalChargeReturn(t)
             \/ NewIdRead(t) \/ NewIdWrite(t)
      PROVE  SInv'
  <2>1. WatchInv' /\ UNCHANGED cache /\ UNCHANGED <<hash, held>>
    BY <1>0, <1>4, WatchInvOther
  <2>2. CacheInv'
    BY <1>0, <2>1, CacheInvStutter
  <2>3. HashStored'
    BY <1>0, <2>1 DEF cache, HashStored
  <2> QED
    BY <2>1, <2>2, <2>3 DEF SInv
<1> QED
  BY <1>1, <1>2, <1>3, <1>4 DEF Next

(* All calls about an entry meet in the shard of its key, whatever the     *)
(* hash function: Insert and Lookup choose it by the key, Release by the   *)
(* hash in the entry.                                                      *)
THEOREM CallsMeet == Spec => []OneShard
<1>1. SInv => OneShard
  BY DEF SInv, CacheInv
<1> QED
  BY <1>1, SInvInit, SInvStep, PTL DEF Spec

(* When Prune returns, nothing that was idle all the time is left, however *)
(* many threads insert, look up, release and prune meanwhile.              *)
THEOREM PruneMissesNothing == Spec => PruneComplete
<1> DEFINE Missed == \E t \in Threads : pc[t] = "prune" /\ pc'[t] = "idle" /\ watch[t] # {}
<1>1. SInv /\ [Next]_vars => ~Missed
  <2> SUFFICES ASSUME SInv, [Next]_vars, NEW t \in Threads,
                      pc[t] = "prune", pc'[t] = "idle"
               PROVE  watch[t] = {}
    OBVIOUS
  <2>1. PruneReturn(t)
    <3>1. PICK u \in Threads :
            \/ pc' = pc
            \/ PruneReturn(u)
            \/ pc[u] \in {"idle", "total", "id"} /\ \E p : pc' = [pc EXCEPT ![u] = p]
      <4>1. pc' = pc \/ \E u \in Threads :
              \/ pc' = pc \/ PruneReturn(u)
              \/ pc[u] \in {"idle", "total", "id"} /\ \E p : pc' = [pc EXCEPT ![u] = p]
        BY DEF Next, vars, Lookup, Erase, Insert, Release, PruneStart, PruneShard,
               TotalChargeStart, TotalChargeShard, TotalChargeReturn,
               NewIdRead, NewIdWrite, Enter, Return
      <4> QED
        BY <4>1
    <3>2. pc \in [Threads -> {"idle", "prune", "total", "id"}]
      BY DEF SInv, WatchInv
    <3>3. PruneReturn(u) => pc' = [pc EXCEPT ![u] = "idle"]
      BY DEF PruneReturn, Return
    <3> QED
      BY <3>1, <3>2, <3>3
  <2>2. s[t] = NumShards /\ watch[t] \subseteq Idle
    BY <2>1 DEF PruneReturn, SInv, WatchInv
  <2>3. \A n \in Shards : n < s[t]
    BY <2>2, ShardedAssumption DEF Shards
  <2>4. \A n \in Shards : watch[t] \cap ToSet(lru[n]) = {}
    BY <2>3 DEF SInv, WatchInv
  <2> QED
    BY <2>2, <2>4 DEF Idle
<1>2. SInv /\ [Next]_vars =>
        [\A t \in Threads : pc[t] = "prune" /\ pc'[t] = "idle" => watch[t] = {}]_vars
  BY <1>1
<1> QED
  BY <1>2, SInvInit, SInvStep, PTL DEF Spec, PruneComplete

-----------------------------------------------------------------------------
(* Types.                                                                  *)

(* The variables no other invariant types.  The loop of TotalCharge stops  *)
(* at kNumShardBits, which is less than the number of shards.              *)
RestOK ==
  /\ capacity \in [Shards -> Nat]
  /\ last_id <= MaxId
  /\ id_mutex \in Threads \cup {NULL}
  /\ s \in [Threads -> 0 .. NumShards]
  /\ total \in [Threads -> Nat]
  /\ id \in [Threads -> 0 .. MaxId]

(* The combined charge of a shard is a number. *)
LEMMA TotalChargeIsNat ==
  ASSUME CacheInv, NEW n \in Shards
  PROVE  TotalChargeOf(n) \in Nat
<1> DEFINE f == [h \in Handles |-> entry[h].charge]
           S == {table[n][k] : k \in Keys} \ {NULL}
<1>1. IsFiniteSet(S) /\ S \subseteq Handles
  BY ShardedAssumption, FS_Subset DEF CacheInv, ShardTypes
<1>2. ASSUME NEW h \in Handles PROVE f[h] \in Nat
  <2>1. entry[h] \in Entry
    BY DEF CacheInv, ShardTypes, Entry
  <2>2. entry[h].charge \in Charges \cup {0}
    BY <2>1 DEF Entry
  <2>3. Charges \cup {0} \subseteq Nat
    BY ShardedAssumption
  <2> QED
    BY <2>2, <2>3
<1> HIDE DEF f, S
<1>3. SumFunctionOnSet(f, S) \in Nat
  BY <1>1, <1>2, SumIsNat
<1> QED
  BY <1>3 DEF f, S, TotalChargeOf, ChargeOf

(* They hold when the cache is made. *)
LEMMA RestInit == Init => RestOK
<1> SUFFICES ASSUME Init PROVE RestOK
  OBVIOUS
<1>1. NumShards \in Nat \ {0}
  BY ShardedAssumption
<1>2. ASSUME NEW c \in Capacities PROVE PerShard(c) \in Nat
  <2> DEFINE size == 2^SizeBits
  <2>1. size \in Nat \ {0} /\ c \in Nat
    BY ShardedAssumption
  <2> HIDE DEF size
  <2>2. (c + (NumShards - 1)) % size \in Nat
    BY <1>1, <2>1
  <2> DEFINE r == (c + (NumShards - 1)) % size
  <2>3. r \in Nat /\ PerShard(c) = r \div NumShards
    BY <2>2 DEF PerShard, size
  <2> HIDE DEF r
  <2> QED
    BY <1>1, <2>3
<1>3. 0 \in 0 .. NumShards /\ 0 \in 0 .. MaxId /\ last_id <= MaxId
  BY <1>1, ShardedAssumption DEF Init
<1> QED
  BY <1>2, <1>3 DEF Init, RestOK

(* Every step of every thread keeps these types. *)
LEMMA RestStep ==
  ASSUME CacheInv, IdInv, RestOK, [Next]_vars
  PROVE  RestOK'
<1>0. NumShards \in Nat /\ NumShardBits \in Nat /\ NumShardBits < NumShards
  BY ShardedAssumption
<1>1. CASE UNCHANGED vars
  BY <1>1 DEF vars, RestOK
<1>2. ASSUME NEW t \in Threads,
             \/ \E k \in Keys : Lookup(t, k) \/ Erase(t, k)
             \/ \E k \in Keys, c \in Charges, h \in Handles : Insert(t, k, c, h)
             \/ \E h \in Handles : Release(t, h)
             \/ PruneStart(t) \/ TotalChargeStart(t)
      PROVE  RestOK'
  <2>1. UNCHANGED <<capacity, last_id, id_mutex, s, total, id>>
    BY <1>2 DEF Lookup, Erase, Insert, Release, PruneStart, TotalChargeStart
  <2> QED
    BY <2>1 DEF RestOK
<1>3. ASSUME NEW t \in Threads, PruneShard(t) PROVE RestOK'
  <2>1. UNCHANGED <<capacity, last_id, id_mutex, total, id>> /\ s' = [s EXCEPT ![t] = @ + 1]
        /\ s[t] < NumShards
    BY <1>3 DEF PruneShard
  <2> QED
    BY <1>0, <2>1 DEF RestOK
<1>4. ASSUME NEW t \in Threads, PruneReturn(t) \/ TotalChargeReturn(t) PROVE RestOK'
  <2>1. /\ UNCHANGED <<capacity, last_id, id_mutex, id>> /\ s' = [s EXCEPT ![t] = 0]
        /\ total' = total \/ total' = [total EXCEPT ![t] = 0]
    BY <1>4 DEF PruneReturn, TotalChargeReturn, Return
  <2> QED
    BY <1>0, <2>1 DEF RestOK
<1>5. ASSUME NEW t \in Threads, TotalChargeShard(t) PROVE RestOK'
  <2> DEFINE m == TotalChargeOf(s[t])
  <2>1. m \in Nat
    <3>1. s[t] \in Shards
      BY <1>0, <1>5 DEF TotalChargeShard, RestOK, Shards
    <3> QED
      BY <3>1, TotalChargeIsNat
  <2>2. /\ UNCHANGED <<capacity, last_id, id_mutex, id>> /\ s' = [s EXCEPT ![t] = @ + 1]
        /\ s[t] < NumShardBits /\ total' = [total EXCEPT ![t] = @ + m]
    BY <1>5 DEF TotalChargeShard
  <2> HIDE DEF m
  <2>3. s' \in [Threads -> 0 .. NumShards]
    BY <1>0, <2>2 DEF RestOK
  <2>4. total' \in [Threads -> Nat]
    BY <2>1, <2>2 DEF RestOK
  <2> QED
    BY <2>2, <2>3, <2>4 DEF RestOK
<1>6. ASSUME NEW t \in Threads, NewIdRead(t) PROVE RestOK'
  <2>1. last_id \in 0 .. MaxId
    BY <1>6, ShardedAssumption DEF IdInv, RestOK
  <2> QED
    BY <1>6, <2>1 DEF NewIdRead, RestOK
<1>7. ASSUME NEW t \in Threads, NewIdWrite(t) PROVE RestOK'
  <2>1. last_id' = last_id + 1 /\ last_id < MaxId /\ last_id \in Nat /\ MaxId \in Nat
    BY <1>7, ShardedAssumption DEF NewIdWrite, IdInv
  <2>2. 0 \in 0 .. MaxId
    BY <2>1
  <2> QED
    BY <1>0, <1>7, <2>1, <2>2 DEF NewIdWrite, Return, RestOK
<1> QED
  BY <1>1, <1>2, <1>3, <1>4, <1>5, <1>6, <1>7 DEF Next

(* Every variable of the sharded cache keeps its type. *)
THEOREM ShardedTyping == Spec => []TypeOK
<1>1. SInv /\ IdInv /\ RestOK => TypeOK
  <2> SUFFICES ASSUME SInv, IdInv, RestOK PROVE TypeOK
    OBVIOUS
  <2>1. hash \in [Keys -> HashValues] /\ entry \in [Handles -> Entry]
        /\ table \in [Shards -> [Keys -> Handles \cup {NULL}]]
        /\ lru \in [Shards -> Seq(Handles)] /\ held \in [Handles -> Nat]
    BY DEF SInv, CacheInv, ShardTypes, Entry
  <2>2. last_id \in 0 .. MaxId /\ ids \in [1 .. MaxId -> Nat]
    BY ShardedAssumption DEF IdInv, RestOK
  <2>3. watch \in [Threads -> SUBSET Handles]
    <3>1. Idle \subseteq Handles
      BY DEF Idle, SInv, CacheInv, OneShard, CachedIn
    <3> QED
      BY <3>1 DEF SInv, WatchInv
  <2> QED
    BY <2>1, <2>2, <2>3 DEF TypeOK, IdInv, RestOK
<1> QED
  BY <1>1, SInvInit, SInvStep, IdInvInit, IdInvStep, RestInit, RestStep, PTL DEF Spec, SInv
===============================================================================
