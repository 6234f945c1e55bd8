------------------------------- MODULE LRUCache -------------------------------
(***************************************************************************)
(* One shard of the cache: class LRUCache of src/util/cache.cc, called by  *)
(* several threads.  Every method runs under mutex_ except the destructor  *)
(* and the unlocked reads a client makes through a handle.  A method is    *)
(* split where it carries a pointer from one data structure to the next    *)
(* (table_ to lists and counts), so that what the mutex protects is        *)
(* visible.  Taking the mutex is merged with the first step under it, and  *)
(* dropping it with the last.                                              *)
(*                                                                         *)
(* The hash table is a function from keys to handles and the LRU list a    *)
(* sequence, oldest first.  The order of in_use_ is never used, so it is a *)
(* set.  The contents of freed memory are the record Blank.                *)
(***************************************************************************)
EXTENDS Integers, Sequences, FiniteSets, SequencesExt

CONSTANTS
  Threads,   \* the threads that call the cache
  Keys,      \* the keys that hash to this shard
  Handles,   \* the addresses malloc may return for an entry
  Charges,   \* the charges clients insert with
  Capacities,  \* the values of capacity_, which is set once before use
  MaxRefs,   \* bound: refs of an entry a Lookup may still raise (uint32_t)
  NULL       \* nullptr, and "no thread" for the mutex

ASSUME LRUCacheAssumption ==
  /\ NULL \notin Threads \cup Keys \cup Handles
  /\ IsFiniteSet(Threads)
  /\ IsFiniteSet(Handles)
  /\ Charges \subseteq Nat
  /\ Capacities \subseteq Nat
  /\ MaxRefs \in Nat

VARIABLES
  capacity,  \* capacity_
  live,      \* addresses malloc returned that were not freed
  entry,     \* the LRUHandle fields at an address
  table,     \* table_: the handle found for a key, or NULL
  lru,       \* lru_: cached entries no client references, oldest first
  in_use,    \* in_use_: cached entries clients reference
  usage,     \* usage_: combined charge of the cached entries
  mutex,     \* the thread that holds mutex_, or NULL
  pc,        \* where a thread is
  mine,      \* local e of Insert and Lookup, argument of Release
  victim,    \* the argument of the FinishErase call that comes next
  held,      \* history: references returned to clients and not given back
  closing    \* the destructor has been entered

cache == <<live, entry, table, lru, in_use, usage>>
locals == <<pc, mine, victim>>
vars == <<capacity, cache, mutex, locals, held, closing>>

(* Between two steps of a thread that holds the mutex. *)
Critical ==
  {"lookup_ref", "insert_erase", "insert_trim", "insert_evict",
   "erase_finish", "prune", "prune_evict"}

Blank == [key |-> NULL, charge |-> 0, in_cache |-> FALSE, refs |-> 0]

Entry == [key : Keys \cup {NULL}, charge : Charges \cup {0},
          in_cache : BOOLEAN, refs : Nat]

Init ==
  /\ capacity \in Capacities
  /\ live = {}
  /\ entry = [h \in Handles |-> Blank]
  /\ table = [k \in Keys |-> NULL]
  /\ lru = <<>>
  /\ in_use = {}
  /\ usage = 0
  /\ mutex = NULL
  /\ pc = [t \in Threads |-> "idle"]
  /\ mine = [t \in Threads |-> NULL]
  /\ victim = [t \in Threads |-> NULL]
  /\ held = [h \in Handles |-> 0]
  /\ closing = FALSE

-----------------------------------------------------------------------------
(* The helpers under the mutex.                                            *)

(* Fault: the memory of an entry is not given back. *)
DeallocateLeaks(h) ==
  /\ entry' = [entry EXCEPT ![h].refs = 0]
  /\ UNCHANGED live

(* Unref reached 0: the deleter is called and the entry freed. *)
Deallocate(h) ==
  /\ live' = live \ {h}
  /\ entry' = [entry EXCEPT ![h] = Blank]

(* Fault: the entry is not moved to in_use_. *)
RefInPlace(h) ==
  /\ entry' = [entry EXCEPT ![h].refs = @ + 1]
  /\ UNCHANGED <<lru, in_use>>

(* LRU_Remove unlinks h from whichever list it is on. *)
Ref(h) ==
  /\ entry' = [entry EXCEPT ![h].refs = @ + 1]
  /\ IF entry[h].refs = 1 /\ entry[h].in_cache
     THEN /\ lru' = RemoveFirst(lru, h)
          /\ in_use' = in_use \cup {h}
     ELSE UNCHANGED <<lru, in_use>>

Unlink(h) == lru' = RemoveFirst(lru, h) /\ in_use' = in_use \ {h}

(* Fault: the entry goes to the old end of lru_. *)
MakeOldest(h) == lru' = <<h>> \o lru /\ in_use' = in_use \ {h}

MakeNewest(h) ==
  /\ lru' = Append(RemoveFirst(lru, h), h)
  /\ in_use' = in_use \ {h}

Unref(h) ==
  IF entry[h].refs = 1
  THEN /\ Deallocate(h)
       /\ UNCHANGED <<lru, in_use>>
  ELSE /\ entry' = [entry EXCEPT ![h].refs = @ - 1]
       /\ UNCHANGED live
       /\ IF entry[h].in_cache /\ entry[h].refs = 2
          THEN MakeNewest(h)
          ELSE UNCHANGED <<lru, in_use>>

(* Faults: the cache's reference is kept; the entry is freed though        *)
(* clients reference it.                                                   *)
LeaveCacheLeaks(h) ==
  /\ entry' = [entry EXCEPT ![h].in_cache = FALSE]
  /\ UNCHANGED live

LeaveCacheFrees(h) == Deallocate(h)

(* in_cache is cleared before Unref gives up the cache's own reference,    *)
(* so Unref never moves h to lru_ here.                                    *)
LeaveCache(h) ==
  IF entry[h].refs = 1
  THEN Deallocate(h)
  ELSE /\ entry' = [entry EXCEPT ![h].in_cache = FALSE, ![h].refs = @ - 1]
       /\ UNCHANGED live

(* Fault: usage_ is not reduced. *)
KeepCharge(h) == UNCHANGED usage

Uncharge(h) == usage' = usage - entry[h].charge

(* h has left table_. *)
FinishErase(h) ==
  IF h = NULL
  THEN UNCHANGED <<live, entry, lru, in_use, usage>>
  ELSE Unlink(h) /\ Uncharge(h) /\ LeaveCache(h)

(* Fault: the entry displaced is forgotten. *)
TableInsertForgets(t, k, h) ==
  /\ table' = [table EXCEPT ![k] = h]
  /\ UNCHANGED victim

(* table_.Insert(h) and table_.Remove(key): the handle displaced or        *)
(* removed becomes the next FinishErase's.                                 *)
TableInsert(t, k, h) ==
  /\ table' = [table EXCEPT ![k] = h]
  /\ victim' = [victim EXCEPT ![t] = table[k]]

TableRemove(t, k) ==
  /\ table' = [table EXCEPT ![k] = NULL]
  /\ victim' = [victim EXCEPT ![t] = table[k]]

Lock(t) == mutex = NULL /\ mutex' = t

Goto(t, label) == pc' = [pc EXCEPT ![t] = label]

(* The method returns: its locals die and MutexLock's destructor unlocks.  *)
Return(t) ==
  /\ Goto(t, "idle")
  /\ mine' = [mine EXCEPT ![t] = NULL]
  /\ victim' = [victim EXCEPT ![t] = NULL]
  /\ mutex' = NULL

-----------------------------------------------------------------------------
(* Lookup.                                                                 *)

LookupFind(t, k) ==
  /\ pc[t] = "idle" /\ ~closing
  /\ Lock(t)
  /\ table[k] # NULL => entry[table[k]].refs < MaxRefs
  /\ mine' = [mine EXCEPT ![t] = table[k]]
  /\ Goto(t, "lookup_ref")
  /\ UNCHANGED <<cache, victim, held, closing, capacity>>

LookupRef(t) ==
  /\ pc[t] = "lookup_ref"
  /\ IF mine[t] = NULL
     THEN UNCHANGED <<cache, held>>
     ELSE /\ Ref(mine[t])
          /\ held' = [held EXCEPT ![mine[t]] = @ + 1]
          /\ UNCHANGED <<live, table, usage>>
  /\ Return(t)
  /\ UNCHANGED <<closing, capacity>>

-----------------------------------------------------------------------------
(* Insert.  One reference is the client's; a cached entry has another.     *)

Malloc(h, k, c, cached) ==
  /\ h \notin live
  /\ live' = live \cup {h}
  /\ entry' = [entry EXCEPT ![h] = [key |-> k, charge |-> c,
                                    in_cache |-> cached,
                                    refs |-> IF cached THEN 2 ELSE 1]]

InsertLink(t, k, c, h) ==
  /\ pc[t] = "idle" /\ ~closing
  /\ capacity > 0
  /\ Lock(t)
  /\ Malloc(h, k, c, TRUE)
  /\ in_use' = in_use \cup {h}
  /\ usage' = usage + c
  /\ TableInsert(t, k, h)
  /\ mine' = [mine EXCEPT ![t] = h]
  /\ Goto(t, "insert_erase")
  /\ UNCHANGED <<lru, held, closing, capacity>>

InsertUncached(t, k, c, h) ==
  /\ pc[t] = "idle" /\ ~closing
  /\ capacity = 0
  /\ Lock(t)
  /\ Malloc(h, k, c, FALSE)
  /\ mine' = [mine EXCEPT ![t] = h]
  /\ Goto(t, "insert_trim")
  /\ UNCHANGED <<table, lru, in_use, usage, victim, held, closing, capacity>>

(* FinishErase(table_.Insert(e)), of the entry e displaced, if any. *)
InsertFinishErase(t) ==
  /\ pc[t] = "insert_erase"
  /\ FinishErase(victim[t])
  /\ victim' = [victim EXCEPT ![t] = NULL]
  /\ Goto(t, "insert_trim")
  /\ UNCHANGED <<table, mutex, mine, held, closing, capacity>>

(* Fault: one unit too many may stay. *)
WellOverCapacity == usage > capacity + 1 /\ lru # <<>>

OverCapacity == usage > capacity /\ lru # <<>>

(* Fault: the entry that became idle last. *)
Newest == lru[Len(lru)]

(* lru_.next, which Insert and Prune evict. *)
Oldest == Head(lru)

InsertEvict(t) ==
  /\ pc[t] = "insert_trim"
  /\ OverCapacity
  /\ TableRemove(t, entry[Oldest].key)
  /\ Goto(t, "insert_evict")
  /\ UNCHANGED <<live, entry, lru, in_use, usage, mutex, mine, held, closing, capacity>>

(* Fault: the result of table_.Remove is dropped. *)
InsertDropsEvicted(t) ==
  /\ pc[t] = "insert_evict"
  /\ victim' = [victim EXCEPT ![t] = NULL]
  /\ Goto(t, "insert_trim")
  /\ UNCHANGED <<cache, mutex, mine, held, closing, capacity>>

InsertFinishEvict(t) ==
  /\ pc[t] = "insert_evict"
  /\ FinishErase(victim[t])
  /\ victim' = [victim EXCEPT ![t] = NULL]
  /\ Goto(t, "insert_trim")
  /\ UNCHANGED <<table, mutex, mine, held, closing, capacity>>

InsertReturn(t) ==
  /\ pc[t] = "insert_trim"
  /\ ~OverCapacity
  /\ held' = [held EXCEPT ![mine[t]] = @ + 1]
  /\ Return(t)
  /\ UNCHANGED <<cache, closing, capacity>>

-----------------------------------------------------------------------------
(* Erase and Prune.                                                        *)

EraseUnlink(t, k) ==
  /\ pc[t] = "idle" /\ ~closing
  /\ Lock(t)
  /\ TableRemove(t, k)
  /\ Goto(t, "erase_finish")
  /\ UNCHANGED <<live, entry, lru, in_use, usage, mine, held, closing, capacity>>

EraseFinish(t) ==
  /\ pc[t] = "erase_finish"
  /\ FinishErase(victim[t])
  /\ Return(t)
  /\ UNCHANGED <<table, held, closing, capacity>>

PruneStart(t) ==
  /\ pc[t] = "idle" /\ ~closing
  /\ Lock(t)
  /\ Goto(t, "prune")
  /\ UNCHANGED <<cache, mine, victim, held, closing, capacity>>

PruneUnlink(t) ==
  /\ pc[t] = "prune"
  /\ lru # <<>>
  /\ TableRemove(t, entry[Oldest].key)
  /\ Goto(t, "prune_evict")
  /\ UNCHANGED <<live, entry, lru, in_use, usage, mutex, mine, held, closing, capacity>>

PruneFinishErase(t) ==
  /\ pc[t] = "prune_evict"
  /\ FinishErase(victim[t])
  /\ victim' = [victim EXCEPT ![t] = NULL]
  /\ Goto(t, "prune")
  /\ UNCHANGED <<table, mutex, mine, held, closing, capacity>>

PruneReturn(t) ==
  /\ pc[t] = "prune"
  /\ lru = <<>>
  /\ Return(t)
  /\ UNCHANGED <<cache, held, closing, capacity>>

-----------------------------------------------------------------------------
(* Release: ShardedLRUCache::Release reads h->hash with no lock to choose  *)
(* the shard; only then does LRUCache::Release take the mutex.             *)

ReleaseCall(t, h) ==
  /\ pc[t] = "idle" /\ ~closing
  /\ held[h] > 0
  /\ held' = [held EXCEPT ![h] = @ - 1]
  /\ mine' = [mine EXCEPT ![t] = h]
  /\ Goto(t, "release")
  /\ UNCHANGED <<cache, mutex, victim, closing, capacity>>

ReleaseUnref(t) ==
  /\ pc[t] = "release"
  /\ mutex = NULL
  /\ Unref(mine[t])
  /\ Return(t)
  /\ UNCHANGED <<table, usage, held, closing, capacity>>

-----------------------------------------------------------------------------
(* ~LRUCache takes no lock: no call may be running.  The assertion that    *)
(* in_use_ is empty is all it checks; table_ keeps dangling pointers, and  *)
(* its own destructor follows none of them.                                *)

DestroyStart ==
  /\ ~closing
  /\ \A t \in Threads : pc[t] = "idle"
  /\ in_use = {}
  /\ closing' = TRUE
  /\ UNCHANGED <<cache, mutex, locals, held, capacity>>

DestroyEntry ==
  /\ closing /\ lru # <<>>
  /\ Deallocate(Head(lru))
  /\ lru' = Tail(lru)
  /\ UNCHANGED <<table, in_use, usage, mutex, locals, held, closing, capacity>>

Destroyed == closing /\ lru = <<>> /\ UNCHANGED vars

-----------------------------------------------------------------------------
Call(t) ==
  \/ \E k \in Keys :
       \/ LookupFind(t, k)
       \/ EraseUnlink(t, k)
       \/ \E c \in Charges, h \in Handles :
            InsertLink(t, k, c, h) \/ InsertUncached(t, k, c, h)
  \/ PruneStart(t)
  \/ \E h \in Handles : ReleaseCall(t, h)

(* What a thread that holds the mutex does next. *)
Continue(t) ==
  \/ LookupRef(t)
  \/ InsertFinishErase(t) \/ InsertEvict(t) \/ InsertFinishEvict(t)
  \/ InsertReturn(t)
  \/ EraseFinish(t)
  \/ PruneUnlink(t) \/ PruneFinishErase(t) \/ PruneReturn(t)

Next ==
  \/ \E t \in Threads : Call(t) \/ Continue(t) \/ ReleaseUnref(t)
  \/ DestroyStart \/ DestroyEntry \/ Destroyed

Spec == Init /\ [][Next]_vars

(* A thread inside a critical section keeps running, and so does the       *)
(* destructor.  Nobody is promised the mutex: std::mutex is not fair.      *)
Fairness ==
  /\ \A t \in Threads : WF_vars(Continue(t))
  /\ WF_vars(DestroyEntry)

FairSpec == Spec /\ Fairness

-----------------------------------------------------------------------------
(* Properties.                                                             *)

(* Every variable keeps its type. *)
TypeOK ==
  /\ capacity \in Capacities
  /\ live \subseteq Handles
  /\ entry \in [Handles -> Entry]
  /\ table \in [Keys -> Handles \cup {NULL}]
  /\ lru \in Seq(Handles)
  /\ in_use \subseteq Handles
  /\ usage \in Int
  /\ mutex \in Threads \cup {NULL}
  /\ pc \in [Threads -> Critical \cup {"idle", "release"}]
  /\ mine \in [Threads -> Handles \cup {NULL}]
  /\ victim \in [Threads -> Handles \cup {NULL}]
  /\ held \in [Handles -> Nat]
  /\ closing \in BOOLEAN

Cached(h) == entry[h].in_cache

(* The threads whose local or argument stands for one client reference.    *)
(* What table_.Lookup just found is not referenced yet.                    *)
Holders(h) == {t \in Threads : mine[t] = h /\ pc[t] # "lookup_ref"}

Clients(h) == held[h] + Cardinality(Holders(h))

(* A thread is inside a critical section exactly when it holds the mutex,  *)
(* so two threads never work on the lists and the table at once.           *)
MutualExclusion == \A t \in Threads : pc[t] \in Critical <=> mutex = t

(* The reference count is exactly the references handed to clients plus    *)
(* the cache's own: no lost and no stray reference in any interleaving,    *)
(* although Insert, Lookup, Release and FinishErase each count separately. *)
RefsExact ==
  \A h \in Handles :
    IF h \in live
    THEN /\ entry[h].refs = Clients(h) + (IF Cached(h) THEN 1 ELSE 0)
         /\ entry[h].refs > 0
    ELSE /\ entry[h] = Blank
         /\ Clients(h) = 0

(* The two lists split the cached entries by whether a client references   *)
(* them, and no entry is linked twice.                                     *)
ListsExact ==
  /\ IsInjective(lru)
  /\ ToSet(lru) = {h \in live : Cached(h) /\ entry[h].refs = 1}
  /\ in_use = {h \in live : Cached(h) /\ entry[h].refs > 1}

Victims == {victim[t] : t \in Threads} \ {NULL}

(* The table holds the cached entries, each under its own key, except one  *)
(* the mutex's owner has unlinked and not finished yet.                    *)
TableExact ==
  ~closing =>
    /\ \A k \in Keys : table[k] # NULL =>
         table[k] \in live /\ Cached(table[k]) /\ entry[table[k]].key = k
    /\ \A h \in live : Cached(h) =>
         table[entry[h].key] = h <=> h \notin Victims
    /\ Victims \subseteq {h \in live : Cached(h)}

(* usage_ is the combined charge of the entries in the cache, also in the  *)
(* middle of an Insert that displaces and evicts.                          *)
UsageExact ==
  ~closing => usage = SumFunctionOnSet([h \in Handles |-> entry[h].charge],
                                       {h \in live : Cached(h)})

(* No thread and no client holds a pointer to freed memory; in particular  *)
(* the unlocked reads of h->hash in Release and h->value in Value are of a *)
(* live entry.                                                             *)
NoUseAfterFree ==
  /\ \A h \in Handles : held[h] > 0 => h \in live
  /\ \A t \in Threads : {mine[t], victim[t]} \subseteq live \cup {NULL}
  /\ ToSet(lru) \cup in_use \subseteq live

(* The assertions of cache.cc, each at the step about to evaluate it: in   *)
(* Unref, before eviction, after table_.Remove, in FinishErase, and in the *)
(* destructor's loop.                                                      *)
AssertionsHold ==
  /\ \A t \in Threads :
       /\ pc[t] = "release" =>
            /\ entry[mine[t]].refs > 0
            /\ entry[mine[t]].refs = 1 => ~Cached(mine[t])
       /\ pc[t] \in {"insert_trim", "prune"} /\ lru # <<>> =>
            entry[Head(lru)].refs = 1
       /\ pc[t] \in {"insert_evict", "prune_evict"} => victim[t] # NULL
       /\ victim[t] # NULL => Cached(victim[t])
  /\ closing /\ lru # <<>> =>
       Cached(Head(lru)) /\ entry[Head(lru)].refs = 1

(* Eviction looks its victim up again by key: what it gets is the oldest   *)
(* idle entry, never another one with that key and never a referenced one. *)
EvictsOldest ==
  \A t \in Threads : pc[t] \in {"insert_evict", "prune_evict"} =>
    lru # <<>> /\ victim[t] = Head(lru)

(* The destructor frees every entry but those clients kept referenced. *)
DestructorFrees ==
  closing /\ lru = <<>> => live = {h \in Handles : held[h] > 0}

(* A referenced entry leaves the table only by an Erase or an Insert of    *)
(* its own key; neither eviction nor Prune nor a call on another key takes *)
(* it.                                                                     *)
PinnedStaysCached ==
  [][\A k \in Keys :
       table[k] # NULL /\ Clients(table[k]) > 0 /\ table'[k] # table[k] =>
         \E t \in Threads :
           \/ EraseUnlink(t, k)
           \/ \E c \in Charges, h \in Handles : InsertLink(t, k, c, h)]_vars

(* Entries become evictable in the order they became idle: a step never    *)
(* reorders the survivors of the list nor puts a newcomer before one.      *)
RecencyKept ==
  [][\A i, j \in DOMAIN lru' : i < j /\ lru'[j] \in ToSet(lru) =>
       \E m, n \in DOMAIN lru : m < n /\ lru[m] = lru'[i] /\ lru[n] = lru'[j]]_vars

(* Every critical section ends, so the loops that trim and prune do. *)
CriticalSectionEnds == \A t \in Threads : (mutex = t) ~> (mutex # t)

-----------------------------------------------------------------------------
(* A shard implements the cache clients were promised.  While the          *)
(* destructor runs, the mapping loses an entry when the entry is freed.    *)
Promise == INSTANCE CacheSpec WITH
  alive <- live,
  keyOf <- [h \in Handles |-> entry[h].key],
  mapping <- [k \in Keys |->
                IF table[k] # NULL /\ entry[table[k]].in_cache
                THEN table[k] ELSE NULL],
  clients <- [h \in Handles |-> Clients(h)]

(* Every step of a shard is one the promise allows, or invisible. *)
PromiseKept == Promise!Safety

(* What is neither mapped nor referenced is deleted in the end. *)
PromiseReclaims == Promise!Reclaim

-----------------------------------------------------------------------------
(* What cache.cc says, and the code does not do.                           *)

(* cache.cc:185, "Error if caller has an unreleased handle": the           *)
(* destructor goes past its assertion only if every handle was released.   *)
DestructorSeesHandles == closing => \A h \in Handles : held[h] = 0
=============================================================================
