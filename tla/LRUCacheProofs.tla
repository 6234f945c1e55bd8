---------------------------- MODULE LRUCacheProofs ----------------------------
(***************************************************************************)
(* Theorems about one shard, for any threads, keys, addresses, charges and *)
(* capacity.  IInv is inductive, and everything else follows from it or is *)
(* inductive beside it: the charge counted, what Insert leaves, and the    *)
(* promise of CacheSpec.                                                   *)
(***************************************************************************)
EXTENDS LRUCacheHistory, DataLemmas

(* Which locals are meaningful where.  What table_.Lookup found stays in   *)
(* the table until it is referenced, because the mutex is held.            *)
LocalsOK ==
  \A t \in Threads :
    /\ pc[t] \in {"idle", "erase_finish", "prune", "prune_evict"} => mine[t] = NULL
    /\ pc[t] \in {"release", "insert_erase", "insert_trim", "insert_evict"} =>
         mine[t] # NULL
    /\ pc[t] = "lookup_ref" /\ mine[t] # NULL => \E k \in Keys : table[k] = mine[t]
    /\ victim[t] # NULL =>
         pc[t] \in {"insert_erase", "insert_evict", "erase_finish", "prune_evict"}

KeysOK == \A h \in live : entry[h].key \in Keys

(* No call runs once the destructor has been entered. *)
ClosingOK == closing => in_use = {} /\ \A t \in Threads : pc[t] = "idle"

IInv ==
  /\ TypeOK
  /\ MutualExclusion
  /\ LocalsOK
  /\ KeysOK
  /\ RefsExact
  /\ ListsExact
  /\ TableExact
  /\ EvictsOldest
  /\ ClosingOK

-----------------------------------------------------------------------------
(* Counting references.                                                    *)

(* The threads that stand for a reference to h are finitely many, so     *)
(* their number is a natural.                                            *)
LEMMA HoldersFinite ==
  ASSUME NEW h
  PROVE  IsFiniteSet(Holders(h)) /\ Cardinality(Holders(h)) \in Nat
BY LRUCacheAssumption, FS_Subset, FS_CardinalityType DEF Holders

(* A thread that becomes a holder of h adds one to their number. *)
LEMMA HoldersJoin ==
  ASSUME NEW t \in Threads, NEW h, Holders(h)' = Holders(h) \cup {t}, t \notin Holders(h)
  PROVE  Cardinality(Holders(h)') = Cardinality(Holders(h)) + 1
BY HoldersFinite, FS_AddElement

(* A holder of h that stops being one takes one from their number. *)
LEMMA HoldersLeave ==
  ASSUME NEW t \in Threads, NEW h, Holders(h)' = Holders(h) \ {t}, t \in Holders(h)
  PROVE  Cardinality(Holders(h)') = Cardinality(Holders(h)) - 1
BY HoldersFinite, FS_RemoveElement

(* A step of t changes how often h is held by what t itself holds before   *)
(* and after.                                                              *)
Holds(t, h) == IF mine[t] = h /\ pc[t] # "lookup_ref" THEN 1 ELSE 0

(* What one step of thread t can do to the holders of an entry. *)
LEMMA HoldersStep ==
  ASSUME TypeOK, NEW t \in Threads, NEW p, NEW m, NEW h \in Handles,
         pc' = [pc EXCEPT ![t] = p], mine' = [mine EXCEPT ![t] = m]
  PROVE  /\ Cardinality(Holders(h)) \in Nat
         /\ Cardinality(Holders(h)') =
              Cardinality(Holders(h)) - Holds(t, h)
                + (IF m = h /\ p # "lookup_ref" THEN 1 ELSE 0)
<1>1. Cardinality(Holders(h)) \in Nat
  BY HoldersFinite
<1>2. \A u \in Threads \ {t} : u \in Holders(h)' <=> u \in Holders(h)
  BY DEF TypeOK, Holders
<1>3. t \in Holders(h)' <=> m = h /\ p # "lookup_ref"
  BY DEF TypeOK, Holders
<1>4. t \in Holders(h) <=> Holds(t, h) = 1
  BY DEF Holders, Holds
<1>5. Holders(h) \subseteq Threads /\ Holders(h)' \subseteq Threads
  BY DEF Holders
<1>6. CASE t \in Holders(h) /\ t \in Holders(h)'
  <2>1. Holders(h)' = Holders(h)
    BY <1>2, <1>5, <1>6
  <2> QED
    BY <2>1, <1>1, <1>3, <1>4, <1>6
<1>7. CASE t \in Holders(h) /\ t \notin Holders(h)'
  <2>1. Holders(h)' = Holders(h) \ {t}
    BY <1>2, <1>5, <1>7
  <2>2. Cardinality(Holders(h)') = Cardinality(Holders(h)) - 1
    BY <2>1, <1>7, HoldersLeave
  <2> QED
    BY <2>2, <1>1, <1>3, <1>4, <1>7
<1>8. CASE t \notin Holders(h) /\ t \in Holders(h)'
  <2>1. Holders(h)' = Holders(h) \cup {t}
    BY <1>2, <1>5, <1>8
  <2>2. Cardinality(Holders(h)') = Cardinality(Holders(h)) + 1
    BY <2>1, <1>8, HoldersJoin
  <2> QED
    BY <2>2, <1>1, <1>3, <1>4, <1>8 DEF Holds
<1>9. CASE t \notin Holders(h) /\ t \notin Holders(h)'
  <2>1. Holders(h)' = Holders(h)
    BY <1>2, <1>5, <1>9
  <2> QED
    BY <2>1, <1>1, <1>3, <1>4, <1>9 DEF Holds
<1> QED
  BY <1>6, <1>7, <1>8, <1>9

(* The same for a step that does not end in the middle of a Lookup. *)
LEMMA HoldersStepReferenced ==
  ASSUME TypeOK, NEW t \in Threads, NEW p, NEW m, NEW h \in Handles,
         pc' = [pc EXCEPT ![t] = p], mine' = [mine EXCEPT ![t] = m],
         p # "lookup_ref"
  PROVE  /\ Cardinality(Holders(h)) \in Nat
         /\ Cardinality(Holders(h)') =
              Cardinality(Holders(h)) - Holds(t, h) + (IF m = h THEN 1 ELSE 0)
<1>1. /\ Cardinality(Holders(h)) \in Nat
      /\ Cardinality(Holders(h)') =
           Cardinality(Holders(h)) - Holds(t, h)
             + (IF m = h /\ p # "lookup_ref" THEN 1 ELSE 0)
  BY HoldersStep
<1>2. (IF m = h /\ p # "lookup_ref" THEN 1 ELSE 0) = IF m = h THEN 1 ELSE 0
  OBVIOUS
<1> QED
  BY <1>1, <1>2

-----------------------------------------------------------------------------
(* What the helpers do to the two lists.                                   *)

(* The types of the variables the helpers change. *)
CacheTypeOK ==
  /\ live \subseteq Handles
  /\ entry \in [Handles -> Entry]
  /\ lru \in Seq(Handles)
  /\ in_use \subseteq Handles
  /\ usage \in Int

CountedOK ==
  \A h \in Handles : IF h \in live THEN entry[h].refs > 0 ELSE entry[h] = Blank

(* The contents of freed memory have the type of an entry, are not       *)
(* cached and have no references.                                        *)
LEMMA BlankIsEntry == Blank \in Entry /\ Blank.in_cache = FALSE /\ Blank.refs = 0
BY DEF Blank, Entry

(* The fields of a value of type Entry have their types. *)
LEMMA EntryFields ==
  ASSUME NEW x \in Entry
  PROVE  x.refs \in Nat /\ x.charge \in Nat /\ x.in_cache \in BOOLEAN
<1>1. Charges \cup {0} \subseteq Nat
  BY LRUCacheAssumption
<1> QED
  BY <1>1 DEF Entry

(* Counting up or down, and leaving the cache, keep an entry an entry. *)
LEMMA EntryCounted ==
  ASSUME NEW x \in Entry, NEW n \in Nat
  PROVE  LET y == [x EXCEPT !.refs = n]
         IN  /\ y \in Entry
             /\ y.refs = n /\ y.in_cache = x.in_cache
             /\ y.key = x.key /\ y.charge = x.charge
<1> DEFINE y == [x EXCEPT !.refs = n]
<1>1. y \in Entry
  BY DEF Entry
<1>2. y.refs = n /\ y.in_cache = x.in_cache
  BY DEF Entry
<1>3. y.key = x.key /\ y.charge = x.charge
  BY DEF Entry
<1> QED
  BY <1>1, <1>2, <1>3

(* Clearing in_cache and dropping one reference, as FinishErase does,    *)
(* keeps the type of the entries.                                        *)
LEMMA EntryUncached ==
  ASSUME NEW x \in Entry, NEW n \in Nat
  PROVE  LET y == [x EXCEPT !.in_cache = FALSE, !.refs = n]
         IN  /\ y \in Entry
             /\ y.refs = n /\ y.in_cache = FALSE
             /\ y.key = x.key /\ y.charge = x.charge
<1> DEFINE y == [x EXCEPT !.in_cache = FALSE, !.refs = n]
<1>1. y \in Entry
  BY DEF Entry
<1>2. y.refs = n /\ y.in_cache = FALSE
  BY DEF Entry
<1>3. y.key = x.key /\ y.charge = x.charge
  BY DEF Entry
<1> QED
  BY <1>1, <1>2, <1>3

(* Ref moves an idle entry to in_use_. *)
LEMMA RefStep ==
  ASSUME CacheTypeOK, CountedOK, ListsExact, NEW e \in live, Ref(e),
         live' = live, usage' = usage
  PROVE  CacheTypeOK' /\ CountedOK' /\ ListsExact'
         /\ entry' = [entry EXCEPT ![e].refs = @ + 1]
<1> DEFINE r == RemoveFirst(lru, e)
<1>1. r \in Seq(Handles) /\ IsInjective(r) /\ ToSet(r) = ToSet(lru) \ {e}
  BY RemoveFirstProperties DEF CacheTypeOK, ListsExact
<1>2. entry' = [entry EXCEPT ![e].refs = @ + 1]
  BY DEF Ref
<1>3. entry' \in [Handles -> Entry]
  <2> DEFINE y == [entry[e] EXCEPT !.refs = entry[e].refs + 1]
  <2>1. y \in Entry
    <3>1. entry[e] \in Entry /\ entry[e].refs + 1 \in Nat
      BY EntryFields DEF CacheTypeOK
    <3> QED
      BY <3>1, EntryCounted
  <2>2. entry' = [entry EXCEPT ![e] = y]
    BY <1>2
  <2> HIDE DEF y
  <2> QED
    BY <2>1, <2>2 DEF CacheTypeOK
<1>4. CacheTypeOK'
  BY <1>1, <1>3 DEF CacheTypeOK, Ref
<1>5. /\ entry'[e].refs = entry[e].refs + 1
      /\ entry'[e].in_cache = entry[e].in_cache
      /\ entry[e].refs > 0
      /\ entry[e].refs \in Nat
      /\ \A g \in Handles \ {e} : entry'[g] = entry[g]
  BY <1>2 DEF CountedOK, CacheTypeOK, Entry
<1>6. CountedOK'
  BY <1>5 DEF CountedOK, CacheTypeOK
<1>7. ListsExact'
  <2>1. CASE entry[e].refs = 1 /\ entry[e].in_cache
    <3>1. lru' = r /\ in_use' = in_use \cup {e}
      BY <2>1 DEF Ref
    <3> HIDE DEF r
    <3>2. IsInjective(lru')
      BY <3>1, <1>1
    <3>3. ToSet(lru') = {h \in live : entry'[h].in_cache /\ entry'[h].refs = 1}
      BY <3>1, <2>1, <1>1, <1>5 DEF ListsExact, Cached, CacheTypeOK
    <3>4. in_use' = {h \in live : entry'[h].in_cache /\ entry'[h].refs > 1}
      <4>1. entry[e].refs + 1 > 1 /\ entry[e].refs = 1 /\ e \in live
        BY <2>1, <1>5
      <4>2. \A h \in live : entry'[h].in_cache = entry[h].in_cache
        BY <1>5 DEF CacheTypeOK
      <4> QED
        BY <4>1, <4>2, <3>1, <2>1, <1>5 DEF ListsExact, Cached, CacheTypeOK
    <3> QED
      BY <3>2, <3>3, <3>4 DEF ListsExact, Cached
  <2>2. CASE ~(entry[e].refs = 1 /\ entry[e].in_cache)
    <3>1. lru' = lru /\ in_use' = in_use
      BY <2>2 DEF Ref
    <3> QED
      BY <3>1, <2>2, <1>5 DEF ListsExact, Cached, CacheTypeOK
  <2> QED
    BY <2>1, <2>2
<1> QED
  BY <1>2, <1>4, <1>6, <1>7

(* Unref frees an entry out of the cache, or moves a cached one to lru_. *)
LEMMA UnrefStep ==
  ASSUME CacheTypeOK, CountedOK, ListsExact, NEW e \in live, Unref(e),
         entry[e].refs = 1 => ~Cached(e), usage' = usage
  PROVE  /\ CacheTypeOK' /\ CountedOK' /\ ListsExact'
         /\ live' = IF entry[e].refs = 1 THEN live \ {e} ELSE live
         /\ entry' = IF entry[e].refs = 1
                     THEN [entry EXCEPT ![e] = Blank]
                     ELSE [entry EXCEPT ![e].refs = @ - 1]
<1>1. /\ live' = IF entry[e].refs = 1 THEN live \ {e} ELSE live
      /\ entry' = IF entry[e].refs = 1
                  THEN [entry EXCEPT ![e] = Blank]
                  ELSE [entry EXCEPT ![e].refs = @ - 1]
  BY DEF Unref, Deallocate
<1>2. entry[e].refs \in Nat \ {0} /\ e \in Handles
  BY DEF CountedOK, CacheTypeOK, Entry
<1>3. entry' \in [Handles -> Entry]
  <2> DEFINE y == [entry[e] EXCEPT !.refs = entry[e].refs - 1]
  <2>1. y \in Entry
    <3>1. entry[e] \in Entry /\ entry[e].refs - 1 \in Nat
      BY <1>2 DEF CacheTypeOK
    <3> QED
      BY <3>1, EntryCounted
  <2>2. \/ entry' = [entry EXCEPT ![e] = y]
        \/ entry' = [entry EXCEPT ![e] = Blank]
    BY <1>1
  <2> HIDE DEF y
  <2> QED
    BY <2>1, <2>2, BlankIsEntry DEF CacheTypeOK
<1>4. CountedOK'
  <2>1. \A g \in Handles \ {e} : entry'[g] = entry[g] /\ (g \in live' <=> g \in live)
    BY <1>1 DEF CacheTypeOK
  <2>2. IF e \in live' THEN entry'[e].refs > 0 ELSE entry'[e] = Blank
    BY <1>1, <1>2 DEF CacheTypeOK, Entry
  <2> QED
    BY <2>1, <2>2 DEF CountedOK
<1>5. CASE entry[e].refs = 1
  <2>1. lru' = lru /\ in_use' = in_use
    BY <1>5 DEF Unref, MakeNewest
  <2>2. CacheTypeOK'
    BY <2>1, <1>1, <1>3 DEF CacheTypeOK
  <2>3. ListsExact'
    BY <2>1, <1>5, <1>1, <1>2 DEF ListsExact, Cached, CacheTypeOK
  <2> QED
    BY <2>2, <2>3, <1>1, <1>4
<1>6. CASE entry[e].refs # 1 /\ entry[e].in_cache /\ entry[e].refs = 2
  <2> DEFINE r == RemoveFirst(lru, e)
             a == Append(r, e)
  <2>1. r \in Seq(Handles) /\ IsInjective(r) /\ ToSet(r) = ToSet(lru) \ {e}
    BY RemoveFirstProperties DEF CacheTypeOK, ListsExact
  <2>2. a \in Seq(Handles) /\ IsInjective(a) /\ ToSet(a) = ToSet(lru) \cup {e}
    <3> HIDE DEF r
    <3> QED
      BY <2>1, <1>2, AppendNewProperties
  <2>3. lru' = a /\ in_use' = in_use \ {e}
    BY <1>6 DEF Unref, MakeNewest
  <2> HIDE DEF r, a
  <2>4. CacheTypeOK'
    BY <2>2, <2>3, <1>1, <1>3, <1>6 DEF CacheTypeOK
  <2>5. /\ entry'[e].refs = 1 /\ entry'[e].in_cache /\ live' = live
        /\ \A g \in Handles \ {e} : entry'[g] = entry[g]
    BY <1>1, <1>2, <1>6 DEF CacheTypeOK, Entry
  <2>6. ListsExact'
    BY <2>2, <2>3, <2>5, <1>6 DEF ListsExact, Cached, CacheTypeOK
  <2> QED
    BY <2>4, <2>6, <1>1, <1>4
<1>7. CASE entry[e].refs # 1 /\ ~(entry[e].in_cache /\ entry[e].refs = 2)
  <2>1. lru' = lru /\ in_use' = in_use
    BY <1>7 DEF Unref, MakeNewest
  <2>2. CacheTypeOK'
    BY <2>1, <1>1, <1>3, <1>7 DEF CacheTypeOK
  <2>3. /\ entry'[e].refs = entry[e].refs - 1 /\ live' = live
        /\ entry'[e].in_cache = entry[e].in_cache
        /\ \A g \in Handles \ {e} : entry'[g] = entry[g]
    BY <1>1, <1>2, <1>7 DEF CacheTypeOK, Entry
  <2>4. ListsExact'
    BY <2>1, <2>3, <1>2, <1>7 DEF ListsExact, Cached, CacheTypeOK
  <2> QED
    BY <2>2, <2>4, <1>1, <1>4
<1> QED
  BY <1>5, <1>6, <1>7

(* FinishErase takes an entry off its list and drops one reference. *)
LEMMA FinishEraseStep ==
  ASSUME CacheTypeOK, CountedOK, ListsExact, NEW e \in live, Cached(e),
         e # NULL, FinishErase(e)
  PROVE  /\ CacheTypeOK' /\ CountedOK' /\ ListsExact'
         /\ live' = IF entry[e].refs = 1 THEN live \ {e} ELSE live
         /\ entry' = IF entry[e].refs = 1
                     THEN [entry EXCEPT ![e] = Blank]
                     ELSE [entry EXCEPT ![e].in_cache = FALSE, ![e].refs = @ - 1]
<1> DEFINE r == RemoveFirst(lru, e)
<1>1. r \in Seq(Handles) /\ IsInjective(r) /\ ToSet(r) = ToSet(lru) \ {e}
  BY RemoveFirstProperties DEF CacheTypeOK, ListsExact
<1>2. lru' = r /\ in_use' = in_use \ {e} /\ usage' = usage - entry[e].charge
  BY DEF FinishErase, Unlink, Uncharge
<1> HIDE DEF r
<1>3. /\ live' = IF entry[e].refs = 1 THEN live \ {e} ELSE live
      /\ entry' = IF entry[e].refs = 1
                  THEN [entry EXCEPT ![e] = Blank]
                  ELSE [entry EXCEPT ![e].in_cache = FALSE, ![e].refs = @ - 1]
  BY DEF FinishErase, LeaveCache, Deallocate
<1>4. entry[e].refs \in Nat \ {0} /\ e \in Handles /\ entry[e].charge \in Int
  BY EntryFields DEF CountedOK, CacheTypeOK
<1>5. entry' \in [Handles -> Entry]
  <2> DEFINE y == [entry[e] EXCEPT !.in_cache = FALSE, !.refs = entry[e].refs - 1]
  <2>1. y \in Entry
    <3>1. entry[e] \in Entry /\ entry[e].refs - 1 \in Nat
      BY <1>4 DEF CacheTypeOK
    <3> QED
      BY <3>1, EntryUncached
  <2>2. \/ entry' = [entry EXCEPT ![e] = y]
        \/ entry' = [entry EXCEPT ![e] = Blank]
    BY <1>3
  <2> HIDE DEF y
  <2> QED
    BY <2>1, <2>2, BlankIsEntry DEF CacheTypeOK
<1>6. CountedOK'
  <2>1. \A g \in Handles \ {e} : entry'[g] = entry[g] /\ (g \in live' <=> g \in live)
    BY <1>3 DEF CacheTypeOK
  <2>2. IF e \in live' THEN entry'[e].refs > 0 ELSE entry'[e] = Blank
    BY <1>3, <1>4 DEF CacheTypeOK, Entry
  <2> QED
    BY <2>1, <2>2 DEF CountedOK
<1>7. CacheTypeOK'
  BY <1>1, <1>2, <1>3, <1>4, <1>5 DEF CacheTypeOK
<1>8. /\ ~entry'[e].in_cache
      /\ \A g \in Handles \ {e} : entry'[g] = entry[g]
  BY <1>3, <1>4, BlankIsEntry DEF CacheTypeOK, Entry
<1>9. ListsExact'
  BY <1>1, <1>2, <1>3, <1>4, <1>8 DEF ListsExact, Cached, CacheTypeOK
<1> QED
  BY <1>3, <1>6, <1>7, <1>9

-----------------------------------------------------------------------------
(* What the invariant says where a step begins.                            *)

(* The inductive invariant is the conjunction of its named parts. *)
LEMMA IInvParts ==
  ASSUME IInv
  PROVE  /\ CacheTypeOK /\ CountedOK
         /\ \A h \in Handles : Clients(h) \in Nat
         /\ NULL \notin Handles /\ NULL \notin Threads /\ NULL \notin Keys
<1>1. \A h \in Handles : Cardinality(Holders(h)) \in Nat
  BY HoldersFinite
<1>2. NULL \notin Handles /\ NULL \notin Threads /\ NULL \notin Keys
  BY LRUCacheAssumption
<1>3. CacheTypeOK
  BY DEF IInv, TypeOK, CacheTypeOK
<1>4. CountedOK
  BY DEF IInv, RefsExact, CountedOK
<1>5. \A h \in Handles : Clients(h) \in Nat
  BY <1>1 DEF IInv, TypeOK, Clients
<1> QED
  BY <1>2, <1>3, <1>4, <1>5

(* Where one thread holds or takes the mutex, no other one is in a         *)
(* critical section or has a victim.                                       *)
LEMMA OwnerAlone ==
  ASSUME IInv, NEW t \in Threads, mutex = t \/ mutex = NULL
  PROVE  /\ \A u \in Threads \ {t} : pc[u] \notin Critical /\ victim[u] = NULL
         /\ Victims = {victim[t]} \ {NULL}
<1>1. \A u \in Threads \ {t} : pc[u] \notin Critical
  BY LRUCacheAssumption DEF IInv, MutualExclusion
<1>2. \A u \in Threads \ {t} : victim[u] = NULL
  BY <1>1 DEF IInv, LocalsOK, Critical
<1> QED
  BY <1>1, <1>2 DEF Victims

(* The victims after thread t has set its own local victim. *)
LEMMA NewVictims ==
  ASSUME IInv, NEW t \in Threads, mutex = t \/ mutex = NULL, NEW v,
         victim' = [victim EXCEPT ![t] = v]
  PROVE  Victims' = {v} \ {NULL}
BY OwnerAlone DEF Victims, IInv, TypeOK

(* A step of t that keeps what t holds leaves every count as it is. *)
LEMMA SameHolders ==
  ASSUME TypeOK, NEW t \in Threads, NEW p, NEW m,
         pc' = [pc EXCEPT ![t] = p], mine' = [mine EXCEPT ![t] = m],
         \/ m = mine[t] /\ p # "lookup_ref" /\ pc[t] # "lookup_ref"
         \/ mine[t] \notin Handles /\ (m \notin Handles \/ p = "lookup_ref")
  PROVE  \A h \in Handles : Cardinality(Holders(h)') = Cardinality(Holders(h))
<1> SUFFICES ASSUME NEW h \in Handles
             PROVE  Cardinality(Holders(h)') = Cardinality(Holders(h))
  OBVIOUS
<1>1. /\ Cardinality(Holders(h)) \in Nat
      /\ Cardinality(Holders(h)') =
           Cardinality(Holders(h)) - Holds(t, h)
             + (IF m = h /\ p # "lookup_ref" THEN 1 ELSE 0)
  BY HoldersStep
<1>2. Holds(t, h) = IF m = h /\ p # "lookup_ref" THEN 1 ELSE 0
  BY DEF Holds
<1> QED
  BY <1>1, <1>2
-----------------------------------------------------------------------------
(* The second half of an unlinking: FinishErase of the victim, in Insert   *)
(* (twice), Erase and Prune.                                               *)
LEMMA VictimFinished ==
  ASSUME IInv, NEW t \in Threads, mutex = t, FinishErase(victim[t]),
         victim' = [victim EXCEPT ![t] = NULL],
         UNCHANGED <<table, held, closing, capacity>>,
         \A h \in Handles : Cardinality(Holders(h)') = Cardinality(Holders(h))
  PROVE  CacheTypeOK' /\ KeysOK' /\ RefsExact' /\ ListsExact' /\ TableExact'
<1>0. PICK e : e = victim[t]
  OBVIOUS
<1>1. CacheTypeOK /\ CountedOK /\ ListsExact /\ NULL \notin Handles
  BY IInvParts DEF IInv
<1>2. Victims = {e} \ {NULL} /\ Victims' = {}
  BY <1>0, OwnerAlone, NewVictims
<1>3. \A h \in Handles : Clients(h)' = Clients(h) /\ Clients(h) \in Nat
  BY IInvParts DEF Clients
<1>4. CASE e = NULL
  <2>1. UNCHANGED <<live, entry, lru, in_use, usage>>
    BY <1>0, <1>4 DEF FinishErase
  <2>2. CacheTypeOK' /\ KeysOK' /\ ListsExact'
    BY <2>1, <1>1 DEF CacheTypeOK, KeysOK, ListsExact, Cached, IInv
  <2>3. RefsExact'
    BY <2>1, <1>3 DEF RefsExact, Cached, IInv
  <2>4. TableExact'
    BY <2>1, <1>2, <1>4 DEF TableExact, Cached, IInv
  <2> QED
    BY <2>2, <2>3, <2>4
<1>5. CASE e # NULL
  <2>1. ~closing
    BY <1>0, <1>5 DEF IInv, ClosingOK, LocalsOK
  <2>2. e \in live /\ Cached(e) /\ e \in Handles
    BY <2>1, <1>1, <1>2, <1>5 DEF IInv, TableExact, CacheTypeOK
  <2>3. /\ CacheTypeOK' /\ CountedOK' /\ ListsExact'
        /\ live' = IF entry[e].refs = 1 THEN live \ {e} ELSE live
        /\ entry' = IF entry[e].refs = 1
                    THEN [entry EXCEPT ![e] = Blank]
                    ELSE [entry EXCEPT ![e].in_cache = FALSE, ![e].refs = @ - 1]
    BY <1>0, <1>1, <1>5, <2>2, FinishEraseStep
  <2>4. /\ \A g \in Handles \ {e} : entry'[g] = entry[g] /\ (g \in live' <=> g \in live)
        /\ ~entry'[e].in_cache
        /\ e \in live' => entry'[e].key = entry[e].key
        /\ e \in live' => entry'[e].refs = entry[e].refs - 1
        /\ e \in live' <=> entry[e].refs # 1
    BY <2>3, <2>2, BlankIsEntry DEF CacheTypeOK, Entry
  <2>5. KeysOK'
    BY <2>2, <2>3, <2>4, <1>1 DEF IInv, KeysOK, CacheTypeOK
  <2>6. RefsExact'
    <3> SUFFICES ASSUME NEW h \in Handles
                 PROVE  IF h \in live'
                        THEN /\ entry'[h].refs = Clients(h)' + (IF entry'[h].in_cache THEN 1 ELSE 0)
                             /\ entry'[h].refs > 0
                        ELSE entry'[h] = Blank /\ Clients(h)' = 0
      BY DEF RefsExact, Cached
    <3>1. CASE h # e
      <4>1. IF h \in live
            THEN /\ entry[h].refs = Clients(h) + (IF entry[h].in_cache THEN 1 ELSE 0)
                 /\ entry[h].refs > 0
            ELSE entry[h] = Blank /\ Clients(h) = 0
        BY DEF IInv, RefsExact, Cached
      <4>2. entry'[h] = entry[h] /\ (h \in live' <=> h \in live) /\ Clients(h)' = Clients(h)
        BY <3>1, <2>4, <1>3
      <4> QED
        BY <4>1, <4>2
    <3>2. CASE h = e
      <4>1. entry[e].refs = Clients(e) + 1 /\ Clients(e)' = Clients(e) /\ Clients(e) \in Nat
        BY <2>2, <1>3 DEF IInv, RefsExact, Cached
      <4>2. CASE entry[e].refs = 1
        <5>1. Clients(e)' = 0 /\ e \notin live' /\ entry'[e] = Blank
          BY <4>1, <4>2, <2>2, <2>3, <2>4 DEF CountedOK
        <5> QED
          BY <5>1, <3>2
      <4>3. CASE entry[e].refs # 1
        <5>1. /\ e \in live' /\ ~entry'[e].in_cache
              /\ entry'[e].refs = Clients(e)' /\ Clients(e)' > 0
          BY <4>1, <4>3, <2>4
        <5> QED
          BY <5>1, <4>1, <3>2
      <4> QED
        BY <4>2, <4>3
    <3> QED
      BY <3>1, <3>2
  <2>7. TableExact'
    <3>1. /\ \A k \in Keys : table[k] # NULL =>
               table[k] \in live /\ Cached(table[k]) /\ entry[table[k]].key = k
          /\ \A h \in live : Cached(h) =>
               (table[entry[h].key] = h <=> h \notin Victims)
      BY <2>1 DEF IInv, TableExact
    <3>2. table[entry[e].key] # e
      BY <3>1, <2>2, <1>2, <1>5
    <3>3. \A k \in Keys : table[k] # e
      BY <3>1, <3>2, <1>5
    <3>4. \A k \in Keys : table[k] # NULL =>
            table[k] \in live' /\ entry'[table[k]].in_cache /\ entry'[table[k]].key = k
      BY <3>1, <3>3, <2>4, <1>1 DEF Cached, CacheTypeOK
    <3>5. \A h \in live' : entry'[h].in_cache => table[entry'[h].key] = h
      BY <3>1, <2>3, <2>4, <1>2 DEF Cached, CacheTypeOK
    <3> QED
      BY <3>4, <3>5, <1>2 DEF TableExact, Cached
  <2> QED
    BY <2>3, <2>5, <2>6, <2>7
<1> QED
  BY <1>4, <1>5

-----------------------------------------------------------------------------
(* One lemma per action: the invariant is preserved.                       *)

(* table_.Lookup under the mutex preserves the invariant. *)
LEMMA LookupFindKeeps ==
  ASSUME IInv, NEW t \in Threads, NEW k \in Keys, LookupFind(t, k)
  PROVE  IInv'
<1>1. /\ pc[t] = "idle" /\ ~closing /\ mutex = NULL /\ mutex' = t
      /\ pc' = [pc EXCEPT ![t] = "lookup_ref"]
      /\ mine' = [mine EXCEPT ![t] = table[k]]
      /\ UNCHANGED <<live, entry, table, lru, in_use, usage, victim, held, closing, capacity>>
  BY DEF LookupFind, Lock, Goto, cache
<1>2. mine[t] = NULL
  BY <1>1 DEF IInv, LocalsOK
<1>3. \A h \in Handles : Clients(h)' = Clients(h)
  BY <1>1, <1>2, SameHolders, LRUCacheAssumption DEF IInv, Clients
<1>4. TypeOK'
  BY <1>1 DEF IInv, TypeOK, Critical
<1>5. MutualExclusion'
  BY <1>1, LRUCacheAssumption DEF IInv, MutualExclusion, Critical, TypeOK
<1>6. LocalsOK'
  BY <1>1 DEF IInv, LocalsOK, TypeOK
<1>7. KeysOK' /\ ListsExact' /\ ClosingOK'
  BY <1>1 DEF IInv, KeysOK, ListsExact, Cached, ClosingOK
<1>8. RefsExact'
  BY <1>1, <1>3 DEF IInv, RefsExact, Cached
<1>9. TableExact'
  BY <1>1 DEF IInv, TableExact, Cached, Victims
<1>10. EvictsOldest'
  BY <1>1 DEF IInv, EvictsOldest, TypeOK
<1> QED
  BY <1>4, <1>5, <1>6, <1>7, <1>8, <1>9, <1>10 DEF IInv

(* Entering Prune preserves the invariant. *)
LEMMA PruneStartKeeps ==
  ASSUME IInv, NEW t \in Threads, PruneStart(t)
  PROVE  IInv'
<1>1. /\ pc[t] = "idle" /\ ~closing /\ mutex = NULL /\ mutex' = t
      /\ pc' = [pc EXCEPT ![t] = "prune"]
      /\ mine' = [mine EXCEPT ![t] = mine[t]]
      /\ UNCHANGED <<live, entry, table, lru, in_use, usage, mine, victim, held, closing, capacity>>
  BY DEF PruneStart, Lock, Goto, cache, IInv, TypeOK
<1>2. mine[t] = NULL
  BY <1>1 DEF IInv, LocalsOK
<1>3. \A h \in Handles : Clients(h)' = Clients(h)
  BY <1>1, <1>2, SameHolders DEF IInv, Clients
<1>4. TypeOK'
  BY <1>1 DEF IInv, TypeOK, Critical
<1>5. MutualExclusion'
  BY <1>1, LRUCacheAssumption DEF IInv, MutualExclusion, Critical, TypeOK
<1>6. LocalsOK'
  BY <1>1 DEF IInv, LocalsOK, TypeOK
<1>7. KeysOK' /\ ListsExact' /\ ClosingOK'
  BY <1>1 DEF IInv, KeysOK, ListsExact, Cached, ClosingOK
<1>8. RefsExact'
  BY <1>1, <1>3 DEF IInv, RefsExact, Cached
<1>9. TableExact'
  BY <1>1 DEF IInv, TableExact, Cached, Victims
<1>10. EvictsOldest'
  BY <1>1 DEF IInv, EvictsOldest, TypeOK
<1> QED
  BY <1>4, <1>5, <1>6, <1>7, <1>8, <1>9, <1>10 DEF IInv

(* Leaving Prune preserves the invariant. *)
LEMMA PruneReturnKeeps ==
  ASSUME IInv, NEW t \in Threads, PruneReturn(t)
  PROVE  IInv'
<1>1. /\ pc[t] = "prune" /\ mutex' = NULL
      /\ pc' = [pc EXCEPT ![t] = "idle"]
      /\ mine' = [mine EXCEPT ![t] = NULL]
      /\ victim' = [victim EXCEPT ![t] = NULL]
      /\ UNCHANGED <<live, entry, table, lru, in_use, usage, held, closing, capacity>>
  BY DEF PruneReturn, Return, Goto, cache
<1>2. mutex = t /\ mine[t] = NULL /\ victim[t] = NULL /\ NULL \notin Handles
  BY <1>1, LRUCacheAssumption DEF IInv, LocalsOK, MutualExclusion, Critical
<1>3. \A h \in Handles : Clients(h)' = Clients(h)
  BY <1>1, <1>2, SameHolders DEF IInv, Clients
<1>4. TypeOK'
  BY <1>1 DEF IInv, TypeOK, Critical
<1>5. MutualExclusion'
  BY <1>1, <1>2, LRUCacheAssumption DEF IInv, MutualExclusion, Critical, TypeOK
<1>6. LocalsOK'
  BY <1>1 DEF IInv, LocalsOK, TypeOK
<1>7. KeysOK' /\ ListsExact' /\ ClosingOK'
  BY <1>1 DEF IInv, KeysOK, ListsExact, Cached, ClosingOK
<1>8. RefsExact'
  BY <1>1, <1>3 DEF IInv, RefsExact, Cached
<1>9. TableExact'
  <2>1. victim' = victim
    BY <1>1, <1>2 DEF IInv, TypeOK
  <2> QED
    BY <1>1, <2>1 DEF IInv, TableExact, Cached, Victims
<1>10. EvictsOldest'
  BY <1>1 DEF IInv, EvictsOldest, TypeOK
<1> QED
  BY <1>4, <1>5, <1>6, <1>7, <1>8, <1>9, <1>10 DEF IInv

(* Insert handing its reference to the client preserves the invariant. *)
LEMMA InsertReturnKeeps ==
  ASSUME IInv, NEW t \in Threads, InsertReturn(t)
  PROVE  IInv'
<1>1. /\ pc[t] = "insert_trim" /\ mutex' = NULL
      /\ held' = [held EXCEPT ![mine[t]] = @ + 1]
      /\ pc' = [pc EXCEPT ![t] = "idle"]
      /\ mine' = [mine EXCEPT ![t] = NULL]
      /\ victim' = [victim EXCEPT ![t] = NULL]
      /\ UNCHANGED <<live, entry, table, lru, in_use, usage, closing, capacity>>
  BY DEF InsertReturn, Return, Goto, cache
<1>2. mutex = t /\ mine[t] \in Handles /\ victim[t] = NULL /\ NULL \notin Handles
  BY <1>1, LRUCacheAssumption DEF IInv, LocalsOK, MutualExclusion, Critical, TypeOK
<1>3. \A h \in Handles : Clients(h)' = Clients(h)
  <2> SUFFICES ASSUME NEW h \in Handles
               PROVE  Clients(h)' = Clients(h)
    OBVIOUS
  <2>1. /\ Cardinality(Holders(h)) \in Nat
        /\ Cardinality(Holders(h)') = Cardinality(Holders(h)) - Holds(t, h) + (IF NULL = h THEN 1 ELSE 0)
    BY <1>1, HoldersStepReferenced DEF IInv
  <2>2. Holds(t, h) = IF mine[t] = h THEN 1 ELSE 0
    BY <1>1 DEF Holds
  <2>3. held[h] \in Nat /\ held'[h] = IF mine[t] = h THEN held[h] + 1 ELSE held[h]
    BY <1>1 DEF IInv, TypeOK
  <2>4. held'[h] + Cardinality(Holders(h)') = held[h] + Cardinality(Holders(h))
    BY <1>2, <2>1, <2>2, <2>3
  <2> QED
    BY <2>4 DEF Clients
<1>4. TypeOK'
  BY <1>1, <1>2 DEF IInv, TypeOK, Critical
<1>5. MutualExclusion'
  BY <1>1, <1>2, LRUCacheAssumption DEF IInv, MutualExclusion, Critical, TypeOK
<1>6. LocalsOK'
  BY <1>1 DEF IInv, LocalsOK, TypeOK
<1>7. KeysOK' /\ ListsExact' /\ ClosingOK'
  BY <1>1 DEF IInv, KeysOK, ListsExact, Cached, ClosingOK
<1>8. RefsExact'
  BY <1>1, <1>3 DEF IInv, RefsExact, Cached
<1>9. TableExact'
  <2>1. victim' = victim
    BY <1>1, <1>2 DEF IInv, TypeOK
  <2> QED
    BY <1>1, <2>1 DEF IInv, TableExact, Cached, Victims
<1>10. EvictsOldest'
  BY <1>1 DEF IInv, EvictsOldest, TypeOK
<1> QED
  BY <1>4, <1>5, <1>6, <1>7, <1>8, <1>9, <1>10 DEF IInv

(* A client giving a reference back, before Release has the mutex,       *)
(* preserves the invariant.                                              *)
LEMMA ReleaseCallKeeps ==
  ASSUME IInv, NEW t \in Threads, NEW e \in Handles, ReleaseCall(t, e)
  PROVE  IInv'
<1>1. /\ pc[t] = "idle" /\ ~closing /\ held[e] > 0
      /\ held' = [held EXCEPT ![e] = @ - 1]
      /\ pc' = [pc EXCEPT ![t] = "release"]
      /\ mine' = [mine EXCEPT ![t] = e]
      /\ UNCHANGED <<live, entry, table, lru, in_use, usage, mutex, victim, closing, capacity>>
  BY DEF ReleaseCall, Goto, cache
<1>2. mine[t] = NULL /\ victim[t] = NULL /\ NULL \notin Handles
  BY <1>1, LRUCacheAssumption DEF IInv, LocalsOK
<1>3. \A h \in Handles : Clients(h)' = Clients(h)
  <2> SUFFICES ASSUME NEW h \in Handles
               PROVE  Clients(h)' = Clients(h)
    OBVIOUS
  <2>1. /\ Cardinality(Holders(h)) \in Nat
        /\ Cardinality(Holders(h)') =
             Cardinality(Holders(h)) - Holds(t, h) + (IF e = h THEN 1 ELSE 0)
    BY <1>1, HoldersStepReferenced DEF IInv
  <2>2. Holds(t, h) = 0
    BY <1>2 DEF Holds
  <2>3. held[h] \in Nat /\ held'[h] = IF e = h THEN held[h] - 1 ELSE held[h]
    BY <1>1 DEF IInv, TypeOK
  <2>4. held'[h] + Cardinality(Holders(h)') = held[h] + Cardinality(Holders(h))
    BY <2>1, <2>2, <2>3
  <2> QED
    BY <2>4 DEF Clients
<1>4. TypeOK'
  BY <1>1 DEF IInv, TypeOK, Critical
<1>5. MutualExclusion'
  BY <1>1, LRUCacheAssumption DEF IInv, MutualExclusion, Critical, TypeOK
<1>6. LocalsOK'
  BY <1>1, <1>2 DEF IInv, LocalsOK, TypeOK
<1>7. KeysOK' /\ ListsExact' /\ ClosingOK'
  BY <1>1 DEF IInv, KeysOK, ListsExact, Cached, ClosingOK
<1>8. RefsExact'
  BY <1>1, <1>3 DEF IInv, RefsExact, Cached
<1>9. TableExact'
  BY <1>1 DEF IInv, TableExact, Cached, Victims
<1>10. EvictsOldest'
  BY <1>1 DEF IInv, EvictsOldest, TypeOK
<1> QED
  BY <1>4, <1>5, <1>6, <1>7, <1>8, <1>9, <1>10 DEF IInv

(* Entering the destructor preserves the invariant. *)
LEMMA DestroyStartKeeps ==
  ASSUME IInv, DestroyStart
  PROVE  IInv'
<1>1. /\ \A t \in Threads : pc[t] = "idle"
      /\ in_use = {} /\ ~closing /\ closing' = TRUE
      /\ UNCHANGED <<live, entry, table, lru, in_use, usage, mutex, pc, mine, victim, held, capacity>>
  BY DEF DestroyStart, cache, locals
<1>2. \A h \in Handles : Clients(h)' = Clients(h)
  BY <1>1 DEF Clients, Holders
<1>3. TypeOK' /\ MutualExclusion' /\ LocalsOK' /\ KeysOK' /\ ListsExact'
  BY <1>1 DEF IInv, TypeOK, MutualExclusion, LocalsOK, KeysOK, ListsExact, Cached
<1>4. RefsExact'
  BY <1>1, <1>2 DEF IInv, RefsExact, Cached
<1>5. TableExact' /\ EvictsOldest' /\ ClosingOK'
  BY <1>1 DEF IInv, TableExact, EvictsOldest, ClosingOK
<1> QED
  BY <1>3, <1>4, <1>5 DEF IInv

(* FinishErase of the entry an Insert displaced preserves the invariant. *)
LEMMA InsertFinishEraseKeeps ==
  ASSUME IInv, NEW t \in Threads, InsertFinishErase(t)
  PROVE  IInv'
<1>1. /\ pc[t] = "insert_erase" /\ mutex' = mutex /\ FinishErase(victim[t])
      /\ pc' = [pc EXCEPT ![t] = "insert_trim"]
      /\ mine' = [mine EXCEPT ![t] = mine[t]]
      /\ victim' = [victim EXCEPT ![t] = NULL]
      /\ UNCHANGED <<table, held, closing, capacity, mine>>
  BY DEF InsertFinishErase, Goto, IInv, TypeOK, LocalsOK
<1>2. mutex = t
  BY <1>1 DEF IInv, MutualExclusion, Critical
<1>3. \A h \in Handles : Cardinality(Holders(h)') = Cardinality(Holders(h))
  BY <1>1, SameHolders DEF IInv
<1>4. CacheTypeOK' /\ KeysOK' /\ RefsExact' /\ ListsExact' /\ TableExact'
  BY <1>1, <1>2, <1>3, VictimFinished
<1>5. TypeOK'
  BY <1>1, <1>4 DEF IInv, TypeOK, CacheTypeOK, Critical
<1>6. MutualExclusion'
  BY <1>1, <1>2, LRUCacheAssumption DEF IInv, MutualExclusion, Critical, TypeOK
<1>7. LocalsOK'
  BY <1>1 DEF IInv, LocalsOK, TypeOK
<1>8. EvictsOldest'
  BY <1>1, <1>2, OwnerAlone DEF IInv, EvictsOldest, TypeOK, Critical
<1>9. ClosingOK'
  BY <1>1 DEF IInv, ClosingOK
<1> QED
  BY <1>4, <1>5, <1>6, <1>7, <1>8, <1>9 DEF IInv

(* FinishErase of the entry an Insert evicts preserves the invariant. *)
LEMMA InsertFinishEvictKeeps ==
  ASSUME IInv, NEW t \in Threads, InsertFinishEvict(t)
  PROVE  IInv'
<1>1. /\ pc[t] = "insert_evict" /\ mutex' = mutex /\ FinishErase(victim[t])
      /\ pc' = [pc EXCEPT ![t] = "insert_trim"]
      /\ mine' = [mine EXCEPT ![t] = mine[t]]
      /\ victim' = [victim EXCEPT ![t] = NULL]
      /\ UNCHANGED <<table, held, closing, capacity, mine>>
  BY DEF InsertFinishEvict, Goto, IInv, TypeOK, LocalsOK
<1>2. mutex = t
  BY <1>1 DEF IInv, MutualExclusion, Critical
<1>3. \A h \in Handles : Cardinality(Holders(h)') = Cardinality(Holders(h))
  BY <1>1, SameHolders DEF IInv
<1>4. CacheTypeOK' /\ KeysOK' /\ RefsExact' /\ ListsExact' /\ TableExact'
  BY <1>1, <1>2, <1>3, VictimFinished
<1>5. TypeOK'
  BY <1>1, <1>4 DEF IInv, TypeOK, CacheTypeOK, Critical
<1>6. MutualExclusion'
  BY <1>1, <1>2, LRUCacheAssumption DEF IInv, MutualExclusion, Critical, TypeOK
<1>7. LocalsOK'
  BY <1>1 DEF IInv, LocalsOK, TypeOK
<1>8. EvictsOldest'
  BY <1>1, <1>2, OwnerAlone DEF IInv, EvictsOldest, TypeOK, Critical
<1>9. ClosingOK'
  BY <1>1 DEF IInv, ClosingOK
<1> QED
  BY <1>4, <1>5, <1>6, <1>7, <1>8, <1>9 DEF IInv

(* FinishErase in the loop of Prune preserves the invariant. *)
LEMMA PruneFinishEraseKeeps ==
  ASSUME IInv, NEW t \in Threads, PruneFinishErase(t)
  PROVE  IInv'
<1>1. /\ pc[t] = "prune_evict" /\ mutex' = mutex /\ FinishErase(victim[t])
      /\ pc' = [pc EXCEPT ![t] = "prune"]
      /\ mine' = [mine EXCEPT ![t] = mine[t]]
      /\ victim' = [victim EXCEPT ![t] = NULL]
      /\ UNCHANGED <<table, held, closing, capacity, mine>>
  BY DEF PruneFinishErase, Goto, IInv, TypeOK, LocalsOK
<1>2. mutex = t
  BY <1>1 DEF IInv, MutualExclusion, Critical
<1>3. \A h \in Handles : Cardinality(Holders(h)') = Cardinality(Holders(h))
  BY <1>1, SameHolders DEF IInv
<1>4. CacheTypeOK' /\ KeysOK' /\ RefsExact' /\ ListsExact' /\ TableExact'
  BY <1>1, <1>2, <1>3, VictimFinished
<1>5. TypeOK'
  BY <1>1, <1>4 DEF IInv, TypeOK, CacheTypeOK, Critical
<1>6. MutualExclusion'
  BY <1>1, <1>2, LRUCacheAssumption DEF IInv, MutualExclusion, Critical, TypeOK
<1>7. LocalsOK'
  BY <1>1 DEF IInv, LocalsOK, TypeOK
<1>8. EvictsOldest'
  BY <1>1, <1>2, OwnerAlone DEF IInv, EvictsOldest, TypeOK, Critical
<1>9. ClosingOK'
  BY <1>1 DEF IInv, ClosingOK
<1> QED
  BY <1>4, <1>5, <1>6, <1>7, <1>8, <1>9 DEF IInv

(* FinishErase at the end of Erase preserves the invariant. *)
LEMMA EraseFinishKeeps ==
  ASSUME IInv, NEW t \in Threads, EraseFinish(t)
  PROVE  IInv'
<1>1. /\ pc[t] = "erase_finish" /\ mutex' = NULL /\ FinishErase(victim[t])
      /\ pc' = [pc EXCEPT ![t] = "idle"]
      /\ mine' = [mine EXCEPT ![t] = mine[t]]
      /\ victim' = [victim EXCEPT ![t] = NULL]
      /\ UNCHANGED <<table, held, closing, capacity, mine>>
  BY DEF EraseFinish, Return, Goto, IInv, TypeOK, LocalsOK
<1>2. mutex = t
  BY <1>1 DEF IInv, MutualExclusion, Critical
<1>3. \A h \in Handles : Cardinality(Holders(h)') = Cardinality(Holders(h))
  BY <1>1, SameHolders DEF IInv
<1>4. CacheTypeOK' /\ KeysOK' /\ RefsExact' /\ ListsExact' /\ TableExact'
  BY <1>1, <1>2, <1>3, VictimFinished
<1>5. TypeOK'
  BY <1>1, <1>4 DEF IInv, TypeOK, CacheTypeOK, Critical
<1>6. MutualExclusion'
  BY <1>1, <1>2, LRUCacheAssumption DEF IInv, MutualExclusion, Critical, TypeOK
<1>7. LocalsOK'
  BY <1>1 DEF IInv, LocalsOK, TypeOK
<1>8. EvictsOldest'
  BY <1>1, <1>2, OwnerAlone DEF IInv, EvictsOldest, TypeOK, Critical
<1>9. ClosingOK'
  BY <1>1 DEF IInv, ClosingOK
<1> QED
  BY <1>4, <1>5, <1>6, <1>7, <1>8, <1>9 DEF IInv

-----------------------------------------------------------------------------
(* The first half of an unlinking: table_.Remove. *)
LEMMA EntryUnlinked ==
  ASSUME IInv, NEW t \in Threads, mutex = t \/ mutex = NULL, victim[t] = NULL,
         NEW k \in Keys, TableRemove(t, k), UNCHANGED <<live, entry, closing, capacity>>
  PROVE  TableExact'
<1>1. Victims = {} /\ Victims' = {table[k]} \ {NULL}
  BY OwnerAlone, NewVictims DEF TableRemove
<1>2. table' = [table EXCEPT ![k] = NULL] /\ table \in [Keys -> Handles \cup {NULL}]
  BY DEF TableRemove, IInv, TypeOK
<1> SUFFICES ASSUME ~closing
             PROVE  TableExact'
  BY DEF TableExact
<1>3. /\ \A j \in Keys : table[j] # NULL =>
           table[j] \in live /\ Cached(table[j]) /\ entry[table[j]].key = j
      /\ \A h \in live : Cached(h) => table[entry[h].key] = h
  BY <1>1 DEF IInv, TableExact
<1>4. \A j \in Keys : table'[j] # NULL =>
        table'[j] \in live' /\ entry'[table'[j]].in_cache /\ entry'[table'[j]].key = j
  BY <1>2, <1>3 DEF Cached
<1>5. \A h \in live' : Cached(h)' =>
        (table'[entry'[h].key] = h <=> h \notin Victims')
  <2> SUFFICES ASSUME NEW h \in live, Cached(h)
               PROVE  table'[entry[h].key] = h <=> h \notin Victims'
    BY DEF Cached
  <2>1. table[entry[h].key] = h /\ entry[h].key \in Keys /\ h # NULL
    BY <1>3, LRUCacheAssumption DEF IInv, KeysOK, TypeOK
  <2>2. CASE entry[h].key = k
    BY <2>1, <2>2, <1>1, <1>2
  <2>3. CASE entry[h].key # k
    BY <2>1, <2>3, <1>1, <1>2, <1>3
  <2> QED
    BY <2>2, <2>3
<1>6. Victims' \subseteq {h \in live' : Cached(h)'}
  BY <1>1, <1>3 DEF Cached
<1> QED
  BY <1>4, <1>5, <1>6 DEF TableExact, Cached

(* With no unlinked entry about, the oldest idle one is found by its key.  *)
LEMMA OldestIsInTable ==
  ASSUME IInv, NEW t \in Threads, mutex = t, victim[t] = NULL, ~closing, lru # <<>>
  PROVE  /\ Head(lru) \in live /\ Head(lru) # NULL
         /\ Cached(Head(lru)) /\ entry[Head(lru)].refs = 1
         /\ entry[Head(lru)].key \in Keys
         /\ table[entry[Head(lru)].key] = Head(lru)
<1>1. Head(lru) \in ToSet(lru) /\ Head(lru) \in Handles
  BY HeadTailInjective DEF IInv, TypeOK, ListsExact
<1>2. Head(lru) \in live /\ Cached(Head(lru)) /\ entry[Head(lru)].refs = 1
  BY <1>1 DEF IInv, ListsExact
<1>3. Victims = {}
  BY OwnerAlone
<1> QED
  BY <1>1, <1>2, <1>3, LRUCacheAssumption DEF IInv, TableExact, KeysOK

(* table_.Remove in Erase preserves the invariant. *)
LEMMA EraseUnlinkKeeps ==
  ASSUME IInv, NEW t \in Threads, NEW k \in Keys, EraseUnlink(t, k)
  PROVE  IInv'
<1>1. /\ pc[t] = "idle" /\ ~closing /\ mutex = NULL /\ mutex' = t
      /\ TableRemove(t, k)
      /\ pc' = [pc EXCEPT ![t] = "erase_finish"]
      /\ mine' = [mine EXCEPT ![t] = mine[t]]
      /\ UNCHANGED <<live, entry, lru, in_use, usage, mine, held, closing, capacity>>
  BY DEF EraseUnlink, Lock, Goto, IInv, TypeOK
<1>2. mine[t] = NULL /\ victim[t] = NULL
  BY <1>1 DEF IInv, LocalsOK
<1>3. \A h \in Handles : Clients(h)' = Clients(h)
  BY <1>1, <1>2, SameHolders DEF IInv, Clients
<1>4. TypeOK'
  BY <1>1 DEF IInv, TypeOK, Critical, TableRemove
<1>5. MutualExclusion'
  BY <1>1, LRUCacheAssumption DEF IInv, MutualExclusion, Critical, TypeOK
<1>6. LocalsOK'
  <2>1. \A u \in Threads \ {t} : pc[u] # "lookup_ref"
    BY <1>1, OwnerAlone DEF Critical
  <2> QED
    BY <1>1, <2>1 DEF IInv, LocalsOK, TypeOK, TableRemove
<1>7. KeysOK' /\ ListsExact' /\ ClosingOK'
  BY <1>1 DEF IInv, KeysOK, ListsExact, Cached, ClosingOK
<1>8. RefsExact'
  BY <1>1, <1>3 DEF IInv, RefsExact, Cached
<1>9. TableExact'
  BY <1>1, <1>2, EntryUnlinked
<1>10. EvictsOldest'
  BY <1>1, OwnerAlone DEF IInv, EvictsOldest, TypeOK, Critical
<1> QED
  BY <1>4, <1>5, <1>6, <1>7, <1>8, <1>9, <1>10 DEF IInv

(* table_.Remove of the oldest entry in Insert preserves the invariant. *)
LEMMA InsertEvictKeeps ==
  ASSUME IInv, NEW t \in Threads, InsertEvict(t)
  PROVE  IInv'
<1>1. /\ pc[t] = "insert_trim" /\ lru # <<>>
      /\ TableRemove(t, entry[Head(lru)].key)
      /\ pc' = [pc EXCEPT ![t] = "insert_evict"]
      /\ mine' = [mine EXCEPT ![t] = mine[t]]
      /\ UNCHANGED <<live, entry, lru, in_use, usage, mutex, mine, held, closing, capacity>>
  BY DEF InsertEvict, OverCapacity, Oldest, Goto, IInv, TypeOK
<1>2. mutex = t /\ victim[t] = NULL /\ ~closing
  BY <1>1 DEF IInv, LocalsOK, MutualExclusion, Critical, ClosingOK
<1>3. \A h \in Handles : Clients(h)' = Clients(h)
  BY <1>1, SameHolders DEF IInv, Clients
<1>4. /\ Head(lru) # NULL /\ entry[Head(lru)].key \in Keys
      /\ table[entry[Head(lru)].key] = Head(lru)
  BY <1>1, <1>2, OldestIsInTable
<1>5. TypeOK'
  BY <1>1, <1>4 DEF IInv, TypeOK, Critical, TableRemove
<1>6. MutualExclusion'
  BY <1>1, <1>2, LRUCacheAssumption DEF IInv, MutualExclusion, Critical, TypeOK
<1>7. LocalsOK'
  <2>1. \A u \in Threads \ {t} : pc[u] # "lookup_ref"
    BY <1>2, OwnerAlone DEF Critical
  <2> QED
    BY <1>1, <2>1 DEF IInv, LocalsOK, TypeOK, TableRemove
<1>8. KeysOK' /\ ListsExact' /\ ClosingOK'
  BY <1>1, <1>2 DEF IInv, KeysOK, ListsExact, Cached, ClosingOK
<1>9. RefsExact'
  BY <1>1, <1>3 DEF IInv, RefsExact, Cached
<1>10. TableExact'
  BY <1>1, <1>2, <1>4, EntryUnlinked
<1>11. EvictsOldest'
  <2>1. \A u \in Threads \ {t} : pc[u] \notin Critical
    BY <1>2, OwnerAlone
  <2>2. victim'[t] = Head(lru)
    BY <1>1, <1>4 DEF TableRemove, IInv, TypeOK
  <2> QED
    BY <1>1, <2>1, <2>2 DEF IInv, EvictsOldest, TypeOK, Critical
<1> QED
  BY <1>5, <1>6, <1>7, <1>8, <1>9, <1>10, <1>11 DEF IInv

(* table_.Remove of the oldest entry in Prune preserves the invariant. *)
LEMMA PruneUnlinkKeeps ==
  ASSUME IInv, NEW t \in Threads, PruneUnlink(t)
  PROVE  IInv'
<1>1. /\ pc[t] = "prune" /\ lru # <<>>
      /\ TableRemove(t, entry[Head(lru)].key)
      /\ pc' = [pc EXCEPT ![t] = "prune_evict"]
      /\ mine' = [mine EXCEPT ![t] = mine[t]]
      /\ UNCHANGED <<live, entry, lru, in_use, usage, mutex, mine, held, closing, capacity>>
  BY DEF PruneUnlink, Oldest, Goto, IInv, TypeOK
<1>2. mutex = t /\ victim[t] = NULL /\ ~closing
  BY <1>1 DEF IInv, LocalsOK, MutualExclusion, Critical, ClosingOK
<1>3. \A h \in Handles : Clients(h)' = Clients(h)
  BY <1>1, SameHolders DEF IInv, Clients
<1>4. /\ Head(lru) # NULL /\ entry[Head(lru)].key \in Keys
      /\ table[entry[Head(lru)].key] = Head(lru)
  BY <1>1, <1>2, OldestIsInTable
<1>5. TypeOK'
  BY <1>1, <1>4 DEF IInv, TypeOK, Critical, TableRemove
<1>6. MutualExclusion'
  BY <1>1, <1>2, LRUCacheAssumption DEF IInv, MutualExclusion, Critical, TypeOK
<1>7. LocalsOK'
  <2>1. \A u \in Threads \ {t} : pc[u] # "lookup_ref"
    BY <1>2, OwnerAlone DEF Critical
  <2> QED
    BY <1>1, <2>1 DEF IInv, LocalsOK, TypeOK, TableRemove
<1>8. KeysOK' /\ ListsExact' /\ ClosingOK'
  BY <1>1, <1>2 DEF IInv, KeysOK, ListsExact, Cached, ClosingOK
<1>9. RefsExact'
  BY <1>1, <1>3 DEF IInv, RefsExact, Cached
<1>10. TableExact'
  BY <1>1, <1>2, <1>4, EntryUnlinked
<1>11. EvictsOldest'
  <2>1. \A u \in Threads \ {t} : pc[u] \notin Critical
    BY <1>2, OwnerAlone
  <2>2. victim'[t] = Head(lru)
    BY <1>1, <1>4 DEF TableRemove, IInv, TypeOK
  <2> QED
    BY <1>1, <2>1, <2>2 DEF IInv, EvictsOldest, TypeOK, Critical
<1> QED
  BY <1>5, <1>6, <1>7, <1>8, <1>9, <1>10, <1>11 DEF IInv

-----------------------------------------------------------------------------
(* The steps that count references. *)

(* Unref in Release, with its deallocation or move to lru_, preserves    *)
(* the invariant.                                                        *)
LEMMA ReleaseUnrefKeeps ==
  ASSUME IInv, NEW t \in Threads, ReleaseUnref(t)
  PROVE  IInv'
<1>0. PICK e : e = mine[t]
  OBVIOUS
<1>1. /\ pc[t] = "release" /\ mutex = NULL /\ mutex' = NULL
      /\ Unref(e)
      /\ pc' = [pc EXCEPT ![t] = "idle"]
      /\ mine' = [mine EXCEPT ![t] = NULL]
      /\ victim' = [victim EXCEPT ![t] = NULL]
      /\ UNCHANGED <<table, usage, held, closing, capacity>>
  BY <1>0 DEF ReleaseUnref, Return, Goto
<1>2. /\ e \in Handles /\ victim[t] = NULL /\ ~closing /\ NULL \notin Handles
      /\ victim' = victim
  BY <1>0, <1>1, LRUCacheAssumption DEF IInv, TypeOK, LocalsOK, ClosingOK
<1>3. \A h \in Handles : /\ Clients(h) \in Nat
                         /\ Clients(h)' = Clients(h) - (IF e = h THEN 1 ELSE 0)
                         /\ Clients(h)' \in Nat
  <2> SUFFICES ASSUME NEW h \in Handles
               PROVE  /\ Clients(h) \in Nat
                      /\ Clients(h)' = Clients(h) - (IF e = h THEN 1 ELSE 0)
                      /\ Clients(h)' \in Nat
    OBVIOUS
  <2>1. /\ Cardinality(Holders(h)) \in Nat
        /\ Cardinality(Holders(h)') =
             Cardinality(Holders(h)) - Holds(t, h) + (IF NULL = h THEN 1 ELSE 0)
    BY <1>1, HoldersStepReferenced DEF IInv
  <2>2. Holds(t, h) = IF e = h THEN 1 ELSE 0
    BY <1>0, <1>1 DEF Holds
  <2>3. held[h] \in Nat /\ held'[h] = held[h]
    BY <1>1 DEF IInv, TypeOK
  <2>4. Cardinality(Holders(h)') \in Nat
    BY HoldersFinite, LRUCacheAssumption, FS_Subset, FS_CardinalityType DEF Holders
  <2>5. /\ Clients(h) = held[h] + Cardinality(Holders(h))
        /\ Clients(h)' = held'[h] + Cardinality(Holders(h)')
    BY DEF Clients
  <2>6. CASE e = h
    BY <1>2, <2>1, <2>2, <2>3, <2>4, <2>5, <2>6
  <2>7. CASE e # h
    BY <1>2, <2>1, <2>2, <2>3, <2>4, <2>5, <2>7
  <2> QED
    BY <2>6, <2>7
<1>4. CacheTypeOK /\ CountedOK /\ ListsExact /\ \A h \in Handles : Clients(h) \in Nat
  BY IInvParts DEF IInv
<1>5. /\ e \in live /\ entry[e].refs > 0
      /\ entry[e].refs = Clients(e) + (IF Cached(e) THEN 1 ELSE 0)
      /\ Clients(e) > 0
  <2>1. Clients(e) > 0
    BY <1>2, <1>3
  <2> QED
    BY <2>1, <1>2 DEF IInv, RefsExact
<1>6. entry[e].refs = 1 => ~Cached(e)
  BY <1>5, <1>4, <1>2
<1>7. /\ CacheTypeOK' /\ CountedOK' /\ ListsExact'
      /\ live' = IF entry[e].refs = 1 THEN live \ {e} ELSE live
      /\ entry' = IF entry[e].refs = 1
                  THEN [entry EXCEPT ![e] = Blank]
                  ELSE [entry EXCEPT ![e].refs = @ - 1]
  BY <1>1, <1>4, <1>5, <1>6, UnrefStep
<1>8. /\ \A g \in Handles \ {e} : entry'[g] = entry[g] /\ (g \in live' <=> g \in live)
      /\ e \in live' <=> entry[e].refs # 1
      /\ e \in live' => /\ entry'[e].in_cache = entry[e].in_cache
                        /\ entry'[e].key = entry[e].key
                        /\ entry'[e].refs = entry[e].refs - 1
      /\ e \notin live' => entry'[e] = Blank /\ ~entry[e].in_cache
  BY <1>2, <1>4, <1>5, <1>6, <1>7 DEF CacheTypeOK, Entry, Cached
<1>9. TypeOK'
  BY <1>1, <1>7 DEF IInv, TypeOK, CacheTypeOK, Critical
<1>10. MutualExclusion'
  BY <1>1, LRUCacheAssumption DEF IInv, MutualExclusion, Critical, TypeOK
<1>11. LocalsOK'
  BY <1>1, <1>2 DEF IInv, LocalsOK, TypeOK
<1>12. KeysOK'
  BY <1>4, <1>5, <1>7, <1>8 DEF IInv, KeysOK, CacheTypeOK
<1>13. RefsExact'
  <2> SUFFICES ASSUME NEW h \in Handles
               PROVE  IF h \in live'
                      THEN /\ entry'[h].refs = Clients(h)' + (IF entry'[h].in_cache THEN 1 ELSE 0)
                           /\ entry'[h].refs > 0
                      ELSE entry'[h] = Blank /\ Clients(h)' = 0
    BY DEF RefsExact, Cached
  <2>1. CASE h # e
    <3>1. IF h \in live
          THEN /\ entry[h].refs = Clients(h) + (IF entry[h].in_cache THEN 1 ELSE 0)
               /\ entry[h].refs > 0
          ELSE entry[h] = Blank /\ Clients(h) = 0
      BY DEF IInv, RefsExact, Cached
    <3>2. entry'[h] = entry[h] /\ (h \in live' <=> h \in live) /\ Clients(h)' = Clients(h)
      BY <2>1, <1>3, <1>8
    <3> QED
      BY <3>1, <3>2
  <2>2. CASE h = e /\ entry[e].refs = 1
    <3>1. Clients(e)' = 0
      BY <2>2, <1>2, <1>3, <1>5, <1>6
    <3> QED
      BY <3>1, <2>2, <1>8
  <2>3. CASE h = e /\ entry[e].refs # 1
    <3>1. Clients(e)' = Clients(e) - 1 /\ Clients(e) \in Nat
      BY <1>2, <1>3
    <3>2. /\ e \in live' /\ entry'[e].refs = entry[e].refs - 1
          /\ entry'[e].in_cache = entry[e].in_cache
      BY <2>3, <1>8
    <3>3. entry'[e].refs > 0
      BY <3>2, <1>7, <1>2 DEF CountedOK
    <3>4. entry[e].refs = Clients(e) + (IF entry[e].in_cache THEN 1 ELSE 0)
      BY <1>5 DEF Cached
    <3> QED
      BY <3>1, <3>2, <3>3, <3>4, <2>3
  <2> QED
    BY <2>1, <2>2, <2>3
<1>14. TableExact'
  <2>1. Victims = {} /\ Victims' = {}
    BY <1>1, <1>2, OwnerAlone, NewVictims
  <2>2. /\ \A k \in Keys : table[k] # NULL =>
             table[k] \in live /\ entry[table[k]].in_cache /\ entry[table[k]].key = k
        /\ \A h \in live : entry[h].in_cache => table[entry[h].key] = h
    BY <2>1, <1>2 DEF IInv, TableExact, Cached
  <2>3. \A h \in live : entry[h].in_cache =>
          h \in live' /\ entry'[h].in_cache /\ entry'[h].key = entry[h].key
    BY <1>4, <1>8 DEF CacheTypeOK
  <2>4. \A h \in live' : entry'[h].in_cache =>
          h \in live /\ entry[h].in_cache /\ entry'[h].key = entry[h].key
    BY <1>4, <1>5, <1>7, <1>8 DEF CacheTypeOK
  <2>5. \A k \in Keys : table'[k] # NULL =>
          table'[k] \in live' /\ entry'[table'[k]].in_cache /\ entry'[table'[k]].key = k
    BY <2>2, <2>3, <1>1
  <2>6. \A h \in live' : entry'[h].in_cache => table'[entry'[h].key] = h
    BY <2>2, <2>4, <1>1
  <2> QED
    BY <2>1, <2>5, <2>6 DEF TableExact, Cached
<1>15. EvictsOldest'
  BY <1>1, OwnerAlone DEF IInv, EvictsOldest, TypeOK, Critical
<1>16. ClosingOK'
  BY <1>1, <1>2 DEF IInv, ClosingOK
<1> QED
  BY <1>7, <1>9, <1>10, <1>11, <1>12, <1>13, <1>14, <1>15, <1>16 DEF IInv

(* Ref in Lookup, with its move to in_use_, preserves the invariant. *)
LEMMA LookupRefKeeps ==
  ASSUME IInv, NEW t \in Threads, LookupRef(t)
  PROVE  IInv'
<1>0. PICK e : e = mine[t]
  OBVIOUS
<1>1. /\ pc[t] = "lookup_ref" /\ mutex' = NULL
      /\ pc' = [pc EXCEPT ![t] = "idle"]
      /\ mine' = [mine EXCEPT ![t] = NULL]
      /\ victim' = [victim EXCEPT ![t] = NULL]
      /\ UNCHANGED <<live, table, usage, closing, capacity>>
  BY DEF LookupRef, Return, Goto, cache
<1>2. /\ mutex = t /\ victim[t] = NULL /\ ~closing /\ NULL \notin Handles
      /\ victim' = victim /\ e \in Handles \cup {NULL}
  BY <1>0, <1>1, LRUCacheAssumption
  DEF IInv, TypeOK, LocalsOK, ClosingOK, MutualExclusion, Critical
<1>3. \A h \in Handles : /\ Cardinality(Holders(h)) \in Nat
                         /\ Cardinality(Holders(h)') = Cardinality(Holders(h))
  <2> SUFFICES ASSUME NEW h \in Handles
               PROVE  /\ Cardinality(Holders(h)) \in Nat
                      /\ Cardinality(Holders(h)') = Cardinality(Holders(h))
    OBVIOUS
  <2>1. /\ Cardinality(Holders(h)) \in Nat
        /\ Cardinality(Holders(h)') =
             Cardinality(Holders(h)) - Holds(t, h) + (IF NULL = h THEN 1 ELSE 0)
    BY <1>1, HoldersStepReferenced DEF IInv
  <2>2. Holds(t, h) = 0
    BY <1>1 DEF Holds
  <2> QED
    BY <2>1, <2>2, <1>2
<1>4. MutualExclusion'
  BY <1>1, <1>2, LRUCacheAssumption DEF IInv, MutualExclusion, Critical, TypeOK
<1>5. LocalsOK'
  BY <1>1 DEF IInv, LocalsOK, TypeOK
<1>6. EvictsOldest'
  BY <1>1, <1>2, OwnerAlone DEF IInv, EvictsOldest, TypeOK, Critical
<1>7. ClosingOK'
  BY <1>1, <1>2 DEF IInv, ClosingOK
<1>8. CASE e = NULL
  <2>1. UNCHANGED <<entry, lru, in_use, held>>
    BY <1>0, <1>8 DEF LookupRef, cache
  <2>2. TypeOK' /\ KeysOK' /\ ListsExact'
    BY <2>1, <1>1 DEF IInv, TypeOK, Critical, KeysOK, ListsExact, Cached
  <2>3. RefsExact'
    BY <2>1, <1>1, <1>3 DEF IInv, RefsExact, Cached, Clients
  <2>4. TableExact'
    BY <2>1, <1>1, <1>2 DEF IInv, TableExact, Cached, Victims
  <2> QED
    BY <1>4, <1>5, <1>6, <1>7, <2>2, <2>3, <2>4 DEF IInv
<1>9. CASE e # NULL
  <2>1. Ref(e) /\ held' = [held EXCEPT ![e] = @ + 1]
    BY <1>0, <1>9 DEF LookupRef
  <2>2. e \in live /\ e \in Handles
    BY <1>0, <1>1, <1>2, <1>9 DEF IInv, LocalsOK, TableExact
  <2>3. /\ CacheTypeOK' /\ CountedOK' /\ ListsExact'
        /\ entry' = [entry EXCEPT ![e].refs = @ + 1]
    BY <1>1, <2>1, <2>2, IInvParts, RefStep DEF IInv
  <2>4. /\ \A g \in Handles \ {e} : entry'[g] = entry[g]
        /\ entry'[e].in_cache = entry[e].in_cache
        /\ entry'[e].key = entry[e].key
        /\ entry'[e].refs = entry[e].refs + 1
    BY <2>2, <2>3 DEF IInv, TypeOK, Entry
  <2>5. TypeOK'
    BY <1>1, <2>1, <2>3 DEF IInv, TypeOK, CacheTypeOK, Critical
  <2>6. KeysOK'
    BY <1>1, <2>4 DEF IInv, KeysOK, TypeOK
  <2>7. RefsExact'
    <3> SUFFICES ASSUME NEW h \in Handles
                 PROVE  IF h \in live'
                        THEN /\ entry'[h].refs = Clients(h)' + (IF entry'[h].in_cache THEN 1 ELSE 0)
                             /\ entry'[h].refs > 0
                        ELSE entry'[h] = Blank /\ Clients(h)' = 0
      BY DEF RefsExact, Cached
    <3>1. IF h \in live
          THEN /\ entry[h].refs = Clients(h) + (IF entry[h].in_cache THEN 1 ELSE 0)
               /\ entry[h].refs > 0
          ELSE entry[h] = Blank /\ Clients(h) = 0
      BY DEF IInv, RefsExact, Cached
    <3>2. /\ Clients(h) = held[h] + Cardinality(Holders(h))
          /\ Clients(h)' = held'[h] + Cardinality(Holders(h)')
          /\ held[h] \in Nat
      BY DEF Clients, IInv, TypeOK
    <3>3. CASE h # e
      BY <3>1, <3>2, <3>3, <1>1, <1>3, <2>1, <2>4 DEF IInv, TypeOK
    <3>4. CASE h = e
      <4>1. held'[e] = held[e] + 1
        BY <2>1, <2>2 DEF IInv, TypeOK
      <4>2. Clients(h)' = Clients(h) + 1 /\ Clients(h) \in Nat
        BY <3>2, <3>4, <4>1, <1>3
      <4> QED
        BY <3>1, <3>4, <4>2, <1>1, <2>2, <2>4
    <3> QED
      BY <3>3, <3>4
  <2>8. TableExact'
    <3>1. \A h \in live : entry'[h].in_cache = entry[h].in_cache /\ entry'[h].key = entry[h].key
      BY <2>4 DEF IInv, TypeOK
    <3>2. Victims' = Victims
      BY <1>2 DEF Victims
    <3>3. /\ \A k \in Keys : table[k] # NULL =>
               table[k] \in live /\ entry[table[k]].in_cache /\ entry[table[k]].key = k
          /\ \A h \in live : entry[h].in_cache =>
               (table[entry[h].key] = h <=> h \notin Victims)
          /\ Victims \subseteq {h \in live : entry[h].in_cache}
      BY <1>2 DEF IInv, TableExact, Cached
    <3>4. \A k \in Keys : table'[k] # NULL =>
            table'[k] \in live' /\ entry'[table'[k]].in_cache /\ entry'[table'[k]].key = k
      BY <3>1, <3>3, <1>1
    <3>5. \A h \in live' : entry'[h].in_cache =>
            (table'[entry'[h].key] = h <=> h \notin Victims')
      BY <3>1, <3>2, <3>3, <1>1
    <3>6. Victims' \subseteq {h \in live' : entry'[h].in_cache}
      BY <3>1, <3>2, <3>3, <1>1
    <3> QED
      BY <3>4, <3>5, <3>6 DEF TableExact, Cached
  <2> QED
    BY <1>4, <1>5, <1>6, <1>7, <2>3, <2>5, <2>6, <2>7, <2>8 DEF IInv
<1> QED
  BY <1>8, <1>9

(* A fresh entry has exactly the caller's reference, and the cache's.      *)
LEMMA FreshEntry ==
  ASSUME IInv, NEW t \in Threads, NEW e \in Handles, e \notin live,
         NEW new \in Entry, new.refs = IF new.in_cache THEN 2 ELSE 1,
         live' = live \cup {e}, entry' = [entry EXCEPT ![e] = new], held' = held,
         mine[t] = NULL, mine' = [mine EXCEPT ![t] = e],
         NEW p, p # "lookup_ref", pc' = [pc EXCEPT ![t] = p]
  PROVE  /\ entry' \in [Handles -> Entry]
         /\ entry'[e] = new
         /\ \A g \in Handles \ {e} : entry'[g] = entry[g]
         /\ RefsExact'
<1>1. entry' \in [Handles -> Entry]
  BY DEF IInv, TypeOK
<1>2. /\ \A g \in Handles \ {e} : entry'[g] = entry[g]
      /\ entry'[e] = new
  BY DEF IInv, TypeOK
<1>3. RefsExact'
  <2> SUFFICES ASSUME NEW h \in Handles
               PROVE  IF h \in live'
                      THEN /\ entry'[h].refs = Clients(h)' + (IF entry'[h].in_cache THEN 1 ELSE 0)
                           /\ entry'[h].refs > 0
                      ELSE entry'[h] = Blank /\ Clients(h)' = 0
    BY DEF RefsExact, Cached
  <2>1. IF h \in live
        THEN /\ entry[h].refs = Clients(h) + (IF entry[h].in_cache THEN 1 ELSE 0)
             /\ entry[h].refs > 0
        ELSE entry[h] = Blank /\ Clients(h) = 0
    BY DEF IInv, RefsExact, Cached
  <2>2. /\ Cardinality(Holders(h)) \in Nat
        /\ Cardinality(Holders(h)') =
             Cardinality(Holders(h)) - Holds(t, h) + (IF e = h THEN 1 ELSE 0)
    BY HoldersStepReferenced DEF IInv
  <2>3. Holds(t, h) = 0
    BY LRUCacheAssumption DEF Holds
  <2>4. /\ Clients(h) = held[h] + Cardinality(Holders(h))
        /\ Clients(h)' = held[h] + Cardinality(Holders(h)')
        /\ held[h] \in Nat
    BY DEF Clients, IInv, TypeOK
  <2>5. CASE h # e
    <3>1. Clients(h)' = Clients(h)
      BY <2>2, <2>3, <2>4, <2>5
    <3> QED
      BY <3>1, <2>1, <2>5, <1>2
  <2>6. CASE h = e
    <3>1. Clients(h)' = 1
      BY <2>1, <2>2, <2>3, <2>4, <2>6
    <3> QED
      BY <3>1, <2>6, <1>2
  <2> QED
    BY <2>5, <2>6
<1> QED
  BY <1>1, <1>2, <1>3

(* Insert into a cache of capacity 0 preserves the invariant. *)
LEMMA InsertUncachedKeeps ==
  ASSUME IInv, NEW t \in Threads, NEW k \in Keys, NEW c \in Charges,
         NEW e \in Handles, InsertUncached(t, k, c, e)
  PROVE  IInv'
<1>1. /\ pc[t] = "idle" /\ ~closing /\ mutex = NULL /\ mutex' = t
      /\ Malloc(e, k, c, FALSE)
      /\ pc' = [pc EXCEPT ![t] = "insert_trim"]
      /\ mine' = [mine EXCEPT ![t] = e]
      /\ UNCHANGED <<table, lru, in_use, usage, victim, held, closing, capacity>>
  BY DEF InsertUncached, Lock, Goto
<1>2. mine[t] = NULL /\ victim[t] = NULL /\ NULL \notin Handles
  BY <1>1, LRUCacheAssumption DEF IInv, LocalsOK
<1>3. /\ live' = live \cup {e} /\ e \notin live
      /\ entry' \in [Handles -> Entry]
      /\ \A g \in Handles \ {e} : entry'[g] = entry[g]
      /\ entry'[e].key = k /\ entry'[e].in_cache = FALSE
      /\ RefsExact'
  <2> DEFINE new == [key |-> k, charge |-> c, in_cache |-> FALSE, refs |-> 1]
  <2>1. /\ live' = live \cup {e} /\ e \notin live
        /\ entry' = [entry EXCEPT ![e] = new]
    BY <1>1 DEF Malloc
  <2>2. new \in Entry
    BY DEF Entry
  <2>3. new.key = k /\ new.in_cache = FALSE /\ new.refs = 1
    OBVIOUS
  <2> HIDE DEF new
  <2>4. /\ entry' \in [Handles -> Entry]
        /\ entry'[e] = new
        /\ \A g \in Handles \ {e} : entry'[g] = entry[g]
        /\ RefsExact'
    BY <1>1, <1>2, <2>1, <2>2, <2>3, FreshEntry
  <2> QED
    BY <2>1, <2>3, <2>4
<1>4. TypeOK'
  BY <1>1, <1>3 DEF IInv, TypeOK, Critical
<1>5. MutualExclusion'
  BY <1>1, LRUCacheAssumption DEF IInv, MutualExclusion, Critical, TypeOK
<1>6. LocalsOK'
  BY <1>1, <1>2 DEF IInv, LocalsOK, TypeOK
<1>7. KeysOK'
  BY <1>3 DEF IInv, KeysOK, TypeOK
<1>8. ListsExact' /\ ClosingOK'
  BY <1>1, <1>3 DEF IInv, TypeOK, ListsExact, Cached, ClosingOK
<1>9. TableExact'
  BY <1>1, <1>3 DEF IInv, TypeOK, TableExact, Cached, Victims
<1>10. EvictsOldest'
  BY <1>1 DEF IInv, EvictsOldest, TypeOK
<1> QED
  BY <1>3, <1>4, <1>5, <1>6, <1>7, <1>8, <1>9, <1>10 DEF IInv

(* Insert linking a new entry into list and table preserves the          *)
(* invariant.                                                            *)
LEMMA InsertLinkKeeps ==
  ASSUME IInv, NEW t \in Threads, NEW k \in Keys, NEW c \in Charges,
         NEW e \in Handles, InsertLink(t, k, c, e)
  PROVE  IInv'
<1>0. PICK old : old = table[k]
  OBVIOUS
<1>1. /\ pc[t] = "idle" /\ ~closing /\ mutex = NULL /\ mutex' = t
      /\ Malloc(e, k, c, TRUE)
      /\ in_use' = in_use \cup {e}
      /\ usage' = usage + c
      /\ table' = [table EXCEPT ![k] = e]
      /\ pc' = [pc EXCEPT ![t] = "insert_erase"]
      /\ mine' = [mine EXCEPT ![t] = e]
      /\ victim' = [victim EXCEPT ![t] = old]
      /\ UNCHANGED <<lru, held, closing, capacity>>
  BY <1>0 DEF InsertLink, Lock, Goto, TableInsert
<1>2. /\ mine[t] = NULL /\ victim[t] = NULL /\ NULL \notin Handles
      /\ old \in Handles \cup {NULL} /\ c \in Int
  <2>1. c \in Int
    BY LRUCacheAssumption
  <2> QED
    BY <2>1, <1>0, <1>1, LRUCacheAssumption DEF IInv, LocalsOK, TypeOK
<1>3. /\ live' = live \cup {e} /\ e \notin live
      /\ entry' \in [Handles -> Entry]
      /\ \A g \in Handles \ {e} : entry'[g] = entry[g]
      /\ entry'[e].key = k /\ entry'[e].in_cache = TRUE /\ entry'[e].refs = 2
      /\ RefsExact'
  <2> DEFINE new == [key |-> k, charge |-> c, in_cache |-> TRUE, refs |-> 2]
  <2>1. /\ live' = live \cup {e} /\ e \notin live
        /\ entry' = [entry EXCEPT ![e] = new]
    BY <1>1 DEF Malloc
  <2>2. new \in Entry
    BY DEF Entry
  <2>3. new.key = k /\ new.in_cache = TRUE /\ new.refs = 2
    OBVIOUS
  <2> HIDE DEF new
  <2>4. /\ entry' \in [Handles -> Entry]
        /\ entry'[e] = new
        /\ \A g \in Handles \ {e} : entry'[g] = entry[g]
        /\ RefsExact'
    BY <1>1, <1>2, <2>1, <2>2, <2>3, FreshEntry
  <2> QED
    BY <2>1, <2>3, <2>4
<1>4. TypeOK'
  BY <1>1, <1>2, <1>3 DEF IInv, TypeOK, Critical
<1>5. MutualExclusion'
  BY <1>1, LRUCacheAssumption DEF IInv, MutualExclusion, Critical, TypeOK
<1>6. LocalsOK'
  <2>1. \A u \in Threads \ {t} : pc[u] # "lookup_ref"
    BY <1>1, OwnerAlone DEF Critical
  <2> QED
    BY <1>1, <1>2, <2>1 DEF IInv, LocalsOK, TypeOK
<1>7. KeysOK'
  BY <1>3 DEF IInv, KeysOK, TypeOK
<1>8. ListsExact'
  <2>1. IsInjective(lru')
    BY <1>1 DEF IInv, ListsExact
  <2>2. ToSet(lru') = {h \in live' : entry'[h].in_cache /\ entry'[h].refs = 1}
    BY <1>1, <1>3 DEF IInv, ListsExact, TypeOK, Cached
  <2>3. in_use' = {h \in live' : entry'[h].in_cache /\ entry'[h].refs > 1}
    BY <1>1, <1>3 DEF IInv, ListsExact, TypeOK, Cached
  <2> QED
    BY <2>1, <2>2, <2>3 DEF ListsExact, Cached
<1>9. TableExact'
  <2>1. Victims = {} /\ Victims' = {old} \ {NULL}
    BY <1>1, <1>2, OwnerAlone, NewVictims
  <2>2. /\ \A j \in Keys : table[j] # NULL =>
             table[j] \in live /\ entry[table[j]].in_cache /\ entry[table[j]].key = j
        /\ \A h \in live : entry[h].in_cache => table[entry[h].key] = h
    BY <2>1, <1>1 DEF IInv, TableExact, Cached
  <2>3. \A h \in live : h \in Handles \ {e} /\ entry[h].key \in Keys
    BY <1>3 DEF IInv, TypeOK, KeysOK
  <2>4. /\ table'[k] = e
        /\ \A j \in Keys \ {k} : table'[j] = table[j]
    BY <1>1 DEF IInv, TypeOK
  <2>5. \A j \in Keys : table'[j] # NULL =>
          table'[j] \in live' /\ entry'[table'[j]].in_cache /\ entry'[table'[j]].key = j
    BY <1>3, <2>2, <2>3, <2>4
  <2>6. \A h \in live' : entry'[h].in_cache =>
          (table'[entry'[h].key] = h <=> h \notin Victims')
    <3> SUFFICES ASSUME NEW h \in live', entry'[h].in_cache
                 PROVE  table'[entry'[h].key] = h <=> h \notin Victims'
      OBVIOUS
    <3>1. CASE h = e
      <4>1. old # e
        BY <1>0, <1>2, <1>3, <2>2
      <4> QED
        BY <3>1, <4>1, <1>3, <2>1, <2>4
    <3>2. CASE h # e
      <4>1. /\ h \in live /\ entry'[h] = entry[h] /\ h # NULL
            /\ entry[h].key \in Keys /\ table[entry[h].key] = h
        BY <3>2, <1>2, <1>3, <2>2, <2>3
      <4>2. CASE entry[h].key = k
        BY <3>2, <4>1, <4>2, <1>0, <2>1, <2>4
      <4>3. CASE entry[h].key # k
        <5>1. table'[entry'[h].key] = h
          BY <4>1, <4>3, <2>4
        <5>2. old # h
          BY <4>1, <4>3, <1>0, <2>2
        <5> QED
          BY <5>1, <5>2, <2>1
      <4> QED
        BY <4>2, <4>3
    <3> QED
      BY <3>1, <3>2
  <2>7. Victims' \subseteq {h \in live' : entry'[h].in_cache}
    BY <1>0, <1>3, <2>1, <2>2, <2>3
  <2> QED
    BY <2>5, <2>6, <2>7 DEF TableExact, Cached
<1>10. EvictsOldest'
  BY <1>1 DEF IInv, EvictsOldest, TypeOK
<1>11. ClosingOK'
  BY <1>1 DEF IInv, ClosingOK
<1> QED
  BY <1>3, <1>4, <1>5, <1>6, <1>7, <1>8, <1>9, <1>10, <1>11 DEF IInv

(* The destructor freeing the oldest entry preserves the invariant. *)
LEMMA DestroyEntryKeeps ==
  ASSUME IInv, DestroyEntry
  PROVE  IInv'
<1>0. PICK e : e = Head(lru)
  OBVIOUS
<1>1. /\ closing /\ lru # <<>>
      /\ live' = live \ {e}
      /\ entry' = [entry EXCEPT ![e] = Blank]
      /\ lru' = Tail(lru)
      /\ UNCHANGED <<table, in_use, usage, mutex, pc, mine, victim, held, closing, capacity>>
  BY <1>0 DEF DestroyEntry, Deallocate, locals
<1>2. /\ e \in ToSet(lru) /\ e \in Handles
      /\ Tail(lru) \in Seq(Handles) /\ IsInjective(Tail(lru))
      /\ ToSet(Tail(lru)) = ToSet(lru) \ {e}
  BY <1>0, <1>1, HeadTailInjective DEF IInv, TypeOK, ListsExact
<1>3. e \in live /\ Cached(e) /\ entry[e].refs = 1
  BY <1>2 DEF IInv, ListsExact
<1>4. \A h \in Handles : Clients(h)' = Clients(h) /\ Clients(h) \in Nat
  BY <1>1, IInvParts DEF Clients, Holders
<1>5. \A g \in Handles \ {e} : entry'[g] = entry[g] /\ (g \in live' <=> g \in live)
  BY <1>1 DEF IInv, TypeOK
<1>6. TypeOK'
  BY <1>1, <1>2, BlankIsEntry DEF IInv, TypeOK
<1>7. MutualExclusion' /\ LocalsOK' /\ ClosingOK'
  BY <1>1 DEF IInv, MutualExclusion, LocalsOK, ClosingOK
<1>8. KeysOK'
  BY <1>1, <1>5 DEF IInv, KeysOK, TypeOK
<1>9. RefsExact'
  <2> SUFFICES ASSUME NEW h \in Handles
               PROVE  IF h \in live'
                      THEN /\ entry'[h].refs = Clients(h)' + (IF entry'[h].in_cache THEN 1 ELSE 0)
                           /\ entry'[h].refs > 0
                      ELSE entry'[h] = Blank /\ Clients(h)' = 0
    BY DEF RefsExact, Cached
  <2>1. IF h \in live
        THEN /\ entry[h].refs = Clients(h) + (IF entry[h].in_cache THEN 1 ELSE 0)
             /\ entry[h].refs > 0
        ELSE entry[h] = Blank /\ Clients(h) = 0
    BY DEF IInv, RefsExact, Cached
  <2>2. CASE h # e
    BY <2>1, <2>2, <1>4, <1>5
  <2>3. CASE h = e
    <3>1. e \notin live' /\ entry'[e] = Blank
      BY <1>1, <1>2 DEF IInv, TypeOK
    <3>2. Clients(h) = 0
      BY <2>1, <2>3, <1>3, <1>4 DEF Cached
    <3> QED
      BY <2>3, <3>1, <3>2, <1>4
  <2> QED
    BY <2>2, <2>3
<1>10. ListsExact'
  <2>1. live \subseteq Handles
    BY DEF IInv, TypeOK
  <2>2. ToSet(lru') = {h \in live' : entry'[h].in_cache /\ entry'[h].refs = 1}
    BY <2>1, <1>1, <1>2, <1>5 DEF IInv, ListsExact, Cached
  <2>3. in_use' = {h \in live' : entry'[h].in_cache /\ entry'[h].refs > 1}
    BY <2>1, <1>1, <1>3, <1>5 DEF IInv, ListsExact, Cached
  <2> QED
    BY <1>1, <1>2, <2>2, <2>3 DEF ListsExact, Cached
<1>11. TableExact' /\ EvictsOldest'
  BY <1>1 DEF TableExact, EvictsOldest, IInv, ClosingOK
<1> QED
  BY <1>6, <1>7, <1>8, <1>9, <1>10, <1>11 DEF IInv

-----------------------------------------------------------------------------
(* The invariant holds, and what it implies.                               *)

(* A new shard satisfies the inductive invariant. *)
THEOREM IInvInit == Init => IInv
<1> SUFFICES ASSUME Init
             PROVE  IInv
  OBVIOUS
<1>1. /\ live = {} /\ lru = <<>> /\ in_use = {} /\ mutex = NULL /\ closing = FALSE
      /\ \A t \in Threads : pc[t] = "idle" /\ mine[t] = NULL /\ victim[t] = NULL
      /\ \A h \in Handles : entry[h] = Blank /\ held[h] = 0
      /\ \A k \in Keys : table[k] = NULL
  BY DEF Init
<1>2. TypeOK
  <2>1. <<>> \in Seq(Handles)
    BY EmptySeq
  <2>2. entry \in [Handles -> Entry]
    BY BlankIsEntry DEF Init
  <2>3. /\ pc \in [Threads -> Critical \cup {"idle", "release"}]
        /\ held \in [Handles -> Nat]
    BY DEF Init
  <2>4. /\ table \in [Keys -> Handles \cup {NULL}]
        /\ mine \in [Threads -> Handles \cup {NULL}]
        /\ victim \in [Threads -> Handles \cup {NULL}]
    BY DEF Init
  <2>5. /\ live \subseteq Handles /\ lru \in Seq(Handles) /\ in_use \subseteq Handles
        /\ mutex \in Threads \cup {NULL} /\ closing \in BOOLEAN
    BY <2>1, <1>1
  <2>6. usage \in Int /\ capacity \in Capacities
    BY DEF Init
  <2> QED
    BY <2>2, <2>3, <2>4, <2>5, <2>6 DEF TypeOK
<1>3. MutualExclusion /\ LocalsOK /\ KeysOK /\ EvictsOldest /\ ClosingOK
  BY <1>1, LRUCacheAssumption
  DEF MutualExclusion, LocalsOK, KeysOK, EvictsOldest, ClosingOK, Critical
<1>4. RefsExact
  <2>1. \A h \in Handles : Holders(h) = {}
    BY <1>1, LRUCacheAssumption DEF Holders
  <2> QED
    <3>1. \A h \in Handles : Clients(h) = 0
      <4>1. Cardinality({}) = 0
        BY FS_EmptySet
      <4>2. \A h \in Handles : Cardinality(Holders(h)) = 0
        BY <2>1, <4>1
      <4> QED
        BY <1>1, <4>2 DEF Clients
    <3> QED
      BY <1>1, <3>1 DEF RefsExact
<1>5. ListsExact
  BY <1>1 DEF ListsExact, IsInjective, ToSet
<1>6. TableExact
  BY <1>1 DEF TableExact, Victims
<1> QED
  BY <1>2, <1>3, <1>4, <1>5, <1>6 DEF IInv

(* A step that changes nothing preserves the invariant. *)
LEMMA StutterKeeps ==
  ASSUME IInv, UNCHANGED vars
  PROVE  IInv'
<1>1. UNCHANGED <<live, entry, table, lru, in_use, usage, mutex, pc, mine, victim, held, closing, capacity>>
  BY DEF vars, cache, locals
<1>2. TypeOK' /\ MutualExclusion' /\ LocalsOK' /\ KeysOK' /\ ClosingOK'
  BY <1>1 DEF IInv, TypeOK, MutualExclusion, LocalsOK, KeysOK, ClosingOK
<1>3. RefsExact'
  BY <1>1 DEF IInv, RefsExact, Cached, Clients, Holders
<1>4. ListsExact' /\ TableExact' /\ EvictsOldest'
  BY <1>1 DEF IInv, ListsExact, TableExact, EvictsOldest, Cached, Victims
<1> QED
  BY <1>2, <1>3, <1>4 DEF IInv

(* Every step of every thread and of the destructor preserves the        *)
(* inductive invariant.                                                  *)
THEOREM IInvStep == IInv /\ [Next]_vars => IInv'
<1> SUFFICES ASSUME IInv, [Next]_vars
             PROVE  IInv'
  OBVIOUS
<1>1. ASSUME NEW t \in Threads, Call(t)
      PROVE  IInv'
  BY <1>1, LookupFindKeeps, EraseUnlinkKeeps, InsertLinkKeeps, InsertUncachedKeeps,
     PruneStartKeeps, ReleaseCallKeeps DEF Call
<1>2. ASSUME NEW t \in Threads, Continue(t)
      PROVE  IInv'
  BY <1>2, LookupRefKeeps, InsertFinishEraseKeeps, InsertEvictKeeps,
     InsertFinishEvictKeeps, InsertReturnKeeps, EraseFinishKeeps,
     PruneUnlinkKeeps, PruneFinishEraseKeeps, PruneReturnKeeps DEF Continue
<1>3. CASE UNCHANGED vars \/ Destroyed
  BY <1>3, StutterKeeps DEF Destroyed
<1> QED
  BY <1>1, <1>2, <1>3, ReleaseUnrefKeeps, DestroyStartKeeps, DestroyEntryKeeps DEF Next

(* The inductive invariant holds in every reachable state of a shard. *)
THEOREM Invariance == Spec => []IInv
BY IInvInit, IInvStep, PTL DEF Spec

(* Every variable keeps its type, whatever the threads do. *)
THEOREM Typing == Spec => []TypeOK
BY Invariance, PTL DEF IInv

(* No two threads are ever inside the critical sections of one shard. *)
THEOREM Exclusion == Spec => []MutualExclusion
BY Invariance, PTL DEF IInv

(* refs is the number of client references, plus one while cached: nothing *)
(* is freed too early, and nothing is kept for ever.                       *)
THEOREM ReferenceCounting == Spec => []RefsExact
BY Invariance, PTL DEF IInv

(* lru_ and in_use_ always split the cached entries by who references them. *)
THEOREM ListMembership == Spec => []ListsExact
BY Invariance, PTL DEF IInv

(* table_ and the lists agree on what is cached, except for the one entry  *)
(* an unlinking is about to finish.                                        *)
THEOREM TableAgreement == Spec => []TableExact
BY Invariance, PTL DEF IInv

(* Removing by key in the eviction loops removes the oldest idle entry. *)
THEOREM EvictionOrder == Spec => []EvictsOldest
BY Invariance, PTL DEF IInv

(* An entry a client or a running call references has not been freed. *)
LEMMA ClientsAreLive ==
  ASSUME IInv, NEW h \in Handles, held[h] > 0 \/ Holders(h) # {}
  PROVE  h \in live /\ Clients(h) > 0
<1>1. /\ Cardinality(Holders(h)) \in Nat /\ IsFiniteSet(Holders(h))
      /\ held[h] \in Nat
  BY HoldersFinite DEF IInv, TypeOK
<1>2. Holders(h) # {} => Cardinality(Holders(h)) > 0
  BY <1>1, FS_EmptySet
<1>3. Clients(h) > 0
  BY <1>1, <1>2 DEF Clients
<1> QED
  BY <1>3 DEF IInv, RefsExact

(* No pointer a thread or a client can follow dangles. *)
THEOREM PointersAreLive == Spec => []NoUseAfterFree
<1>1. IInv => NoUseAfterFree
  <2> SUFFICES ASSUME IInv
               PROVE  NoUseAfterFree
    OBVIOUS
  <2>1. \A h \in Handles : held[h] > 0 => h \in live
    BY ClientsAreLive
  <2>2. ASSUME NEW t \in Threads
        PROVE  mine[t] \in live \cup {NULL}
    <3>1. CASE pc[t] = "lookup_ref"
      BY <3>1 DEF IInv, LocalsOK, ClosingOK, TableExact
    <3>2. CASE pc[t] # "lookup_ref" /\ mine[t] # NULL
      <4>1. mine[t] \in Handles
        BY <3>2 DEF IInv, TypeOK
      <4>2. PICK h \in Handles : h = mine[t]
        BY <4>1
      <4>3. t \in Holders(h)
        BY <3>2, <4>2 DEF Holders
      <4> QED
        BY <4>2, <4>3, ClientsAreLive
    <3> QED
      BY <3>1, <3>2
  <2>3. ASSUME NEW t \in Threads
        PROVE  victim[t] \in live \cup {NULL}
    BY DEF IInv, LocalsOK, ClosingOK, TableExact, Victims
  <2>4. ToSet(lru) \cup in_use \subseteq live
    BY DEF IInv, ListsExact
  <2> QED
    BY <2>1, <2>2, <2>3, <2>4 DEF NoUseAfterFree
<1> QED
  BY <1>1, Invariance, PTL

(* The inductive invariant leaves no assertion anything to find. *)
LEMMA AssertionsFollow ==
  ASSUME IInv
  PROVE  AssertionsHold
<1>1. lru # <<>> => /\ Head(lru) \in live /\ Cached(Head(lru))
                    /\ entry[Head(lru)].refs = 1
  <2> SUFFICES ASSUME lru # <<>>
               PROVE  Head(lru) \in ToSet(lru)
    BY DEF IInv, ListsExact
  <2> QED
    BY HeadTailInjective DEF IInv, TypeOK, ListsExact
<1>2. ASSUME NEW t \in Threads, pc[t] = "release"
      PROVE  entry[mine[t]].refs > 0 /\ (entry[mine[t]].refs = 1 => ~Cached(mine[t]))
  <2>1. PICK h \in Handles : h = mine[t]
    BY <1>2 DEF IInv, TypeOK, LocalsOK
  <2>2. h \in live /\ Clients(h) > 0 /\ Clients(h) \in Nat
    BY <1>2, <2>1, ClientsAreLive, IInvParts DEF Holders
  <2>3. entry[h].refs = Clients(h) + (IF Cached(h) THEN 1 ELSE 0)
    BY <2>2 DEF IInv, RefsExact
  <2> QED
    BY <2>1, <2>2, <2>3
<1>3. ASSUME NEW t \in Threads, pc[t] \in {"insert_evict", "prune_evict"}
      PROVE  victim[t] # NULL
  <2>1. victim[t] = Head(lru) /\ lru # <<>>
    BY <1>3 DEF IInv, EvictsOldest
  <2> QED
    BY <1>1, <2>1, LRUCacheAssumption DEF IInv, TypeOK
<1>4. ASSUME NEW t \in Threads, victim[t] # NULL
      PROVE  Cached(victim[t])
  BY <1>4 DEF IInv, LocalsOK, ClosingOK, TableExact, Victims
<1> QED
  BY <1>1, <1>2, <1>3, <1>4 DEF AssertionsHold

(* None of the assertions in cache.cc can fail. *)
THEOREM AssertionsNeverFail == Spec => []AssertionsHold
BY AssertionsFollow, Invariance, PTL

(* The destructor leaves only entries some client still references. *)
THEOREM NothingLeftBehind == Spec => []DestructorFrees
<1>1. IInv => DestructorFrees
  <2> SUFFICES ASSUME IInv, closing, lru = <<>>
               PROVE  live = {h \in Handles : held[h] > 0}
    BY DEF DestructorFrees
  <2>1. ToSet(lru) = {} /\ in_use = {}
    BY DEF ToSet, IInv, ClosingOK
  <2>2. \A h \in live : ~Cached(h)
    BY <2>1, IInvParts, EntryFields DEF IInv, ListsExact, CountedOK, CacheTypeOK
  <2>3. \A h \in Handles : Clients(h) = held[h]
    <3>1. \A h \in Handles : Holders(h) = {}
      BY LRUCacheAssumption DEF IInv, ClosingOK, LocalsOK, Holders
    <3>2. Cardinality({}) = 0
      BY FS_EmptySet
    <3>3. \A h \in Handles : Cardinality(Holders(h)) = 0
      BY <3>1, <3>2
    <3> QED
      BY <3>3 DEF Clients, IInv, TypeOK
  <2>4. \A h \in live : held[h] > 0
    <3> SUFFICES ASSUME NEW h \in live
                 PROVE  held[h] > 0
      OBVIOUS
    <3>1. h \in Handles
      BY DEF IInv, TypeOK
    <3>2. entry[h].refs = Clients(h) + 0 /\ entry[h].refs > 0
      BY <3>1, <2>2 DEF IInv, RefsExact
    <3> QED
      BY <3>1, <3>2, <2>3, IInvParts
  <2>5. \A h \in Handles : held[h] > 0 => h \in live
    BY ClientsAreLive
  <2> QED
    BY <2>4, <2>5 DEF IInv, TypeOK
<1> QED
  BY <1>1, Invariance, PTL

-----------------------------------------------------------------------------
(* What a step may never do.                                               *)

(* Taking the key of the oldest idle entry out of the table, as both       *)
(* eviction loops do, changes no key that leads to a referenced entry.     *)
LEMMA OldestIsUnpinned ==
  ASSUME IInv, NEW t \in Threads, mutex = t, victim[t] = NULL, ~closing, lru # <<>>,
         TableRemove(t, entry[Head(lru)].key),
         NEW k \in Keys, Clients(table[k]) > 0
  PROVE  table'[k] = table[k]
<1>1. PICK e \in Handles : e = Head(lru)
  BY HeadTailInjective DEF IInv, TypeOK, ListsExact
<1>2. /\ e \in live /\ Cached(e) /\ entry[e].refs = 1
      /\ entry[e].key \in Keys /\ table[entry[e].key] = e
  BY <1>1, OldestIsInTable
<1>3. entry[e].refs = Clients(e) + 1 /\ Clients(e) \in Nat
  BY <1>2, IInvParts DEF IInv, RefsExact
<1>4. Clients(e) = 0
  BY <1>2, <1>3
<1>5. entry[e].key # k
  BY <1>2, <1>4
<1> QED
  BY <1>1, <1>5 DEF TableRemove, IInv, TypeOK

(* No client that holds a handle loses its entry to eviction, to Prune or  *)
(* to a call on another key.                                               *)
THEOREM PinsHold == Spec => PinnedStaysCached
<1> DEFINE Pinned(k) == table[k] # NULL /\ Clients(table[k]) > 0
           Chosen(k) == \E t \in Threads :
                          \/ EraseUnlink(t, k)
                          \/ \E c \in Charges, h \in Handles : InsertLink(t, k, c, h)
<1>1. ASSUME IInv, Next, NEW k \in Keys, Pinned(k), table'[k] # table[k]
      PROVE  Chosen(k)
  <2>1. ASSUME NEW t \in Threads, Call(t)
        PROVE  Chosen(k)
    <3>1. ASSUME NEW j \in Keys, LookupFind(t, j)
          PROVE  table' = table
      BY <3>1 DEF LookupFind, cache
    <3>2. ASSUME NEW j \in Keys, EraseUnlink(t, j)
          PROVE  EraseUnlink(t, k)
      <4>1. j = k
        BY <1>1, <3>2 DEF EraseUnlink, TableRemove, IInv, TypeOK
      <4> QED
        BY <3>2, <4>1
    <3>3. ASSUME NEW j \in Keys, NEW c \in Charges, NEW h \in Handles, InsertLink(t, j, c, h)
          PROVE  InsertLink(t, k, c, h)
      <4>1. j = k
        BY <1>1, <3>3 DEF InsertLink, TableInsert, IInv, TypeOK
      <4> QED
        BY <3>3, <4>1
    <3>4. ASSUME NEW j \in Keys, NEW c \in Charges, NEW h \in Handles, InsertUncached(t, j, c, h)
          PROVE  table' = table
      BY <3>4 DEF InsertUncached
    <3>5. PruneStart(t) => table' = table
      BY DEF PruneStart, cache
    <3>6. ASSUME NEW h \in Handles, ReleaseCall(t, h)
          PROVE  table' = table
      BY <3>6 DEF ReleaseCall, cache
    <3> QED
      BY <1>1, <2>1, <3>1, <3>2, <3>3, <3>4, <3>5, <3>6 DEF Call
  <2>2. ASSUME NEW t \in Threads, Continue(t)
        PROVE  table'[k] = table[k]
    <3>1. CASE LookupRef(t) \/ InsertReturn(t) \/ PruneReturn(t)
      BY <3>1 DEF LookupRef, InsertReturn, PruneReturn, cache
    <3>2. CASE InsertFinishErase(t) \/ InsertFinishEvict(t) \/ EraseFinish(t)
               \/ PruneFinishErase(t)
      BY <3>2 DEF InsertFinishErase, InsertFinishEvict, EraseFinish, PruneFinishErase
    <3>3. CASE InsertEvict(t) \/ PruneUnlink(t)
      <4>1. /\ pc[t] \in {"insert_trim", "prune"} /\ lru # <<>>
            /\ TableRemove(t, entry[Head(lru)].key)
        BY <3>3 DEF InsertEvict, PruneUnlink, OverCapacity, Oldest
      <4>2. mutex = t /\ victim[t] = NULL /\ ~closing
        BY <1>1, <4>1 DEF IInv, LocalsOK, MutualExclusion, Critical, ClosingOK
      <4> QED
        BY <1>1, <4>1, <4>2, OldestIsUnpinned
    <3> QED
      BY <2>2, <3>1, <3>2, <3>3 DEF Continue
  <2>3. ASSUME NEW t \in Threads, ReleaseUnref(t)
        PROVE  table' = table
    BY <2>3 DEF ReleaseUnref
  <2>4. DestroyStart \/ DestroyEntry \/ Destroyed => table' = table
    BY DEF DestroyStart, DestroyEntry, Destroyed, vars, cache
  <2> HIDE DEF Chosen
  <2> QED
    BY <1>1, <2>1, <2>2, <2>3, <2>4 DEF Next
<1>2. IInv /\ [Next]_vars =>
        [\A k \in Keys : Pinned(k) /\ table'[k] # table[k] => Chosen(k)]_vars
  <2> HIDE DEF Pinned, Chosen
  <2> QED
    BY <1>1
<1> QED
  BY <1>2, Invariance, PTL DEF Spec, PinnedStaysCached

(* Release puts an entry on lru_ only if it was on in_use_ before. *)
LEMMA ReleaseKeepsOrder ==
  ASSUME IInv, NEW t \in Threads, ReleaseUnref(t)
  PROVE  SameOrder(lru', lru)
<1>0. PICK e : e = mine[t]
  OBVIOUS
<1>1. pc[t] = "release" /\ Unref(e)
  BY <1>0 DEF ReleaseUnref
<1>2. e \in Handles /\ lru \in Seq(Handles)
  BY <1>0, <1>1, LRUCacheAssumption DEF IInv, LocalsOK, TypeOK
<1>3. CASE entry[e].refs # 1 /\ entry[e].in_cache /\ entry[e].refs = 2
  <2>1. e \notin ToSet(lru)
    BY <1>3 DEF IInv, ListsExact
  <2>2. lru' = Append(lru, e)
    BY <1>1, <1>2, <1>3, <2>1, RemoveFirstAbsent DEF Unref, MakeNewest
  <2> QED
    BY <1>2, <2>1, <2>2, AppendNewOrder
<1>4. CASE ~(entry[e].refs # 1 /\ entry[e].in_cache /\ entry[e].refs = 2)
  <2>1. lru' = lru
    BY <1>1, <1>4 DEF Unref
  <2> QED
    BY <2>1 DEF SameOrder
<1> QED
  BY <1>3, <1>4

(* FinishErase takes at most one entry out. *)
LEMMA FinishEraseKeepsOrder ==
  ASSUME IInv, NEW e, FinishErase(e)
  PROVE  SameOrder(lru', lru)
<1>1. lru' = lru \/ lru' = RemoveFirst(lru, e)
  BY DEF FinishErase, Unlink
<1>2. lru \in Seq(Handles) /\ IsInjective(lru) /\ SameOrder(lru, lru)
  BY DEF IInv, TypeOK, ListsExact, SameOrder
<1> QED
  BY <1>1, <1>2, RemoveFirstOrder

(* Entries leave lru_ in any order but wait there in the one they became   *)
(* idle in.                                                                *)
THEOREM OrderOfIdling == Spec => RecencyKept
<1>1. ASSUME IInv, Next
      PROVE  SameOrder(lru', lru)
  <2>0. /\ lru \in Seq(Handles) /\ IsInjective(lru)
        /\ lru' = lru => SameOrder(lru', lru)
    BY <1>1 DEF IInv, TypeOK, ListsExact, SameOrder
  <2>1. ASSUME NEW t \in Threads, Call(t)
        PROVE  lru' = lru
    BY <2>1 DEF Call, LookupFind, EraseUnlink, InsertLink, InsertUncached, PruneStart,
       ReleaseCall, cache
  <2>2. ASSUME NEW t \in Threads, Continue(t)
        PROVE  SameOrder(lru', lru)
    <3>1. CASE LookupRef(t)
      <4>1. lru' = lru \/ lru' = RemoveFirst(lru, mine[t])
        BY <3>1 DEF LookupRef, Ref, cache
      <4> QED
        BY <2>0, <4>1, RemoveFirstOrder
    <3>2. CASE InsertReturn(t) \/ PruneReturn(t) \/ InsertEvict(t) \/ PruneUnlink(t)
      <4>1. lru' = lru
        BY <3>2 DEF InsertReturn, PruneReturn, InsertEvict, PruneUnlink, cache
      <4> QED
        BY <2>0, <4>1
    <3>3. CASE InsertFinishErase(t) \/ InsertFinishEvict(t) \/ EraseFinish(t)
               \/ PruneFinishErase(t)
      <4>1. FinishErase(victim[t])
        BY <3>3 DEF InsertFinishErase, InsertFinishEvict, EraseFinish, PruneFinishErase
      <4> QED
        BY <1>1, <4>1, FinishEraseKeepsOrder
    <3> QED
      BY <2>2, <3>1, <3>2, <3>3 DEF Continue
  <2>3. DestroyStart \/ Destroyed => lru' = lru
    BY DEF DestroyStart, Destroyed, vars, cache
  <2>4. DestroyEntry => SameOrder(lru', lru)
    BY <2>0, TailOrder DEF DestroyEntry
  <2> QED
    BY <1>1, <2>0, <2>1, <2>2, <2>3, <2>4, ReleaseKeepsOrder DEF Next
<1>2. IInv /\ [Next]_vars =>
        [\A i, j \in DOMAIN lru' : i < j /\ lru'[j] \in ToSet(lru) =>
           \E m, n \in DOMAIN lru : m < n /\ lru[m] = lru'[i] /\ lru[n] = lru'[j]]_vars
  BY <1>1 DEF SameOrder
<1> QED
  BY <1>2, Invariance, PTL DEF Spec, RecencyKept

-----------------------------------------------------------------------------
(***************************************************************************)
(* usage_ is the combined charge of the cached entries.                    *)
(***************************************************************************)

InCache == {h \in live : Cached(h)}

ChargeAt == [h \in Handles |-> entry[h].charge]

(* No charge is negative. *)
LEMMA ChargesAreNat == CacheTypeOK => \A h \in Handles : entry[h].charge \in Nat
<1> SUFFICES ASSUME CacheTypeOK, NEW h \in Handles PROVE entry[h].charge \in Nat
  OBVIOUS
<1>1. entry[h] \in Entry
  BY DEF CacheTypeOK
<1>2. entry[h].charge \in Charges \cup {0}
  BY <1>1 DEF Entry
<1>3. Charges \cup {0} \subseteq Nat
  BY LRUCacheAssumption
<1> QED
  BY <1>2, <1>3

(* Nor is it after a step. *)
LEMMA ChargesAreNatNext ==
  (CacheTypeOK)' => (\A h \in Handles : entry[h].charge \in Nat)'
BY ChargesAreNat, PTL

(* There are finitely many entries, and their charges can be added up. *)
LEMMA ChargesAdd ==
  ASSUME CacheTypeOK
  PROVE  /\ InCache \subseteq Handles /\ IsFiniteSet(InCache)
         /\ \A h \in Handles : ChargeAt[h] \in Nat /\ ChargeAt[h] = entry[h].charge
<1>1. IsFiniteSet(Handles)
  BY LRUCacheAssumption
<1>2. InCache \subseteq Handles
  BY DEF InCache, CacheTypeOK
<1>3. IsFiniteSet(InCache)
  BY <1>1, <1>2, FS_Subset
<1>4. ASSUME NEW h \in Handles PROVE entry[h].charge \in Nat
  BY ChargesAreNat
<1> QED
  BY <1>2, <1>3, <1>4 DEF ChargeAt

(* A step that neither caches nor uncaches an entry. *)
LEMMA UsageStays ==
  ASSUME CacheTypeOK, CacheTypeOK', UsageExact, ~closing, usage' = usage,
         InCache' = InCache, \A h \in InCache : entry'[h].charge = entry[h].charge
  PROVE  UsageExact'
<1> DEFINE g == ChargeAt'
<1>1. \A h \in InCache : ChargeAt[h] = g[h]
  BY ChargesAdd DEF ChargeAt
<1>2. IsFiniteSet(InCache)
  BY ChargesAdd
<1> HIDE DEF g
<1>3. SumFunctionOnSet(ChargeAt, InCache) = SumFunctionOnSet(g, InCache)
  BY <1>1, <1>2, SumsEqual
<1>4. usage = SumFunctionOnSet(ChargeAt, InCache)
  BY DEF UsageExact, InCache, ChargeAt
<1>5. usage' = SumFunctionOnSet(g, InCache')
  BY <1>3, <1>4
<1> QED
  BY <1>5 DEF g, UsageExact, InCache, ChargeAt

(* A step that caches one entry more. *)
LEMMA UsageGrows ==
  ASSUME CacheTypeOK, CacheTypeOK', UsageExact, ~closing,
         NEW e \in Handles, e \notin InCache, InCache' = InCache \cup {e},
         usage' = usage + entry'[e].charge,
         \A h \in InCache : entry'[h].charge = entry[h].charge
  PROVE  UsageExact'
<1> DEFINE g == ChargeAt'
<1>1. \A h \in InCache : ChargeAt[h] = g[h]
  BY ChargesAdd DEF ChargeAt
<1>2. IsFiniteSet(InCache) /\ InCache \subseteq Handles
  BY ChargesAdd
<1>3. \A h \in Handles : g[h] = entry'[h].charge
  BY DEF ChargeAt
<1>4. \A h \in Handles : entry'[h].charge \in Int
  BY ChargesAreNatNext
<1> HIDE DEF g
<1>5. \A h \in InCache \cup {e} : g[h] \in Int
  BY <1>2, <1>3, <1>4
<1>6. SumFunctionOnSet(ChargeAt, InCache) = SumFunctionOnSet(g, InCache)
  BY <1>1, <1>2, SumsEqual
<1>7. SumFunctionOnSet(g, InCache \cup {e}) = g[e] + SumFunctionOnSet(g, InCache)
  BY <1>2, <1>5, SumTakesIn
<1>8. usage = SumFunctionOnSet(ChargeAt, InCache) /\ usage \in Int
  BY DEF UsageExact, InCache, ChargeAt, CacheTypeOK
<1>9. usage' = SumFunctionOnSet(g, InCache')
  BY <1>3, <1>4, <1>6, <1>7, <1>8
<1> QED
  BY <1>9 DEF g, UsageExact, InCache, ChargeAt

(* A step that takes one cached entry out. *)
LEMMA UsageShrinks ==
  ASSUME CacheTypeOK, CacheTypeOK', UsageExact, ~closing,
         NEW e \in InCache, InCache' = InCache \ {e},
         usage' = usage - entry[e].charge,
         \A h \in InCache' : entry'[h].charge = entry[h].charge
  PROVE  UsageExact'
<1> DEFINE g == ChargeAt'
           C == InCache'
<1>1. IsFiniteSet(InCache) /\ InCache \subseteq Handles
      /\ \A h \in Handles : ChargeAt[h] \in Nat /\ ChargeAt[h] = entry[h].charge
  BY ChargesAdd
<1>2. C = InCache \ {e} /\ C \subseteq Handles /\ IsFiniteSet(C)
  BY <1>1, FS_Subset
<1>3. \A h \in C : ChargeAt[h] = g[h]
  BY <1>2 DEF ChargeAt
<1> HIDE DEF g, C
<1>4. SumFunctionOnSet(ChargeAt, C) = SumFunctionOnSet(g, C)
  BY <1>2, <1>3, SumsEqual
<1>5. \A h \in InCache : ChargeAt[h] \in Int
  BY <1>1
<1>6. SumFunctionOnSet(ChargeAt, InCache) = ChargeAt[e] + SumFunctionOnSet(ChargeAt, InCache \ {e})
  BY <1>1, <1>5, SumTakesOut
<1>7. SumFunctionOnSet(ChargeAt, C) \in Nat
  BY <1>1, <1>2, SumIsNat
<1>8. usage = SumFunctionOnSet(ChargeAt, InCache)
  BY DEF UsageExact, InCache, ChargeAt
<1>9. usage' = SumFunctionOnSet(ChargeAt, C)
  BY <1>1, <1>2, <1>6, <1>7, <1>8
<1>10. usage' = SumFunctionOnSet(g, C)
  BY <1>4, <1>9
<1> QED
  BY <1>10 DEF g, C, UsageExact, InCache, ChargeAt

(* FinishErase discounts exactly what leaves the cache. *)
LEMMA VictimDiscounted ==
  ASSUME IInv, IInv', UsageExact, NEW t \in Threads, mutex = t, FinishErase(victim[t]),
         closing' = closing
  PROVE  UsageExact'
<1>0. PICK e : e = victim[t]
  OBVIOUS
<1>1. /\ CacheTypeOK /\ CountedOK /\ ListsExact /\ CacheTypeOK' /\ NULL \notin Handles
  BY IInvParts DEF IInv, TypeOK, CacheTypeOK
<1>2. CASE closing
  BY <1>2 DEF UsageExact
<1>3. CASE ~closing /\ e = NULL
  <2>1. UNCHANGED <<live, entry, usage>>
    BY <1>0, <1>3 DEF FinishErase
  <2> QED
    BY <2>1, <1>1, <1>3, UsageStays DEF InCache, Cached
<1>4. CASE ~closing /\ e # NULL
  <2>1. Victims = {e} \ {NULL}
    BY <1>0, OwnerAlone
  <2>2. e \in live /\ Cached(e) /\ e \in Handles
    BY <2>1, <1>1, <1>4 DEF IInv, TableExact, CacheTypeOK
  <2>3. /\ live' = IF entry[e].refs = 1 THEN live \ {e} ELSE live
        /\ entry' = IF entry[e].refs = 1
                    THEN [entry EXCEPT ![e] = Blank]
                    ELSE [entry EXCEPT ![e].in_cache = FALSE, ![e].refs = @ - 1]
        /\ usage' = usage - entry[e].charge
    BY <1>0, <1>1, <1>4, <2>2, FinishEraseStep DEF FinishErase, Uncharge
  <2>4. /\ \A g \in Handles \ {e} : entry'[g] = entry[g] /\ (g \in live' <=> g \in live)
        /\ ~entry'[e].in_cache
    BY <2>3, <2>2, <1>1, BlankIsEntry DEF CacheTypeOK, Entry
  <2>5. InCache' = InCache \ {e} /\ e \in InCache /\ InCache \subseteq Handles
    BY <2>2, <2>4, <1>1 DEF InCache, Cached, CacheTypeOK
  <2>6. \A h \in InCache' : entry'[h].charge = entry[h].charge
    BY <2>4, <2>5
  <2> QED
    BY <1>1, <1>4, <2>3, <2>5, <2>6, UsageShrinks
<1> QED
  BY <1>2, <1>3, <1>4

(* Insert adds the charge of the entry it links. *)
LEMMA InsertCharged ==
  ASSUME IInv, IInv', UsageExact, NEW t \in Threads, NEW k \in Keys, NEW c \in Charges,
         NEW e \in Handles, InsertLink(t, k, c, e)
  PROVE  UsageExact'
<1>1. CacheTypeOK /\ CacheTypeOK'
  BY IInvParts DEF IInv, TypeOK, CacheTypeOK
<1>2. /\ ~closing /\ e \notin live /\ live' = live \cup {e} /\ usage' = usage + c
      /\ entry'[e].charge = c /\ entry'[e].in_cache
      /\ \A h \in Handles \ {e} : entry'[h] = entry[h]
  BY <1>1 DEF InsertLink, Malloc, CacheTypeOK
<1>3. e \notin InCache /\ InCache' = InCache \cup {e}
  BY <1>1, <1>2 DEF InCache, Cached, CacheTypeOK
<1>4. \A h \in InCache : entry'[h].charge = entry[h].charge
  BY <1>1, <1>2, <1>3 DEF InCache, CacheTypeOK
<1> QED
  BY <1>1, <1>2, <1>3, <1>4, UsageGrows

(* An entry that is not cached counts nothing, whatever becomes of it. *)
LEMMA UsageUnaffected ==
  ASSUME IInv, IInv', UsageExact, ~closing, usage' = usage,
         NEW e \in Handles,
         \A h \in Handles \ {e} : entry'[h] = entry[h] /\ (h \in live' <=> h \in live),
         \/ e \notin InCache /\ e \notin InCache'
         \/ e \in InCache /\ e \in InCache' /\ entry'[e].charge = entry[e].charge
  PROVE  UsageExact'
<1>1. CacheTypeOK /\ CacheTypeOK'
  BY IInvParts DEF IInv, TypeOK, CacheTypeOK
<1>2. InCache' = InCache
  BY <1>1 DEF InCache, Cached, CacheTypeOK
<1>3. \A h \in InCache : entry'[h].charge = entry[h].charge
  BY <1>1 DEF InCache, CacheTypeOK
<1> QED
  BY <1>1, <1>2, <1>3, UsageStays

(* A hit changes no charge. *)
LEMMA LookupRefUncharged ==
  ASSUME IInv, IInv', UsageExact, NEW t \in Threads, LookupRef(t)
  PROVE  UsageExact'
<1>1. pc[t] = "lookup_ref" /\ ~closing /\ closing' = closing
  BY DEF LookupRef, IInv, ClosingOK
<1>2. CASE mine[t] = NULL
  BY <1>1, <1>2 DEF LookupRef, cache, UsageExact, Cached
<1>3. CASE mine[t] # NULL
  <2>1. PICK e : e = mine[t]
    OBVIOUS
  <2>2. /\ Ref(e) /\ live' = live /\ usage' = usage
    BY <1>1, <1>3, <2>1 DEF LookupRef
  <2>3. e \in live /\ e \in Handles /\ entry[e].refs \in Int
    BY <1>1, <1>3, <2>1 DEF IInv, LocalsOK, TableExact, TypeOK, Entry
  <2>4. /\ \A h \in Handles \ {e} : entry'[h] = entry[h] /\ (h \in live' <=> h \in live)
        /\ entry'[e].charge = entry[e].charge /\ entry'[e].in_cache = entry[e].in_cache
    BY <2>2, <2>3 DEF Ref, IInv, TypeOK, Entry
  <2>5. e \in InCache <=> e \in InCache'
    BY <2>2, <2>3, <2>4 DEF InCache, Cached
  <2> QED
    BY <1>1, <2>2, <2>3, <2>4, <2>5, UsageUnaffected
<1> QED
  BY <1>2, <1>3

(* Release frees only an entry that has left the cache, and was discounted *)
(* then.                                                                   *)
LEMMA ReleaseUncharged ==
  ASSUME IInv, IInv', UsageExact, NEW t \in Threads, ReleaseUnref(t)
  PROVE  UsageExact'
<1>1. PICK e : e = mine[t]
  OBVIOUS
<1>2. pc[t] = "release" /\ ~closing /\ Unref(e) /\ usage' = usage
  BY <1>1 DEF ReleaseUnref, IInv, ClosingOK
<1>3. e \in Handles
  BY <1>1, <1>2 DEF IInv, LocalsOK, TypeOK
<1>4. entry[e].refs = 1 => ~Cached(e)
  BY <1>1, <1>2, AssertionsFollow DEF AssertionsHold
<1>5. \A h \in Handles \ {e} : entry'[h] = entry[h] /\ (h \in live' <=> h \in live)
  BY <1>2, <1>3 DEF Unref, Deallocate, IInv, TypeOK
<1>6. CASE entry[e].refs = 1
  <2>1. e \notin live'
    BY <1>2, <1>6 DEF Unref, Deallocate
  <2>2. e \notin InCache /\ e \notin InCache'
    BY <2>1, <1>4, <1>6 DEF InCache
  <2> QED
    BY <2>2, <1>2, <1>3, <1>5, UsageUnaffected
<1>7. CASE entry[e].refs # 1
  <2>1. /\ live' = live
        /\ entry'[e].charge = entry[e].charge /\ entry'[e].in_cache = entry[e].in_cache
    BY <1>2, <1>3, <1>7 DEF Unref, IInv, TypeOK, Entry
  <2>2. e \in InCache <=> e \in InCache'
    BY <2>1 DEF InCache, Cached
  <2> QED
    BY <2>1, <2>2, <1>2, <1>3, <1>5, UsageUnaffected
<1> QED
  BY <1>6, <1>7

(* Insert with capacity_ 0 gives the client an entry that is not counted. *)
LEMMA UncachedUncharged ==
  ASSUME IInv, IInv', UsageExact, NEW t \in Threads, NEW k \in Keys, NEW c \in Charges,
         NEW e \in Handles, InsertUncached(t, k, c, e)
  PROVE  UsageExact'
<1>1. /\ ~closing /\ usage' = usage /\ e \notin live /\ live' = live \cup {e}
      /\ entry'[e].in_cache = FALSE
      /\ \A h \in Handles \ {e} : entry'[h] = entry[h]
  BY DEF InsertUncached, Malloc, IInv, TypeOK
<1>2. e \notin InCache /\ e \notin InCache'
  BY <1>1 DEF InCache, Cached
<1> QED
  BY <1>1, <1>2, UsageUnaffected

(* No step makes usage_ and the charges disagree. *)
LEMMA UsageStep ==
  ASSUME IInv, IInv', UsageExact, [Next]_vars
  PROVE  UsageExact'
<1>1. ASSUME UNCHANGED <<live, entry, usage, closing>> PROVE UsageExact'
  BY <1>1 DEF UsageExact, Cached
<1>2. ASSUME NEW t \in Threads, Call(t) PROVE UsageExact'
  <2>1. ASSUME NEW k \in Keys, LookupFind(t, k) \/ EraseUnlink(t, k) PROVE UsageExact'
    BY <1>1, <2>1 DEF LookupFind, EraseUnlink, cache
  <2>2. ASSUME PruneStart(t) \/ \E h \in Handles : ReleaseCall(t, h) PROVE UsageExact'
    BY <1>1, <2>2 DEF PruneStart, ReleaseCall, cache
  <2> QED
    BY <1>2, <2>1, <2>2, InsertCharged, UncachedUncharged DEF Call
<1>3. ASSUME NEW t \in Threads, Continue(t) PROVE UsageExact'
  <2>1. CASE \/ InsertFinishErase(t) \/ InsertFinishEvict(t)
             \/ EraseFinish(t) \/ PruneFinishErase(t)
    <3>1. FinishErase(victim[t]) /\ closing' = closing /\ pc[t] \in Critical
      BY <2>1 DEF InsertFinishErase, InsertFinishEvict, EraseFinish, PruneFinishErase, Critical
    <3>2. mutex = t
      BY <3>1 DEF IInv, MutualExclusion
    <3> QED
      BY <3>1, <3>2, VictimDiscounted
  <2>2. CASE InsertEvict(t) \/ InsertReturn(t) \/ PruneUnlink(t) \/ PruneReturn(t)
    BY <1>1, <2>2 DEF InsertEvict, InsertReturn, PruneUnlink, PruneReturn, cache
  <2> QED
    BY <1>3, <2>1, <2>2, LookupRefUncharged DEF Continue
<1>4. ASSUME DestroyStart \/ DestroyEntry PROVE UsageExact'
  BY <1>4 DEF DestroyStart, DestroyEntry, UsageExact
<1>5. ASSUME Destroyed \/ UNCHANGED vars PROVE UsageExact'
  BY <1>1, <1>5 DEF Destroyed, vars, cache
<1> QED
  BY <1>2, <1>3, <1>4, <1>5, ReleaseUncharged DEF Next

(* usage_ is what the cached entries charge, in every state a thread can   *)
(* see: no Insert, eviction, Erase or Prune counts an entry twice or not   *)
(* at all.                                                                 *)
THEOREM UsageAgrees == Spec => []UsageExact
<1>1. Init => UsageExact
  BY SumOfNothing DEF Init, UsageExact
<1> QED
  BY <1>1, UsageStep, IInvStep, Invariance, PTL DEF Spec

-----------------------------------------------------------------------------
(* The cache trims when Insert returns, and at no other time.              *)

Inserting == \E t \in Threads : pc[t] \in {"insert_erase", "insert_trim", "insert_evict"}

(* TrimmedByInsert also holds while the mutex is held, except by Insert.   *)
TrimmedOutsideInsert ==
  ~Inserting /\ usage > capacity /\ ~closing => ToSet(lru) \subseteq released

(* FinishErase discounts and unlinks.                                      *)
LEMMA FinishEraseLess ==
  ASSUME IInv, NEW t \in Threads, mutex = t, FinishErase(victim[t])
  PROVE  usage' <= usage /\ ToSet(lru') \subseteq ToSet(lru)
<1>0. PICK e : e = victim[t]
  OBVIOUS
<1>1. CacheTypeOK /\ IsInjective(lru)
  BY IInvParts DEF IInv, ListsExact
<1>2. CASE e = NULL
  BY <1>0, <1>1, <1>2 DEF FinishErase, CacheTypeOK
<1>3. CASE e # NULL
  <2>1. e \in Handles
    BY <1>0, <1>3 DEF IInv, TypeOK
  <2>2. usage' = usage - entry[e].charge /\ lru' = RemoveFirst(lru, e)
    BY <1>0, <1>3 DEF FinishErase, Uncharge, Unlink
  <2>3. entry[e].charge \in Nat /\ usage \in Int
    BY <1>1, <2>1, ChargesAreNat DEF CacheTypeOK
  <2>4. usage' <= usage
    BY <2>2, <2>3
  <2>5. ToSet(RemoveFirst(lru, e)) = ToSet(lru) \ {e}
    BY <1>1, RemoveFirstProperties DEF CacheTypeOK
  <2> QED
    BY <2>2, <2>4, <2>5
<1> QED
  BY <1>2, <1>3

(* Outside Insert usage_ never grows, and what becomes idle is released.   *)
LEMMA OnlyInsertGrows ==
  ASSUME IInv, Next, ~Inserting, ~Inserting', ~closing'
  PROVE  /\ usage' <= usage /\ capacity' = capacity /\ ~closing
         /\ ToSet(lru') \subseteq ToSet(lru) \cup Released
<1>1. lru \in Seq(Handles) /\ IsInjective(lru) /\ usage \in Int
      /\ pc \in [Threads -> Critical \cup {"idle", "release"}]
  BY DEF IInv, TypeOK, ListsExact
<1>2. ASSUME UNCHANGED <<lru, usage, capacity, closing>>
      PROVE  /\ usage' <= usage /\ capacity' = capacity /\ ~closing
             /\ ToSet(lru') \subseteq ToSet(lru) \cup Released
  BY <1>1, <1>2
<1>3. ASSUME NEW t \in Threads, Call(t)
      PROVE  UNCHANGED <<lru, usage, capacity, closing>>
  <2>1. ASSUME NEW k \in Keys, NEW c \in Charges, NEW h \in Handles, InsertLink(t, k, c, h)
        PROVE  FALSE
    BY <2>1, <1>1 DEF InsertLink, Goto, Inserting
  <2> QED
    BY <1>3, <2>1 DEF Call, LookupFind, EraseUnlink, InsertUncached, PruneStart,
       ReleaseCall, cache
<1>4. ASSUME NEW t \in Threads, Continue(t)
      PROVE  /\ usage' <= usage /\ capacity' = capacity /\ ~closing
             /\ ToSet(lru') \subseteq ToSet(lru) \cup Released
  <2>0. capacity' = capacity /\ closing' = closing
    BY <1>4 DEF Continue, LookupRef, InsertFinishErase, InsertEvict, InsertFinishEvict,
       InsertReturn, EraseFinish, PruneUnlink, PruneFinishErase, PruneReturn
  <2>1. CASE EraseFinish(t) \/ PruneFinishErase(t)
    <3>1. FinishErase(victim[t]) /\ pc[t] \in Critical
      BY <2>1 DEF EraseFinish, PruneFinishErase, Critical
    <3>2. mutex = t
      BY <3>1 DEF IInv, MutualExclusion
    <3> QED
      BY <2>0, <3>1, <3>2, FinishEraseLess
  <2>2. CASE LookupRef(t)
    <3>1. usage' = usage /\ (lru' = lru \/ lru' = RemoveFirst(lru, mine[t]))
      BY <2>2 DEF LookupRef, Ref, cache
    <3>2. ToSet(RemoveFirst(lru, mine[t])) = ToSet(lru) \ {mine[t]}
      BY <1>1, RemoveFirstProperties
    <3> QED
      BY <2>0, <3>1, <3>2, <1>1
  <2>3. CASE PruneUnlink(t) \/ PruneReturn(t)
    BY <1>2, <2>0, <2>3 DEF PruneUnlink, PruneReturn, cache
  <2> QED
    BY <1>4, <2>1, <2>2, <2>3 DEF Continue, Inserting, InsertFinishErase, InsertEvict,
       InsertFinishEvict, InsertReturn
<1>5. ASSUME NEW t \in Threads, ReleaseUnref(t)
      PROVE  /\ usage' <= usage /\ capacity' = capacity /\ ~closing
             /\ ToSet(lru') \subseteq ToSet(lru) \cup Released
  <2>1. PICK e : e = mine[t]
    OBVIOUS
  <2>2. /\ pc[t] = "release" /\ Unref(e) /\ pc'[t] = "idle"
        /\ usage' = usage /\ capacity' = capacity /\ closing' = closing
    BY <2>1, <1>1, <1>5 DEF ReleaseUnref, Return, Goto
  <2>3. e \in Released /\ e \in Handles
    BY <2>1, <2>2, LRUCacheAssumption DEF Released, IInv, LocalsOK, TypeOK
  <2>4. lru' = lru \/ lru' = Append(RemoveFirst(lru, e), e)
    BY <2>2 DEF Unref, MakeNewest
  <2>5. /\ RemoveFirst(lru, e) \in Seq(Handles) /\ IsInjective(RemoveFirst(lru, e))
        /\ ToSet(RemoveFirst(lru, e)) = ToSet(lru) \ {e}
    BY <1>1, RemoveFirstProperties
  <2>6. e \notin ToSet(RemoveFirst(lru, e))
    BY <2>5
  <2>7. ToSet(Append(RemoveFirst(lru, e), e)) = ToSet(RemoveFirst(lru, e)) \cup {e}
    BY <2>3, <2>5, <2>6, AppendNewProperties
  <2>8. ToSet(lru') \subseteq ToSet(lru) \cup Released
    BY <2>3, <2>4, <2>5, <2>7
  <2>9. usage' <= usage /\ capacity' = capacity /\ ~closing
    BY <1>1, <2>2
  <2> QED
    BY <2>8, <2>9
<1>6. DestroyStart \/ DestroyEntry => closing'
  BY DEF DestroyStart, DestroyEntry
<1>7. Destroyed => UNCHANGED <<lru, usage, capacity, closing>>
  BY DEF Destroyed, vars, cache
<1> QED
  BY <1>2, <1>3, <1>4, <1>5, <1>6, <1>7 DEF Next

(* When Insert is over, nothing it could have evicted is left.             *)
LEMMA InsertTrims ==
  ASSUME IInv, Next, Inserting, ~Inserting'
  PROVE  InsertReturns /\ (usage' > capacity' => lru' = <<>>)
<1>1. PICK t \in Threads : pc[t] \in {"insert_erase", "insert_trim", "insert_evict"}
  BY DEF Inserting
<1>2. mutex = t /\ t # NULL /\ ~closing
  BY <1>1, LRUCacheAssumption DEF IInv, MutualExclusion, Critical, ClosingOK
<1>3. /\ pc \in [Threads -> Critical \cup {"idle", "release"}]
      /\ pc[t] # "idle" /\ pc[t] # "release"
  BY <1>1 DEF IInv, TypeOK
<1>4. pc'[t] \notin {"insert_erase", "insert_trim", "insert_evict"}
  BY DEF Inserting
<1>5. ASSUME NEW u \in Threads, Call(u) PROVE FALSE
  <2>1. ASSUME NEW h \in Handles, ReleaseCall(u, h) PROVE pc'[t] = pc[t]
    BY <1>3, <2>1 DEF ReleaseCall, Goto
  <2> QED
    BY <1>1, <1>2, <1>4, <1>5, <2>1 DEF Call, LookupFind, EraseUnlink, InsertLink,
       InsertUncached, PruneStart, Lock
<1>6. ASSUME NEW u \in Threads, Continue(u) PROVE u = t /\ InsertReturn(t)
  <2>1. pc[u] \in Critical
    BY <1>6 DEF Continue, Critical, LookupRef, InsertFinishErase, InsertEvict,
       InsertFinishEvict, InsertReturn, EraseFinish, PruneUnlink, PruneFinishErase, PruneReturn
  <2>2. u = t
    BY <1>2, <2>1 DEF IInv, MutualExclusion
  <2>3. ~(InsertFinishErase(t) \/ InsertEvict(t) \/ InsertFinishEvict(t))
    BY <1>3, <1>4 DEF InsertFinishErase, InsertEvict, InsertFinishEvict, Goto
  <2>4. ~(LookupRef(t) \/ EraseFinish(t) \/ PruneUnlink(t) \/ PruneFinishErase(t)
            \/ PruneReturn(t))
    BY <1>1 DEF LookupRef, EraseFinish, PruneUnlink, PruneFinishErase, PruneReturn
  <2> QED
    BY <1>6, <2>2, <2>3, <2>4 DEF Continue
<1>7. ASSUME NEW u \in Threads PROVE ~ReleaseUnref(u)
  BY <1>2 DEF ReleaseUnref
<1>8. ~(DestroyStart \/ DestroyEntry \/ Destroyed)
  BY <1>2, <1>3 DEF DestroyStart, DestroyEntry, Destroyed
<1>9. InsertReturn(t)
  BY <1>5, <1>6, <1>7, <1>8 DEF Next
<1>10. /\ pc[t] = "insert_trim" /\ pc'[t] = "idle"
       /\ lru' = lru /\ usage' = usage /\ capacity' = capacity /\ ~OverCapacity
  BY <1>9, <1>3 DEF InsertReturn, Return, Goto, cache
<1> QED
  BY <1>10 DEF InsertReturns, OverCapacity

(* What is idle beyond the capacity has been released since.               *)
LEMMA TrimmedStep ==
  ASSUME IInv, TrimmedOutsideInsert, [HistoryNext]_<<vars, released>>
  PROVE  TrimmedOutsideInsert'
<1>1. CASE UNCHANGED <<vars, released>>
  BY <1>1 DEF TrimmedOutsideInsert, Inserting, vars, cache, locals
<1>2. CASE HistoryNext
  <2> SUFFICES ASSUME ~Inserting', usage' > capacity', ~closing'
               PROVE  ToSet(lru') \subseteq released'
    BY DEF TrimmedOutsideInsert
  <2>0. Next /\ released' = IF InsertReturns THEN {} ELSE released \cup Released
    BY <1>2 DEF HistoryNext
  <2>1. CASE Inserting
    <3>1. lru' = <<>>
      BY <2>0, <2>1, InsertTrims
    <3> QED
      BY <3>1 DEF ToSet
  <2>2. CASE ~Inserting
    <3>1. /\ usage' <= usage /\ capacity' = capacity /\ ~closing
          /\ ToSet(lru') \subseteq ToSet(lru) \cup Released
      BY <2>0, <2>2, OnlyInsertGrows
    <3>2. usage > capacity
      <4>1. usage \in Int /\ capacity \in Int
        BY LRUCacheAssumption DEF IInv, TypeOK
      <4>2. usage' \in Int
        BY <2>0, IInvStep DEF IInv, TypeOK
      <4> QED
        BY <3>1, <4>1, <4>2
    <3>3. ToSet(lru) \subseteq released
      BY <2>2, <3>1, <3>2 DEF TrimmedOutsideInsert
    <3>4. ~InsertReturns
      BY <2>2 DEF InsertReturns, Inserting
    <3> QED
      BY <2>0, <3>1, <3>3, <3>4
  <2> QED
    BY <2>1, <2>2
<1> QED
  BY <1>1, <1>2

(* Idle entries exceed the capacity only if each of them was released      *)
(* after the last Insert returned: Release never trims, and every Insert   *)
(* trims as far as it can.                                                 *)
THEOREM InsertTrimsAll == HistorySpec => []TrimmedByInsert
<1>1. HistoryInit => IInv /\ TrimmedOutsideInsert
  <2>1. HistoryInit => Init /\ lru = <<>>
    BY DEF HistoryInit, Init
  <2> QED
    BY <2>1, IInvInit DEF TrimmedOutsideInsert, ToSet
<1>2. [HistoryNext]_<<vars, released>> => [Next]_vars
  BY DEF HistoryNext
<1>3. IInv /\ TrimmedOutsideInsert => TrimmedByInsert
  <2> SUFFICES ASSUME IInv, mutex = NULL PROVE ~Inserting
    BY DEF TrimmedByInsert, TrimmedOutsideInsert
  <2> QED
    BY LRUCacheAssumption DEF IInv, MutualExclusion, Critical, Inserting
<1> QED
  BY <1>1, <1>2, <1>3, IInvStep, TrimmedStep, PTL DEF HistorySpec

-----------------------------------------------------------------------------
(* A shard keeps the promise of CacheSpec: every step of LRUCache is a     *)
(* step of the promise or changes nothing a client can see.                *)

(* What Lookup(k) would return now: the refinement mapping, by key. *)
MapsTo(k) == IF table[k] # NULL /\ entry[table[k]].in_cache THEN table[k] ELSE NULL

(* A cache of capacity 0 never has anything in its table. *)
UncachedOK == capacity = 0 => \A k \in Keys : table[k] = NULL

-----------------------------------------------------------------------------
(* The steps of the promise, seen entry by entry and key by key.           *)

(* What no client sees is a stuttering step of the promise. *)
LEMMA SeenAsStutter ==
  ASSUME live' = live,
         \A h \in Handles : entry'[h].key = entry[h].key /\ Clients(h)' = Clients(h),
         \A k \in Keys : MapsTo(k)' = MapsTo(k)
  PROVE  UNCHANGED Promise!vars
BY DEF Promise!vars, MapsTo

(* A new entry with one reference, under its key or uncached. *)
LEMMA SeenAsInsert ==
  ASSUME NEW e \in Handles, NEW k \in Keys, e \notin live, live' = live \cup {e},
         entry'[e].key = k, Clients(e)' = 1,
         \A h \in Handles \ {e} : entry'[h].key = entry[h].key /\ Clients(h)' = Clients(h),
         MapsTo(k)' \in {e, NULL},
         \A j \in Keys \ {k} : MapsTo(j)' = MapsTo(j)
  PROVE  Promise!Insert(k, e)
BY DEF Promise!Insert, MapsTo

(* A hit that adds a reference. *)
LEMMA SeenAsLookup ==
  ASSUME NEW k \in Keys, MapsTo(k) # NULL, live' = live,
         \A h \in Handles : /\ entry'[h].key = entry[h].key
                            /\ Clients(h)' = IF h = MapsTo(k) THEN Clients(h) + 1 ELSE Clients(h),
         \A j \in Keys : MapsTo(j)' = MapsTo(j)
  PROVE  Promise!Lookup(k)
BY DEF Promise!Lookup, MapsTo

(* A key that is forgotten. *)
LEMMA SeenAsForget ==
  ASSUME NEW k \in Keys, live' = live, MapsTo(k)' = NULL,
         \A h \in Handles : entry'[h].key = entry[h].key /\ Clients(h)' = Clients(h),
         \A j \in Keys \ {k} : MapsTo(j)' = MapsTo(j)
  PROVE  Promise!Forget(k)
BY DEF Promise!Forget, MapsTo

(* An entry nobody references that is freed and no longer mapped. *)
LEMMA SeenAsDestroy ==
  ASSUME NEW e \in live, live \subseteq Handles, live' = live \ {e},
         Clients(e) = 0, entry'[e].key = NULL,
         \A h \in Handles : Clients(h)' = Clients(h),
         \A h \in Handles \ {e} : entry'[h].key = entry[h].key,
         \A k \in Keys : MapsTo(k)' = IF MapsTo(k) = e THEN NULL ELSE MapsTo(k)
  PROVE  Promise!Destroy(e)
BY DEF Promise!Destroy, Promise!Delete, MapsTo

(* A reference given back that was not the last, or whose entry is mapped. *)
LEMMA SeenAsRelease ==
  ASSUME NEW e \in Handles, Clients(e) > 0, live' = live,
         Clients(e) = 1 => \E k \in Keys : MapsTo(k) = e,
         \A h \in Handles : /\ entry'[h].key = entry[h].key
                            /\ Clients(h)' = IF h = e THEN Clients(h) - 1 ELSE Clients(h),
         \A k \in Keys : MapsTo(k)' = MapsTo(k)
  PROVE  Promise!Release(e)
<1>1. [h \in Handles |-> Clients(h)]' = [[h \in Handles |-> Clients(h)] EXCEPT ![e] = @ - 1]
  OBVIOUS
<1>2. [h \in Handles |-> entry[h].key]' = [h \in Handles |-> entry[h].key]
  OBVIOUS
<1>3. Clients(e) = 1 => Promise!Mapped(e)
  BY DEF Promise!Mapped, MapsTo
<1>4. Promise!Release(e) <=>
        /\ Clients(e) > 0
        /\ [h \in Handles |-> Clients(h)]' = [[h \in Handles |-> Clients(h)] EXCEPT ![e] = @ - 1]
        /\ IF Clients(e) = 1 /\ ~Promise!Mapped(e)
           THEN Promise!Delete(e)
           ELSE /\ live' = live
                /\ [h \in Handles |-> entry[h].key]' = [h \in Handles |-> entry[h].key]
        /\ \A k \in Keys : MapsTo(k)' = MapsTo(k)
  BY DEF Promise!Release, MapsTo
<1> QED
  BY <1>1, <1>2, <1>3, <1>4

(* The last reference to an entry that is not mapped. *)
LEMMA SeenAsLastRelease ==
  ASSUME NEW e \in Handles, Clients(e) = 1, live' = live \ {e},
         \A k \in Keys : MapsTo(k) # e,
         entry'[e].key = NULL,
         \A h \in Handles \ {e} : entry'[h].key = entry[h].key,
         \A h \in Handles : Clients(h)' = IF h = e THEN Clients(h) - 1 ELSE Clients(h),
         \A k \in Keys : MapsTo(k)' = MapsTo(k)
  PROVE  Promise!Release(e)
<1>1. [h \in Handles |-> Clients(h)]' = [[h \in Handles |-> Clients(h)] EXCEPT ![e] = @ - 1]
  OBVIOUS
<1>2. Promise!Delete(e)
  BY DEF Promise!Delete
<1>3. ~Promise!Mapped(e)
  BY DEF Promise!Mapped, MapsTo
<1> QED
  BY <1>1, <1>2, <1>3 DEF Promise!Release, MapsTo

-----------------------------------------------------------------------------
(* What the table maps to.                                                 *)

(* Until the destructor runs, Lookup would return what the table holds. *)
LEMMA TableMaps ==
  ASSUME IInv, ~closing
  PROVE  \A k \in Keys : MapsTo(k) = table[k]
BY DEF MapsTo, IInv, TableExact, Cached

(* A step that keeps the table, the keys and what is cached shows clients  *)
(* the same mapping.                                                       *)
LEMMA SameMapping ==
  ASSUME IInv, table' = table,
         \A h \in Handles : entry'[h].in_cache = entry[h].in_cache
  PROVE  \A k \in Keys : MapsTo(k)' = MapsTo(k)
BY DEF MapsTo, IInv, TypeOK

(* A step that moves a reference between a thread and a client, or none,   *)
(* and touches no entry.                                                   *)
LEMMA CallSeen ==
  ASSUME IInv, UNCHANGED <<live, entry, table>>,
         \A h \in Handles : Clients(h)' = Clients(h)
  PROVE  UNCHANGED Promise!vars
<1>1. \A k \in Keys : MapsTo(k)' = MapsTo(k)
  BY SameMapping
<1> QED
  BY <1>1, SeenAsStutter

(* table_.Remove, for Erase and for the cache's own evictions. *)
LEMMA TableRemoveSeen ==
  ASSUME IInv, NEW t \in Threads, NEW k \in Keys, TableRemove(t, k),
         UNCHANGED <<live, entry>>, \A h \in Handles : Clients(h)' = Clients(h)
  PROVE  Promise!Forget(k)
<1>1. table' = [table EXCEPT ![k] = NULL] /\ table \in [Keys -> Handles \cup {NULL}]
  BY DEF TableRemove, IInv, TypeOK
<1>2. MapsTo(k)' = NULL /\ \A j \in Keys \ {k} : MapsTo(j)' = MapsTo(j)
  BY <1>1 DEF MapsTo
<1> QED
  BY <1>2, SeenAsForget

(* FinishErase deletes an entry nobody references, and otherwise shows     *)
(* clients nothing: its victim has left the table already.                 *)
LEMMA FinishEraseSeen ==
  ASSUME IInv, NEW t \in Threads, mutex = t, FinishErase(victim[t]), table' = table,
         \A h \in Handles : Clients(h)' = Clients(h)
  PROVE  UNCHANGED Promise!vars \/ \E h \in Handles : Promise!Destroy(h)
<1>0. PICK e : e = victim[t]
  OBVIOUS
<1>1. CASE e = NULL
  <2>1. UNCHANGED <<live, entry>>
    BY <1>0, <1>1 DEF FinishErase
  <2> QED
    BY <2>1, CallSeen
<1>2. CASE e # NULL
  <2>1. ~closing /\ Victims = {e}
    BY <1>0, <1>2, OwnerAlone DEF IInv, ClosingOK, LocalsOK
  <2>2. e \in live /\ Cached(e) /\ e \in Handles /\ table[entry[e].key] # e
    BY <2>1 DEF IInv, TableExact, TypeOK
  <2>3. \A k \in Keys : table[k] # e
    BY <1>2, <2>1, <2>2 DEF IInv, TableExact
  <2>4. /\ live' = IF entry[e].refs = 1 THEN live \ {e} ELSE live
        /\ entry' = IF entry[e].refs = 1
                    THEN [entry EXCEPT ![e] = Blank]
                    ELSE [entry EXCEPT ![e].in_cache = FALSE, ![e].refs = @ - 1]
    BY <1>0, <1>2, <2>2, IInvParts, FinishEraseStep DEF IInv
  <2>5. \A h \in Handles \ {e} : entry'[h] = entry[h]
    BY <2>4 DEF IInv, TypeOK
  <2>6. \A k \in Keys : MapsTo(k)' = MapsTo(k) /\ MapsTo(k) # e
    BY <1>2, <2>3, <2>5 DEF MapsTo, IInv, TypeOK
  <2>7. CASE entry[e].refs = 1
    <3>1. live' = live \ {e} /\ entry'[e].key = NULL
      BY <2>2, <2>4, <2>7 DEF IInv, TypeOK, Blank
    <3>2. entry[e].refs = Clients(e) + 1 /\ Clients(e) \in Nat
      BY <2>2, IInvParts DEF IInv, RefsExact
    <3>3. Clients(e) = 0
      BY <3>2, <2>7
    <3>4. Promise!Destroy(e)
      BY <2>2, <2>5, <2>6, <3>1, <3>3, SeenAsDestroy DEF IInv, TypeOK
    <3> QED
      BY <2>2, <3>4
  <2>8. CASE entry[e].refs # 1
    <3>1. live' = live /\ entry'[e].key = entry[e].key
      BY <2>2, <2>4, <2>8 DEF IInv, TypeOK, Entry
    <3> QED
      BY <2>5, <2>6, <3>1, SeenAsStutter
  <2> QED
    BY <2>7, <2>8
<1> QED
  BY <1>1, <1>2

-----------------------------------------------------------------------------
(* One lemma per action.                                                   *)

Allowed == UNCHANGED Promise!vars \/ Promise!Next

(* table_.Lookup in Lookup, before the reference is taken. *)
LEMMA LookupFindSeen ==
  ASSUME IInv, NEW t \in Threads, NEW k \in Keys, LookupFind(t, k)
  PROVE  Allowed
<1>1. /\ pc[t] = "idle"
      /\ pc' = [pc EXCEPT ![t] = "lookup_ref"]
      /\ mine' = [mine EXCEPT ![t] = table[k]]
      /\ UNCHANGED <<live, entry, table, held>>
  BY DEF LookupFind, Goto, cache
<1>2. mine[t] = NULL
  BY <1>1 DEF IInv, LocalsOK
<1>3. \A h \in Handles : Clients(h)' = Clients(h)
  BY <1>1, <1>2, SameHolders, LRUCacheAssumption DEF IInv, Clients
<1> QED
  BY <1>1, <1>3, CallSeen DEF Allowed

(* Prune begins. *)
LEMMA PruneStartSeen ==
  ASSUME IInv, NEW t \in Threads, PruneStart(t)
  PROVE  Allowed
<1>1. /\ pc[t] = "idle"
      /\ pc' = [pc EXCEPT ![t] = "prune"]
      /\ mine' = [mine EXCEPT ![t] = mine[t]]
      /\ UNCHANGED <<live, entry, table, held>>
  BY DEF PruneStart, Goto, cache, IInv, TypeOK
<1>2. \A h \in Handles : Clients(h)' = Clients(h)
  BY <1>1, SameHolders DEF IInv, Clients
<1> QED
  BY <1>1, <1>2, CallSeen DEF Allowed

(* Prune ends. *)
LEMMA PruneReturnSeen ==
  ASSUME IInv, NEW t \in Threads, PruneReturn(t)
  PROVE  Allowed
<1>1. /\ pc[t] = "prune"
      /\ pc' = [pc EXCEPT ![t] = "idle"]
      /\ mine' = [mine EXCEPT ![t] = NULL]
      /\ UNCHANGED <<live, entry, table, held>>
  BY DEF PruneReturn, Return, Goto, cache
<1>2. mine[t] = NULL
  BY <1>1 DEF IInv, LocalsOK
<1>3. \A h \in Handles : Clients(h)' = Clients(h)
  BY <1>1, <1>2, SameHolders DEF IInv, Clients
<1> QED
  BY <1>1, <1>3, CallSeen DEF Allowed

(* Insert hands its reference to the client: a client had it already, as   *)
(* the promise sees it.                                                    *)
LEMMA InsertReturnSeen ==
  ASSUME IInv, NEW t \in Threads, InsertReturn(t)
  PROVE  Allowed
<1>1. /\ pc[t] = "insert_trim"
      /\ held' = [held EXCEPT ![mine[t]] = @ + 1]
      /\ pc' = [pc EXCEPT ![t] = "idle"]
      /\ mine' = [mine EXCEPT ![t] = NULL]
      /\ UNCHANGED <<live, entry, table>>
  BY DEF InsertReturn, Return, Goto, cache
<1>2. \A h \in Handles : Clients(h)' = Clients(h)
  <2> SUFFICES ASSUME NEW h \in Handles
               PROVE  Clients(h)' = Clients(h)
    OBVIOUS
  <2>1. /\ Cardinality(Holders(h)) \in Nat
        /\ Cardinality(Holders(h)') =
             Cardinality(Holders(h)) - Holds(t, h) + (IF NULL = h THEN 1 ELSE 0)
    BY <1>1, HoldersStepReferenced DEF IInv
  <2>2. Holds(t, h) = IF mine[t] = h THEN 1 ELSE 0
    BY <1>1 DEF Holds
  <2>3. held[h] \in Nat /\ held'[h] = IF mine[t] = h THEN held[h] + 1 ELSE held[h]
    BY <1>1 DEF IInv, TypeOK
  <2>4. held'[h] + Cardinality(Holders(h)') = held[h] + Cardinality(Holders(h))
    BY <2>1, <2>2, <2>3, LRUCacheAssumption
  <2> QED
    BY <2>4 DEF Clients
<1> QED
  BY <1>1, <1>2, CallSeen DEF Allowed

(* A client gives a reference to a Release that has not counted it yet. *)
LEMMA ReleaseCallSeen ==
  ASSUME IInv, NEW t \in Threads, NEW e \in Handles, ReleaseCall(t, e)
  PROVE  Allowed
<1>1. /\ pc[t] = "idle" /\ held[e] > 0
      /\ held' = [held EXCEPT ![e] = @ - 1]
      /\ pc' = [pc EXCEPT ![t] = "release"]
      /\ mine' = [mine EXCEPT ![t] = e]
      /\ UNCHANGED <<live, entry, table>>
  BY DEF ReleaseCall, Goto, cache
<1>2. mine[t] = NULL
  BY <1>1 DEF IInv, LocalsOK
<1>3. \A h \in Handles : Clients(h)' = Clients(h)
  <2> SUFFICES ASSUME NEW h \in Handles
               PROVE  Clients(h)' = Clients(h)
    OBVIOUS
  <2>1. /\ Cardinality(Holders(h)) \in Nat
        /\ Cardinality(Holders(h)') =
             Cardinality(Holders(h)) - Holds(t, h) + (IF e = h THEN 1 ELSE 0)
    BY <1>1, HoldersStepReferenced DEF IInv
  <2>2. Holds(t, h) = 0
    BY <1>2, LRUCacheAssumption DEF Holds
  <2>3. held[h] \in Nat /\ held'[h] = IF e = h THEN held[h] - 1 ELSE held[h]
    BY <1>1 DEF IInv, TypeOK
  <2>4. held'[h] + Cardinality(Holders(h)') = held[h] + Cardinality(Holders(h))
    BY <2>1, <2>2, <2>3
  <2> QED
    BY <2>4 DEF Clients
<1> QED
  BY <1>1, <1>3, CallSeen DEF Allowed

(* Erase takes a key out of the table. *)
LEMMA EraseUnlinkSeen ==
  ASSUME IInv, NEW t \in Threads, NEW k \in Keys, EraseUnlink(t, k)
  PROVE  Allowed
<1>1. /\ pc[t] = "idle" /\ TableRemove(t, k)
      /\ pc' = [pc EXCEPT ![t] = "erase_finish"]
      /\ mine' = [mine EXCEPT ![t] = mine[t]]
      /\ UNCHANGED <<live, entry, held>>
  BY DEF EraseUnlink, Goto, IInv, TypeOK
<1>2. \A h \in Handles : Clients(h)' = Clients(h)
  BY <1>1, SameHolders DEF IInv, Clients
<1>3. Promise!Forget(k)
  BY <1>1, <1>2, TableRemoveSeen
<1> QED
  BY <1>3 DEF Allowed, Promise!Next

(* Insert takes the key of the oldest idle entry out of the table. *)
LEMMA InsertEvictSeen ==
  ASSUME IInv, NEW t \in Threads, InsertEvict(t)
  PROVE  Allowed
<1>1. /\ pc[t] = "insert_trim" /\ lru # <<>>
      /\ TableRemove(t, entry[Head(lru)].key)
      /\ pc' = [pc EXCEPT ![t] = "insert_evict"]
      /\ mine' = [mine EXCEPT ![t] = mine[t]]
      /\ UNCHANGED <<live, entry, held>>
  BY DEF InsertEvict, OverCapacity, Oldest, Goto, IInv, TypeOK
<1>2. mutex = t /\ victim[t] = NULL /\ ~closing
  BY <1>1 DEF IInv, LocalsOK, MutualExclusion, Critical, ClosingOK
<1>3. PICK k \in Keys : k = entry[Head(lru)].key
  BY <1>1, <1>2, OldestIsInTable
<1>4. \A h \in Handles : Clients(h)' = Clients(h)
  BY <1>1, SameHolders DEF IInv, Clients
<1>5. Promise!Forget(k)
  BY <1>1, <1>3, <1>4, TableRemoveSeen
<1> QED
  BY <1>5 DEF Allowed, Promise!Next

(* Prune does the same. *)
LEMMA PruneUnlinkSeen ==
  ASSUME IInv, NEW t \in Threads, PruneUnlink(t)
  PROVE  Allowed
<1>1. /\ pc[t] = "prune" /\ lru # <<>>
      /\ TableRemove(t, entry[Head(lru)].key)
      /\ pc' = [pc EXCEPT ![t] = "prune_evict"]
      /\ mine' = [mine EXCEPT ![t] = mine[t]]
      /\ UNCHANGED <<live, entry, held>>
  BY DEF PruneUnlink, Oldest, Goto, IInv, TypeOK
<1>2. mutex = t /\ victim[t] = NULL /\ ~closing
  BY <1>1 DEF IInv, LocalsOK, MutualExclusion, Critical, ClosingOK
<1>3. PICK k \in Keys : k = entry[Head(lru)].key
  BY <1>1, <1>2, OldestIsInTable
<1>4. \A h \in Handles : Clients(h)' = Clients(h)
  BY <1>1, SameHolders DEF IInv, Clients
<1>5. Promise!Forget(k)
  BY <1>1, <1>3, <1>4, TableRemoveSeen
<1> QED
  BY <1>5 DEF Allowed, Promise!Next

(* FinishErase of the entry an Insert displaced. *)
LEMMA InsertFinishEraseSeen ==
  ASSUME IInv, NEW t \in Threads, InsertFinishErase(t)
  PROVE  Allowed
<1>1. /\ pc[t] = "insert_erase" /\ FinishErase(victim[t])
      /\ pc' = [pc EXCEPT ![t] = "insert_trim"]
      /\ mine' = [mine EXCEPT ![t] = mine[t]]
      /\ UNCHANGED <<table, held>>
  BY DEF InsertFinishErase, Goto, IInv, TypeOK
<1>2. mutex = t
  BY <1>1 DEF IInv, MutualExclusion, Critical
<1>3. \A h \in Handles : Clients(h)' = Clients(h)
  BY <1>1, SameHolders DEF IInv, Clients
<1> QED
  BY <1>1, <1>2, <1>3, FinishEraseSeen DEF Allowed, Promise!Next

(* FinishErase of the entry an Insert evicted. *)
LEMMA InsertFinishEvictSeen ==
  ASSUME IInv, NEW t \in Threads, InsertFinishEvict(t)
  PROVE  Allowed
<1>1. /\ pc[t] = "insert_evict" /\ FinishErase(victim[t])
      /\ pc' = [pc EXCEPT ![t] = "insert_trim"]
      /\ mine' = [mine EXCEPT ![t] = mine[t]]
      /\ UNCHANGED <<table, held>>
  BY DEF InsertFinishEvict, Goto, IInv, TypeOK
<1>2. mutex = t
  BY <1>1 DEF IInv, MutualExclusion, Critical
<1>3. \A h \in Handles : Clients(h)' = Clients(h)
  BY <1>1, SameHolders DEF IInv, Clients
<1> QED
  BY <1>1, <1>2, <1>3, FinishEraseSeen DEF Allowed, Promise!Next

(* FinishErase in the loop of Prune. *)
LEMMA PruneFinishEraseSeen ==
  ASSUME IInv, NEW t \in Threads, PruneFinishErase(t)
  PROVE  Allowed
<1>1. /\ pc[t] = "prune_evict" /\ FinishErase(victim[t])
      /\ pc' = [pc EXCEPT ![t] = "prune"]
      /\ mine' = [mine EXCEPT ![t] = mine[t]]
      /\ UNCHANGED <<table, held>>
  BY DEF PruneFinishErase, Goto, IInv, TypeOK
<1>2. mutex = t
  BY <1>1 DEF IInv, MutualExclusion, Critical
<1>3. \A h \in Handles : Clients(h)' = Clients(h)
  BY <1>1, SameHolders DEF IInv, Clients
<1> QED
  BY <1>1, <1>2, <1>3, FinishEraseSeen DEF Allowed, Promise!Next

(* FinishErase of the entry an Erase unlinked. *)
LEMMA EraseFinishSeen ==
  ASSUME IInv, NEW t \in Threads, EraseFinish(t)
  PROVE  Allowed
<1>1. /\ pc[t] = "erase_finish" /\ FinishErase(victim[t])
      /\ pc' = [pc EXCEPT ![t] = "idle"]
      /\ mine' = [mine EXCEPT ![t] = mine[t]]
      /\ UNCHANGED <<table, held>>
  BY DEF EraseFinish, Return, Goto, IInv, TypeOK, LocalsOK
<1>2. mutex = t
  BY <1>1 DEF IInv, MutualExclusion, Critical
<1>3. \A h \in Handles : Clients(h)' = Clients(h)
  BY <1>1, SameHolders DEF IInv, Clients
<1> QED
  BY <1>1, <1>2, <1>3, FinishEraseSeen DEF Allowed, Promise!Next

(* The destructor begins: clients see nothing yet. *)
LEMMA DestroyStartSeen ==
  ASSUME IInv, DestroyStart
  PROVE  Allowed
<1>1. UNCHANGED <<live, entry, table, held, pc, mine>>
  BY DEF DestroyStart, cache, locals
<1>2. \A h \in Handles : Clients(h)' = Clients(h)
  BY <1>1 DEF Clients, Holders
<1> QED
  BY <1>1, <1>2, CallSeen DEF Allowed

(* The destructor frees an idle entry; a key that led to it leads nowhere. *)
LEMMA DestroyEntrySeen ==
  ASSUME IInv, DestroyEntry
  PROVE  Allowed
<1>0. PICK e : e = Head(lru)
  OBVIOUS
<1>1. /\ lru # <<>>
      /\ live' = live \ {e}
      /\ entry' = [entry EXCEPT ![e] = Blank]
      /\ UNCHANGED <<table, pc, mine, held>>
  BY <1>0 DEF DestroyEntry, Deallocate, locals
<1>2. e \in ToSet(lru) /\ e \in Handles
  BY <1>0, <1>1, HeadTailInjective DEF IInv, TypeOK, ListsExact
<1>3. e \in live /\ Cached(e) /\ entry[e].refs = 1
  BY <1>2 DEF IInv, ListsExact
<1>4. \A h \in Handles : Clients(h)' = Clients(h) /\ Clients(h) \in Nat
  BY <1>1, IInvParts DEF Clients, Holders
<1>5. Clients(e) = 0
  <2>1. entry[e].refs = Clients(e) + 1 /\ Clients(e) \in Nat
    BY <1>2, <1>3, <1>4 DEF IInv, RefsExact
  <2> QED
    BY <2>1, <1>3
<1>6. /\ \A h \in Handles \ {e} : entry'[h] = entry[h]
      /\ entry'[e].key = NULL /\ ~entry'[e].in_cache
  BY <1>1, <1>2 DEF IInv, TypeOK, Blank
<1>7. \A k \in Keys : MapsTo(k)' = IF MapsTo(k) = e THEN NULL ELSE MapsTo(k)
  BY <1>1, <1>6 DEF MapsTo, IInv, TypeOK
<1>8. Promise!Destroy(e)
  BY <1>1, <1>3, <1>4, <1>5, <1>6, <1>7, SeenAsDestroy DEF IInv, TypeOK
<1> QED
  BY <1>2, <1>8 DEF Allowed, Promise!Next

(* Ref in Lookup is where a hit becomes visible. *)
LEMMA LookupRefSeen ==
  ASSUME IInv, NEW t \in Threads, LookupRef(t)
  PROVE  Allowed
<1>0. PICK e : e = mine[t]
  OBVIOUS
<1>1. /\ pc[t] = "lookup_ref"
      /\ pc' = [pc EXCEPT ![t] = "idle"]
      /\ mine' = [mine EXCEPT ![t] = NULL]
      /\ UNCHANGED <<live, table>>
  BY DEF LookupRef, Return, Goto, cache
<1>2. ~closing /\ NULL \notin Handles
  BY <1>1, LRUCacheAssumption DEF IInv, ClosingOK
<1>3. \A h \in Handles : /\ Cardinality(Holders(h)) \in Nat
                         /\ Cardinality(Holders(h)') = Cardinality(Holders(h))
  <2> SUFFICES ASSUME NEW h \in Handles
               PROVE  /\ Cardinality(Holders(h)) \in Nat
                      /\ Cardinality(Holders(h)') = Cardinality(Holders(h))
    OBVIOUS
  <2>1. /\ Cardinality(Holders(h)) \in Nat
        /\ Cardinality(Holders(h)') =
             Cardinality(Holders(h)) - Holds(t, h) + (IF NULL = h THEN 1 ELSE 0)
    BY <1>1, HoldersStepReferenced DEF IInv
  <2>2. Holds(t, h) = 0
    BY <1>1 DEF Holds
  <2> QED
    BY <2>1, <2>2, <1>2
<1>4. CASE e = NULL
  <2>1. UNCHANGED <<entry, held>>
    BY <1>0, <1>4 DEF LookupRef, cache
  <2>2. \A h \in Handles : Clients(h)' = Clients(h)
    BY <2>1, <1>3 DEF Clients
  <2> QED
    BY <1>1, <2>1, <2>2, CallSeen DEF Allowed
<1>5. CASE e # NULL
  <2>1. /\ entry' = [entry EXCEPT ![e].refs = @ + 1]
        /\ held' = [held EXCEPT ![e] = @ + 1]
    BY <1>0, <1>5 DEF LookupRef, Ref
  <2>2. PICK k \in Keys : table[k] = e
    BY <1>0, <1>1, <1>5 DEF IInv, LocalsOK
  <2>3. MapsTo(k) = e /\ e \in Handles
    BY <1>2, <1>5, <2>2, TableMaps DEF IInv, TypeOK
  <2>4. \A h \in Handles : entry'[h].key = entry[h].key
                           /\ entry'[h].in_cache = entry[h].in_cache
    BY <2>1, <2>3 DEF IInv, TypeOK, Entry
  <2>5. \A h \in Handles : Clients(h)' = IF h = e THEN Clients(h) + 1 ELSE Clients(h)
    <3> SUFFICES ASSUME NEW h \in Handles
                 PROVE  Clients(h)' = IF h = e THEN Clients(h) + 1 ELSE Clients(h)
      OBVIOUS
    <3>1. held[h] \in Nat /\ held'[h] = IF h = e THEN held[h] + 1 ELSE held[h]
      BY <2>1 DEF IInv, TypeOK
    <3> QED
      BY <3>1, <1>3 DEF Clients
  <2>6. Promise!Lookup(k)
    BY <1>1, <1>5, <2>3, <2>4, <2>5, SameMapping, SeenAsLookup
  <2> QED
    BY <2>6 DEF Allowed, Promise!Next
<1> QED
  BY <1>4, <1>5

(* A fresh entry has one client; the counts of all others stay. *)
LEMMA FreshClients ==
  ASSUME IInv, NEW t \in Threads, NEW e \in Handles, e \notin live, held' = held,
         mine[t] = NULL, mine' = [mine EXCEPT ![t] = e],
         NEW p, p # "lookup_ref", pc' = [pc EXCEPT ![t] = p]
  PROVE  \A h \in Handles : Clients(h)' = IF h = e THEN 1 ELSE Clients(h)
<1> SUFFICES ASSUME NEW h \in Handles
             PROVE  Clients(h)' = IF h = e THEN 1 ELSE Clients(h)
  OBVIOUS
<1>1. /\ Cardinality(Holders(h)) \in Nat
      /\ Cardinality(Holders(h)') =
           Cardinality(Holders(h)) - Holds(t, h) + (IF e = h THEN 1 ELSE 0)
  BY HoldersStepReferenced DEF IInv
<1>2. Holds(t, h) = 0
  BY LRUCacheAssumption DEF Holds
<1>3. /\ Clients(h) = held[h] + Cardinality(Holders(h))
      /\ Clients(h)' = held[h] + Cardinality(Holders(h)')
      /\ held[h] \in Nat
  BY DEF Clients, IInv, TypeOK
<1>4. h = e => Clients(h) = 0
  BY DEF IInv, RefsExact
<1> QED
  BY <1>1, <1>2, <1>3, <1>4

(* Insert links a new entry: its key maps to it from here on. *)
LEMMA InsertLinkSeen ==
  ASSUME IInv, NEW t \in Threads, NEW k \in Keys, NEW c \in Charges,
         NEW e \in Handles, InsertLink(t, k, c, e)
  PROVE  Allowed
<1>1. /\ pc[t] = "idle" /\ ~closing /\ e \notin live
      /\ live' = live \cup {e}
      /\ entry' = [entry EXCEPT ![e] = [key |-> k, charge |-> c,
                                        in_cache |-> TRUE, refs |-> 2]]
      /\ table' = [table EXCEPT ![k] = e]
      /\ pc' = [pc EXCEPT ![t] = "insert_erase"]
      /\ mine' = [mine EXCEPT ![t] = e]
      /\ held' = held
  BY DEF InsertLink, Goto, TableInsert, Malloc
<1>2. mine[t] = NULL /\ NULL \notin Handles
  BY <1>1, LRUCacheAssumption DEF IInv, LocalsOK
<1>3. \A h \in Handles : Clients(h)' = IF h = e THEN 1 ELSE Clients(h)
  BY <1>1, <1>2, FreshClients
<1>4. /\ entry'[e].key = k /\ entry'[e].in_cache = TRUE
      /\ \A h \in Handles \ {e} : entry'[h] = entry[h]
  BY <1>1 DEF IInv, TypeOK
<1>5. \A j \in Keys : table[j] # e
  BY <1>1, <1>2 DEF IInv, TableExact
<1>6. MapsTo(k)' = e /\ \A j \in Keys \ {k} : MapsTo(j)' = MapsTo(j)
  BY <1>1, <1>2, <1>4, <1>5 DEF MapsTo, IInv, TypeOK
<1>7. Promise!Insert(k, e)
  BY <1>1, <1>3, <1>4, <1>6, SeenAsInsert
<1> QED
  BY <1>7 DEF Allowed, Promise!Next

(* Insert with capacity 0: the entry is the client's only.  The key mapped *)
(* to nothing before, because nothing is ever cached.                      *)
LEMMA InsertUncachedSeen ==
  ASSUME IInv, UncachedOK, NEW t \in Threads, NEW k \in Keys, NEW c \in Charges,
         NEW e \in Handles, InsertUncached(t, k, c, e)
  PROVE  Allowed
<1>1. /\ pc[t] = "idle" /\ capacity = 0 /\ e \notin live
      /\ live' = live \cup {e}
      /\ entry' = [entry EXCEPT ![e] = [key |-> k, charge |-> c,
                                        in_cache |-> FALSE, refs |-> 1]]
      /\ pc' = [pc EXCEPT ![t] = "insert_trim"]
      /\ mine' = [mine EXCEPT ![t] = e]
      /\ UNCHANGED <<table, held>>
  BY DEF InsertUncached, Goto, Malloc
<1>2. mine[t] = NULL
  BY <1>1 DEF IInv, LocalsOK
<1>3. \A h \in Handles : Clients(h)' = IF h = e THEN 1 ELSE Clients(h)
  BY <1>1, <1>2, FreshClients
<1>4. /\ entry'[e].key = k
      /\ \A h \in Handles \ {e} : entry'[h] = entry[h]
  BY <1>1 DEF IInv, TypeOK
<1>5. \A j \in Keys : MapsTo(j) = NULL /\ MapsTo(j)' = NULL
  BY <1>1 DEF UncachedOK, MapsTo
<1>6. Promise!Insert(k, e)
  BY <1>1, <1>3, <1>4, <1>5, SeenAsInsert
<1> QED
  BY <1>6 DEF Allowed, Promise!Next

(* Unref in Release: the last reference to an entry out of the cache takes *)
(* the entry with it; one to a cached entry does not, because the entry is *)
(* then mapped by its key.                                                 *)
LEMMA ReleaseUnrefSeen ==
  ASSUME IInv, NEW t \in Threads, ReleaseUnref(t)
  PROVE  Allowed
<1>0. PICK e : e = mine[t]
  OBVIOUS
<1>1. /\ pc[t] = "release" /\ mutex = NULL
      /\ Unref(e)
      /\ pc' = [pc EXCEPT ![t] = "idle"]
      /\ mine' = [mine EXCEPT ![t] = NULL]
      /\ UNCHANGED <<table, usage, held>>
  BY <1>0 DEF ReleaseUnref, Return, Goto
<1>2. e \in Handles /\ victim[t] = NULL /\ ~closing /\ NULL \notin Handles
  BY <1>0, <1>1, LRUCacheAssumption DEF IInv, TypeOK, LocalsOK, ClosingOK
<1>3. \A h \in Handles : Clients(h)' = IF h = e THEN Clients(h) - 1 ELSE Clients(h)
  <2> SUFFICES ASSUME NEW h \in Handles
               PROVE  Clients(h)' = IF h = e THEN Clients(h) - 1 ELSE Clients(h)
    OBVIOUS
  <2>1. /\ Cardinality(Holders(h)) \in Nat
        /\ Cardinality(Holders(h)') =
             Cardinality(Holders(h)) - Holds(t, h) + (IF NULL = h THEN 1 ELSE 0)
    BY <1>1, HoldersStepReferenced DEF IInv
  <2>2. Holds(t, h) = IF e = h THEN 1 ELSE 0
    BY <1>0, <1>1 DEF Holds
  <2>3. held[h] \in Nat /\ held'[h] = held[h]
    BY <1>1 DEF IInv, TypeOK
  <2>4. /\ Clients(h) = held[h] + Cardinality(Holders(h))
        /\ Clients(h)' = held'[h] + Cardinality(Holders(h)')
    BY DEF Clients
  <2>5. NULL # h
    BY <1>2
  <2> QED
    BY <2>1, <2>2, <2>3, <2>4, <2>5
<1>4. e \in live /\ Clients(e) > 0 /\ Clients(e) \in Nat
  <2>1. Holders(e) # {}
    BY <1>0, <1>1 DEF Holders
  <2> QED
    BY <1>2, <2>1, ClientsAreLive, IInvParts
<1>5. entry[e].refs = Clients(e) + (IF Cached(e) THEN 1 ELSE 0)
  BY <1>2, <1>4 DEF IInv, RefsExact
<1>6. CASE entry[e].refs = 1
  <2>1. Clients(e) = 1 /\ ~Cached(e)
    BY <1>4, <1>5, <1>6
  <2>2. live' = live \ {e} /\ entry' = [entry EXCEPT ![e] = Blank]
    BY <1>1, <1>6 DEF Unref, Deallocate
  <2>3. /\ \A h \in Handles \ {e} : entry'[h] = entry[h]
        /\ entry'[e].key = NULL
    BY <1>2, <2>2 DEF IInv, TypeOK, Blank
  <2>4. \A k \in Keys : table[k] # e
    BY <1>2, <2>1 DEF IInv, TableExact
  <2>5. \A k \in Keys : MapsTo(k) # e /\ MapsTo(k)' = MapsTo(k)
    BY <1>1, <1>2, <2>3, <2>4 DEF MapsTo, IInv, TypeOK
  <2>6. Promise!Release(e)
    BY <1>2, <1>3, <2>1, <2>2, <2>3, <2>5, SeenAsLastRelease
  <2> QED
    BY <1>2, <2>6 DEF Allowed, Promise!Next
<1>7. CASE entry[e].refs # 1
  <2>1. live' = live /\ entry' = [entry EXCEPT ![e].refs = @ - 1]
    BY <1>1, <1>7 DEF Unref
  <2>2. \A h \in Handles : entry'[h].key = entry[h].key
                           /\ entry'[h].in_cache = entry[h].in_cache
    BY <1>2, <2>1 DEF IInv, TypeOK, Entry
  <2>3. Clients(e) = 1 => \E k \in Keys : MapsTo(k) = e
    <3> SUFFICES ASSUME Clients(e) = 1
                 PROVE  \E k \in Keys : MapsTo(k) = e
      OBVIOUS
    <3>1. Cached(e)
      BY <1>4, <1>5, <1>7
    <3>2. Victims = {}
      BY <1>1, <1>2, OwnerAlone
    <3>3. entry[e].key \in Keys /\ table[entry[e].key] = e
      BY <1>2, <1>4, <3>1, <3>2 DEF IInv, KeysOK, TableExact
    <3> QED
      BY <1>2, <3>3, TableMaps
  <2>4. Promise!Release(e)
    BY <1>1, <1>2, <1>3, <1>4, <2>1, <2>2, <2>3, SameMapping, SeenAsRelease
  <2> QED
    BY <1>2, <2>4 DEF Allowed, Promise!Next
<1> QED
  BY <1>6, <1>7

-----------------------------------------------------------------------------
(* The refinement.                                                         *)

(* An empty shard is an empty cache. *)
LEMMA InitSeen ==
  ASSUME Init
  PROVE  Promise!Init /\ UncachedOK
<1>1. Cardinality({}) = 0
  BY FS_EmptySet
<1>2. \A h \in Handles : Clients(h) = 0
  <2>1. \A h \in Handles : Holders(h) = {}
    BY LRUCacheAssumption DEF Init, Holders
  <2>2. \A h \in Handles : Cardinality(Holders(h)) = 0
    BY <1>1, <2>1
  <2> QED
    BY <2>2 DEF Init, Clients
<1>3. \A h \in Handles : entry[h].key = NULL
  BY DEF Init, Blank
<1>4. live = {} /\ \A k \in Keys : table[k] = NULL
  BY DEF Init
<1> QED
  BY <1>2, <1>3, <1>4 DEF Promise!Init, UncachedOK

(* Only InsertLink puts something into the table, and it needs capacity. *)
LEMMA UncachedStep ==
  ASSUME IInv, UncachedOK, [Next]_vars
  PROVE  UncachedOK'
<1> DEFINE Harmless == /\ capacity' = capacity
                       /\ \/ capacity > 0
                          \/ table' = table
                          \/ \E k : table' = [table EXCEPT ![k] = NULL]
<1>1. ASSUME NEW t \in Threads, Call(t)
      PROVE  Harmless
  <2>1. ASSUME NEW k \in Keys, LookupFind(t, k) \/ EraseUnlink(t, k)
        PROVE  Harmless
    BY <2>1 DEF LookupFind, EraseUnlink, TableRemove, cache
  <2>2. ASSUME NEW k \in Keys, NEW c \in Charges, NEW h \in Handles,
               InsertLink(t, k, c, h) \/ InsertUncached(t, k, c, h)
        PROVE  Harmless
    BY <2>2 DEF InsertLink, InsertUncached
  <2>3. CASE PruneStart(t)
    BY <2>3 DEF PruneStart, cache
  <2>4. ASSUME NEW h \in Handles, ReleaseCall(t, h)
        PROVE  Harmless
    BY <2>4 DEF ReleaseCall, cache
  <2> QED
    BY <1>1, <2>1, <2>2, <2>3, <2>4 DEF Call
<1>2. ASSUME NEW t \in Threads, Continue(t)
      PROVE  Harmless
  <2>1. CASE LookupRef(t) \/ InsertReturn(t) \/ PruneReturn(t)
    BY <2>1 DEF LookupRef, InsertReturn, PruneReturn, cache
  <2>2. CASE InsertEvict(t) \/ PruneUnlink(t)
    BY <2>2 DEF InsertEvict, PruneUnlink, TableRemove
  <2>3. CASE InsertFinishErase(t) \/ InsertFinishEvict(t) \/ EraseFinish(t)
             \/ PruneFinishErase(t)
    BY <2>3 DEF InsertFinishErase, InsertFinishEvict, EraseFinish, PruneFinishErase
  <2> QED
    BY <1>2, <2>1, <2>2, <2>3 DEF Continue
<1>3. ASSUME NEW t \in Threads, ReleaseUnref(t)
      PROVE  Harmless
  BY <1>3 DEF ReleaseUnref
<1>4. ASSUME DestroyStart \/ DestroyEntry
      PROVE  Harmless
  BY <1>4 DEF DestroyStart, DestroyEntry, cache, locals
<1>5. ASSUME UNCHANGED vars \/ Destroyed
      PROVE  Harmless
  BY <1>5 DEF Destroyed, vars, cache, locals
<1>6. Harmless
  <2> HIDE DEF Harmless
  <2> QED
    BY <1>1, <1>2, <1>3, <1>4, <1>5 DEF Next
<1> QED
  BY <1>6 DEF UncachedOK, IInv, TypeOK

(* Every step of a shard is one the promise allows, or shows nothing. *)
LEMMA StepSeen ==
  ASSUME IInv, UncachedOK, [Next]_vars
  PROVE  Allowed
<1>1. ASSUME NEW t \in Threads, Call(t)
      PROVE  Allowed
  BY <1>1, LookupFindSeen, EraseUnlinkSeen, InsertLinkSeen, InsertUncachedSeen,
     PruneStartSeen, ReleaseCallSeen DEF Call
<1>2. ASSUME NEW t \in Threads, Continue(t)
      PROVE  Allowed
  BY <1>2, LookupRefSeen, InsertFinishEraseSeen, InsertEvictSeen,
     InsertFinishEvictSeen, InsertReturnSeen, EraseFinishSeen,
     PruneUnlinkSeen, PruneFinishEraseSeen, PruneReturnSeen DEF Continue
<1>3. CASE UNCHANGED vars \/ Destroyed
  <2>1. UNCHANGED <<live, entry, table, held, pc, mine>>
    BY <1>3 DEF Destroyed, vars, cache, locals
  <2>2. \A h \in Handles : Clients(h)' = Clients(h)
    BY <2>1 DEF Clients, Holders
  <2> QED
    BY <2>1, <2>2, CallSeen DEF Allowed
<1> QED
  BY <1>1, <1>2, <1>3, ReleaseUnrefSeen, DestroyStartSeen, DestroyEntrySeen DEF Next

(* A cache of capacity 0 stays empty, whatever is inserted. *)
THEOREM NothingCachedAtZero == Spec => []UncachedOK
<1>1. Init => UncachedOK
  BY InitSeen
<1>2. IInv /\ UncachedOK /\ [Next]_vars => UncachedOK'
  BY UncachedStep
<1> QED
  BY <1>1, <1>2, Invariance, PTL DEF Spec

(* A shard implements the cache of cache.h: clients cannot tell its        *)
(* threads, table, lists and counts from the map and the references they   *)
(* were promised.                                                          *)
THEOREM ShardKeepsPromise == Spec => PromiseKept
<1>1. Init => Promise!Init
  BY InitSeen
<1>2. IInv /\ UncachedOK /\ [Next]_vars => [Promise!Next]_Promise!vars
  BY StepSeen DEF Allowed
<1> QED
  BY <1>1, <1>2, Invariance, NothingCachedAtZero, PTL DEF Spec, PromiseKept, Promise!Safety
=============================================================================
