------------------------------ MODULE CacheSpec ------------------------------
(***************************************************************************)
(* What include/leveldb/cache.h promises to the clients of one cache, with *)
(* no lock, no hash table and no LRU list: a map from keys to entries, the *)
(* references clients hold on entries, and the deleter that runs exactly   *)
(* once for every entry.                                                   *)
(***************************************************************************)
EXTENDS Integers

CONSTANTS
  Keys,      \* the keys clients use
  Handles,   \* the identities of entries (an identity returns after deletion)
  NULL       \* no entry

VARIABLES
  alive,     \* entries inserted whose deleter has not run yet
  keyOf,     \* the key an alive entry was inserted under
  mapping,   \* what Lookup(k) would return now, NULL for a miss
  clients    \* the number of references clients hold on an entry

vars == <<alive, keyOf, mapping, clients>>

Init ==
  /\ alive = {}
  /\ keyOf = [h \in Handles |-> NULL]
  /\ mapping = [k \in Keys |-> NULL]
  /\ clients = [h \in Handles |-> 0]

Mapped(h) == \E k \in Keys : mapping[k] = h

(* The deleter runs: the entry is gone, its identity is free again. *)
Delete(h) ==
  /\ alive' = alive \ {h}
  /\ keyOf' = [keyOf EXCEPT ![h] = NULL]

(* A new entry for k, referenced once by the caller.  It replaces whatever *)
(* k mapped to; a cache of capacity 0 maps k to nothing.                   *)
Insert(k, h) ==
  /\ h \notin alive
  /\ alive' = alive \cup {h}
  /\ keyOf' = [keyOf EXCEPT ![h] = k]
  /\ clients' = [clients EXCEPT ![h] = 1]
  /\ \E m \in {h, NULL} : mapping' = [mapping EXCEPT ![k] = m]

(* A hit hands out one more reference; a miss changes nothing. *)
Lookup(k) ==
  /\ mapping[k] # NULL
  /\ clients' = [clients EXCEPT ![mapping[k]] = @ + 1]
  /\ UNCHANGED <<alive, keyOf, mapping>>

(* The last reference to an entry that is no longer mapped takes the entry *)
(* with it.                                                                *)
Release(h) ==
  /\ clients[h] > 0
  /\ clients' = [clients EXCEPT ![h] = @ - 1]
  /\ IF clients[h] = 1 /\ ~Mapped(h)
     THEN Delete(h)
     ELSE UNCHANGED <<alive, keyOf>>
  /\ UNCHANGED mapping

(* Erase, or the cache's own decision to forget a key. *)
Forget(k) ==
  /\ mapping' = [mapping EXCEPT ![k] = NULL]
  /\ UNCHANGED <<alive, keyOf, clients>>

(* Only an entry no client references is deleted, and none is still mapped *)
(* when its deleter returns.                                               *)
Destroy(h) ==
  /\ h \in alive
  /\ clients[h] = 0
  /\ Delete(h)
  /\ mapping' = [k \in Keys |-> IF mapping[k] = h THEN NULL ELSE mapping[k]]
  /\ UNCHANGED clients

Next ==
  \/ \E k \in Keys : \/ \E h \in Handles : Insert(k, h)
                     \/ Lookup(k)
                     \/ Forget(k)
  \/ \E h \in Handles : Release(h) \/ Destroy(h)

Safety == Init /\ [][Next]_vars

(* No leak: an entry neither mapped nor referenced is eventually deleted. *)
Reclaim == \A h \in Handles : WF_vars(~Mapped(h) /\ Destroy(h))

Spec == Safety /\ Reclaim
=============================================================================
