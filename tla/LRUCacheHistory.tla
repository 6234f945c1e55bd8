---------------------------- MODULE LRUCacheHistory ---------------------------
(***************************************************************************)
(* LRUCache with a history variable, for what cannot be said of a single   *)
(* state: why idle entries may exceed the capacity.                        *)
(***************************************************************************)
EXTENDS MCLRUCache

VARIABLE released   \* entries released since the last Insert returned

InsertReturns == \E t \in Threads : pc[t] = "insert_trim" /\ pc'[t] = "idle"

Released == {mine[t] : t \in {u \in Threads : pc[u] = "release" /\ pc'[u] = "idle"}}

HistoryInit == Init /\ released = {}

HistoryNext ==
  /\ Next
  /\ released' = IF InsertReturns THEN {} ELSE released \cup Released

HistorySpec == HistoryInit /\ [][HistoryNext]_<<vars, released>>

(* When Insert returns, nothing idle is left that exceeds the capacity; so *)
(* whenever idle entries exceed it, each of them has been released since.  *)
(* The cache never trims on Release: the next Insert does.                 *)
TrimmedByInsert ==
  mutex = NULL /\ usage > capacity /\ ~closing => ToSet(lru) \subseteq released
===============================================================================
