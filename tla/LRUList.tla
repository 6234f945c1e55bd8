------------------------------- MODULE LRUList --------------------------------
(***************************************************************************)
(* The two circular lists of LRUCache in src/util/cache.cc, lru_ and       *)
(* in_use_, with their next and prev pointers: LRU_Append and LRU_Remove   *)
(* in the combinations the cache calls them in, under its mutex, and the   *)
(* destructor's walk, which frees the entries it stands on.                *)
(*                                                                         *)
(* order says which sequence of entries each list stands for; LRUCache     *)
(* works on these sequences.  That the pointers spell them is the          *)
(* invariant Linked.                                                       *)
(***************************************************************************)
EXTENDS Integers, Sequences, SequencesExt

CONSTANTS
  Nodes,   \* addresses of entries
  LRU,     \* &lru_
  IN_USE,  \* &in_use_
  NULL     \* nullptr, and the contents of freed memory

Heads == {LRU, IN_USE}

ASSUME LRUListAssumption ==
  /\ LRU # IN_USE
  /\ Heads \cap Nodes = {}
  /\ NULL \notin Nodes \cup Heads

VARIABLES
  next, prev,  \* the links of entries and dummy heads
  live,        \* entries malloc returned that were not freed
  order,       \* history: the entries on each list, oldest first
  cursor       \* local e of the destructor, NULL before it

links == <<next, prev>>
vars == <<next, prev, live, order, cursor>>

On(list) == ToSet(order[list])

Init ==
  /\ next = [x \in Nodes \cup Heads |-> IF x \in Heads THEN x ELSE NULL]
  /\ prev = [x \in Nodes \cup Heads |-> IF x \in Heads THEN x ELSE NULL]
  /\ live = {}
  /\ order = [list \in Heads |-> <<>>]
  /\ cursor = NULL

-----------------------------------------------------------------------------
(* The two helpers, statement by statement, on the links [next, prev].     *)

Links == [next |-> next, prev |-> prev]

(* Fault: the entry removed is made a list of its own. *)
RemovedToSelf(l, e) ==
  [next |-> [l.next EXCEPT ![l.prev[e]] = l.next[e], ![e] = e],
   prev |-> [l.prev EXCEPT ![l.next[e]] = l.prev[e], ![e] = e]]

(* LRU_Remove: e keeps its own links. *)
Removed(l, e) ==
  LET p == [l.prev EXCEPT ![l.next[e]] = l.prev[e]]
  IN  [next |-> [l.next EXCEPT ![p[e]] = l.next[e]], prev |-> p]

(* Fault: the old last entry still points to the head. *)
AppendedUnreachable(l, list, e) ==
  [next |-> [l.next EXCEPT ![e] = list],
   prev |-> [l.prev EXCEPT ![e] = l.prev[list], ![list] = e]]

(* LRU_Append: e goes just before list, the newest end. *)
Appended(l, list, e) ==
  LET n == [l.next EXCEPT ![e] = list]
      p == [l.prev EXCEPT ![e] = l.prev[list]]
      m == [n EXCEPT ![p[e]] = e]
  IN  [next |-> m, prev |-> [p EXCEPT ![m[e]] = e]]

Set(l) == next' = l.next /\ prev' = l.prev

-----------------------------------------------------------------------------
(* Insert: the links of a new entry hold what malloc left there. *)
Insert(e) ==
  /\ cursor = NULL
  /\ e \notin live
  /\ live' = live \cup {e}
  /\ Set(Appended(Links, IN_USE, e))
  /\ order' = [order EXCEPT ![IN_USE] = Append(@, e)]
  /\ UNCHANGED cursor

(* Insert into a cache of capacity 0: next is set for key() to test. *)
InsertUncached(e) ==
  /\ cursor = NULL
  /\ e \notin live
  /\ live' = live \cup {e}
  /\ next' = [next EXCEPT ![e] = NULL]
  /\ UNCHANGED <<prev, order, cursor>>

Move(e, from, to) ==
  /\ cursor = NULL
  /\ e \in On(from)
  /\ Set(Appended(Removed(Links, e), to, e))
  /\ order' = [order EXCEPT ![from] = RemoveFirst(@, e), ![to] = Append(@, e)]
  /\ UNCHANGED <<live, cursor>>

(* An idle entry is referenced, and an entry gets idle. *)
Ref(e) == Move(e, LRU, IN_USE)
Unref(e) == Move(e, IN_USE, LRU)

(* FinishErase: the entry may live on, unlinked, until its last Release. *)
FinishErase(e, list) ==
  /\ cursor = NULL
  /\ e \in On(list)
  /\ Set(Removed(Links, e))
  /\ order' = [order EXCEPT ![list] = RemoveFirst(@, e)]
  /\ UNCHANGED <<live, cursor>>

(* The deleter has run on an unlinked entry. *)
Free(e) ==
  /\ cursor = NULL
  /\ e \in live \ (On(LRU) \cup On(IN_USE))
  /\ live' = live \ {e}
  /\ \E n \in {next[e], NULL} : next' = [next EXCEPT ![e] = n]
  /\ UNCHANGED <<prev, order, cursor>>

(* The destructor's loop: the successor is read before the entry is freed, *)
(* and no entry is unlinked.                                               *)
DestroyStart ==
  /\ cursor = NULL
  /\ next[IN_USE] = IN_USE
  /\ cursor' = next[LRU]
  /\ UNCHANGED <<links, live, order>>

(* Fault: the successor is read from the freed entry. *)
DestroyNextReadsLate ==
  /\ cursor \in Nodes
  /\ live' = live \ {cursor}
  /\ \E n \in {next[cursor], NULL} :
       next' = [next EXCEPT ![cursor] = n] /\ cursor' = n
  /\ order' = [order EXCEPT ![LRU] = Tail(@)]
  /\ UNCHANGED prev

DestroyNext ==
  /\ cursor \in Nodes
  /\ live' = live \ {cursor}
  /\ \E n \in {next[cursor], NULL} : next' = [next EXCEPT ![cursor] = n]
  /\ cursor' = next[cursor]
  /\ order' = [order EXCEPT ![LRU] = Tail(@)]
  /\ UNCHANGED prev

Destroyed == cursor = LRU /\ UNCHANGED vars

Next ==
  \/ \E e \in Nodes :
       \/ Insert(e) \/ InsertUncached(e) \/ Free(e)
       \/ Ref(e) \/ Unref(e)
       \/ \E list \in Heads : FinishErase(e, list)
  \/ DestroyStart \/ DestroyNext \/ Destroyed

Spec == Init /\ [][Next]_vars

-----------------------------------------------------------------------------
(* Properties.                                                             *)

(* Every variable keeps its type. *)
TypeOK ==
  /\ next \in [Nodes \cup Heads -> Nodes \cup Heads \cup {NULL}]
  /\ prev \in [Nodes \cup Heads -> Nodes \cup Heads \cup {NULL}]
  /\ live \subseteq Nodes
  /\ order \in [Heads -> Seq(Nodes)]
  /\ cursor \in Nodes \cup {LRU, NULL}

(* Node n of the circle head, s[1], ..., s[Len(s)], head. *)
Node(head, s, n) == IF n \in 1 .. Len(s) THEN s[n] ELSE head

Circle(l, head, s) ==
  \A n \in 0 .. Len(s) :
    /\ l.next[Node(head, s, n)] = Node(head, s, n + 1)
    /\ l.prev[Node(head, s, n + 1)] = Node(head, s, n)

(* The links of each list spell its sequence in both directions, whatever  *)
(* stale links removed entries and recycled memory still hold.             *)
Linked == cursor = NULL => \A list \in Heads : Circle(Links, list, order[list])

(* key() asserts next != this, also for the deleter's call on an entry     *)
(* that was unlinked long ago.                                             *)
KeyAssertion == \A e \in live : next[e] # e

(* The destructor's walk stands on the oldest entry not yet freed and ends *)
(* at the head exactly when none is left.                                  *)
WalkOnCourse ==
  cursor # NULL =>
    /\ cursor = Node(LRU, order[LRU], 1)
    /\ \A n \in 1 .. Len(order[LRU]) :
         next[order[LRU][n]] = Node(LRU, order[LRU], n + 1)
===============================================================================
