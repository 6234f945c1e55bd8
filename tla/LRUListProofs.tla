----------------------------- MODULE LRUListProofs ----------------------------
(***************************************************************************)
(* The links of the two lists spell their sequences, for any number of     *)
(* entries.  First what the two helpers do to one circle and leave alone   *)
(* in another; then the inductive invariant.                               *)
(***************************************************************************)
EXTENDS LRUList, DataLemmas

All == Nodes \cup Heads

LinkRec == [next : [All -> All \cup {NULL}], prev : [All -> All \cup {NULL}]]

(* The two circles share no node. *)
Apart(s, t) ==
  /\ s \in Seq(Nodes) /\ IsInjective(s)
  /\ t \in Seq(Nodes) /\ IsInjective(t)
  /\ ToSet(s) \cap ToSet(t) = {}

-----------------------------------------------------------------------------
(* Circles.                                                                *)

(* The nodes of a circle, counted from the head: the first and the last    *)
(* are the head, and no other two are the same.                            *)
LEMMA NodeFacts ==
  ASSUME NEW a \in Heads, NEW s \in Seq(Nodes), IsInjective(s)
  PROVE  /\ Len(s) \in Nat
         /\ Node(a, s, 0) = a /\ Node(a, s, Len(s) + 1) = a
         /\ \A n \in 1 .. Len(s) : Node(a, s, n) = s[n] /\ s[n] \in ToSet(s)
         /\ \A n \in 0 .. Len(s) + 1 : Node(a, s, n) \in {a} \cup ToSet(s)
         /\ \A m, n \in 0 .. Len(s) : Node(a, s, m) = Node(a, s, n) => m = n
         /\ \A m, n \in 1 .. Len(s) + 1 : Node(a, s, m) = Node(a, s, n) => m = n
         /\ ToSet(s) \subseteq Nodes /\ a \notin Nodes /\ a \in All
<1>1. Len(s) \in Nat /\ DOMAIN s = 1 .. Len(s) /\ \A n \in 1 .. Len(s) : s[n] \in Nodes
  BY LenProperties, ElementOfSeq
<1>2. ToSet(s) = {s[n] : n \in 1 .. Len(s)}
  BY <1>1 DEF ToSet
<1>3. a \notin Nodes /\ a \in All
  BY LRUListAssumption DEF All
<1>4. \A m, n \in 1 .. Len(s) : s[m] = s[n] => m = n
  BY <1>1 DEF IsInjective
<1>5. \A n \in 1 .. Len(s) : Node(a, s, n) = s[n] /\ s[n] \in ToSet(s) /\ s[n] # a
  BY <1>1, <1>2, <1>3 DEF Node
<1>6. Node(a, s, 0) = a /\ Node(a, s, Len(s) + 1) = a
  BY <1>1 DEF Node
<1>7. \A m, n \in 0 .. Len(s) : Node(a, s, m) = Node(a, s, n) => m = n
  BY <1>1, <1>4, <1>5, <1>6
<1>8. \A m, n \in 1 .. Len(s) + 1 : Node(a, s, m) = Node(a, s, n) => m = n
  BY <1>1, <1>4, <1>5, <1>6
<1>9. \A n \in 0 .. Len(s) + 1 : Node(a, s, n) \in {a} \cup ToSet(s)
  BY <1>1, <1>5, <1>6
<1> QED
  BY <1>1, <1>2, <1>3, <1>5, <1>6, <1>7, <1>8, <1>9

(* Links that change on other nodes only leave a circle as it was. *)
LEMMA CircleFrame ==
  ASSUME NEW l, NEW k, NEW b \in Heads, NEW t \in Seq(Nodes), IsInjective(t),
         Circle(l, b, t),
         \A x \in {b} \cup ToSet(t) : k.next[x] = l.next[x] /\ k.prev[x] = l.prev[x]
  PROVE  Circle(k, b, t)
<1>1. \A n \in 0 .. Len(t) + 1 : Node(b, t, n) \in {b} \cup ToSet(t)
  BY NodeFacts
<1>2. \A n \in 0 .. Len(t) : n \in 0 .. Len(t) + 1 /\ n + 1 \in 0 .. Len(t) + 1
  BY NodeFacts
<1> QED
  BY <1>1, <1>2 DEF Circle

(* LRU_Append as assignments to two nodes each. *)
LEMMA AppendedLinks ==
  ASSUME NEW l \in LinkRec, NEW a \in Heads, NEW e \in Nodes, l.prev[a] \in All,
         l.prev[a] # e
  PROVE  LET k == Appended(l, a, e)
         IN  /\ k \in LinkRec
             /\ k.next = [l.next EXCEPT ![e] = a, ![l.prev[a]] = e]
             /\ k.prev = [l.prev EXCEPT ![e] = l.prev[a], ![a] = e]
<1> DEFINE last == l.prev[a]
           n == [l.next EXCEPT ![e] = a]
           p == [l.prev EXCEPT ![e] = last]
           m == [n EXCEPT ![p[e]] = e]
<1>1. e \in All /\ a \in All /\ a # e
  BY LRUListAssumption DEF All
<1>2. l.next \in [All -> All \cup {NULL}] /\ l.prev \in [All -> All \cup {NULL}]
  BY DEF LinkRec
<1>3. p[e] = last
  BY <1>1, <1>2
<1>4. m = [n EXCEPT ![last] = e]
  BY <1>3
<1>5. m[e] = a
  BY <1>1, <1>2, <1>4
<1>6. Appended(l, a, e) = [next |-> m, prev |-> [p EXCEPT ![a] = e]]
  BY <1>5 DEF Appended
<1>7. m = [l.next EXCEPT ![e] = a, ![last] = e]
  BY <1>1, <1>2, <1>4
<1>8. m \in [All -> All \cup {NULL}] /\ [p EXCEPT ![a] = e] \in [All -> All \cup {NULL}]
  BY <1>1, <1>2, <1>4
<1> QED
  BY <1>6, <1>7, <1>8 DEF LinkRec

(* LRU_Append makes e the last node of the circle, leaves a circle apart   *)
(* from it alone, and links nothing to itself.                             *)
LEMMA AppendedCircles ==
  ASSUME NEW l \in LinkRec, NEW a \in Heads, NEW b \in Heads, a # b,
         NEW s, NEW t, Apart(s, t), Circle(l, a, s), Circle(l, b, t),
         NEW e \in Nodes, e \notin ToSet(s) \cup ToSet(t)
  PROVE  LET k == Appended(l, a, e)
         IN  /\ k \in LinkRec
             /\ Circle(k, a, Append(s, e))
             /\ Circle(k, b, t)
             /\ k.next[e] = a
             /\ \A x \in Nodes : k.next[x] = l.next[x] \/ k.next[x] # x
<1> DEFINE k == Appended(l, a, e)
           r == Append(s, e)
           last == Node(a, s, Len(s))
<1>0. s \in Seq(Nodes) /\ IsInjective(s) /\ t \in Seq(Nodes) /\ IsInjective(t)
  BY DEF Apart
<1>1. Len(s) \in Nat
  BY <1>0, NodeFacts
<1>2. l.prev[a] = last
  BY <1>0, <1>1, NodeFacts DEF Circle
<1>3. last \in {a} \cup ToSet(s) /\ last \in All /\ last # e /\ a # e /\ e \in All
  BY <1>0, <1>1, NodeFacts DEF All
<1>4. /\ k \in LinkRec
      /\ k.next = [l.next EXCEPT ![e] = a, ![last] = e]
      /\ k.prev = [l.prev EXCEPT ![e] = last, ![a] = e]
  BY <1>2, <1>3, AppendedLinks
<1>5. /\ r \in Seq(Nodes) /\ Len(r) = Len(s) + 1
      /\ \A n \in 1 .. Len(s) : r[n] = s[n]
      /\ r[Len(s) + 1] = e
  BY <1>0, AppendProperties
<1> HIDE DEF k, r
<1>6. /\ \A n \in 0 .. Len(s) : Node(a, r, n) = Node(a, s, n)
      /\ Node(a, r, Len(s) + 1) = e
      /\ Node(a, r, Len(s) + 2) = a
  BY <1>1, <1>5 DEF Node
<1>7. l.next \in [All -> All \cup {NULL}] /\ l.prev \in [All -> All \cup {NULL}]
  BY DEF LinkRec
<1>8. /\ k.next[e] = a /\ k.next[last] = e
      /\ k.prev[e] = last /\ k.prev[a] = e
      /\ \A x \in All \ {e, last} : k.next[x] = l.next[x]
      /\ \A x \in All \ {e, a} : k.prev[x] = l.prev[x]
  BY <1>3, <1>4, <1>7, NodeFacts, <1>0
<1>9. ASSUME NEW n \in 0 .. Len(r)
      PROVE  /\ k.next[Node(a, r, n)] = Node(a, r, n + 1)
             /\ k.prev[Node(a, r, n + 1)] = Node(a, r, n)
  <2>1. CASE n < Len(s)
    <3>1. n \in 0 .. Len(s) /\ n + 1 \in 1 .. Len(s) /\ n # Len(s) /\ Len(s) \in 0 .. Len(s)
      BY <1>1, <2>1, <1>5
    <3>2. Node(a, s, n) \in All \ {e, last}
      <4>1. Node(a, s, n) \in {a} \cup ToSet(s) /\ Node(a, s, n) # last
        BY <3>1, <1>0, <1>1, NodeFacts
      <4> QED
        BY <4>1, <1>0, <1>3, NodeFacts DEF All
    <3>3. Node(a, s, n + 1) \in All \ {e, a}
      BY <3>1, <1>0, <1>3, NodeFacts DEF All
    <3>4. l.next[Node(a, s, n)] = Node(a, s, n + 1) /\ l.prev[Node(a, s, n + 1)] = Node(a, s, n)
      BY <3>1 DEF Circle
    <3>5. Node(a, r, n) = Node(a, s, n) /\ Node(a, r, n + 1) = Node(a, s, n + 1)
      BY <3>1, <1>1, <1>6
    <3> QED
      BY <3>2, <3>3, <3>4, <3>5, <1>8
  <2>2. CASE n = Len(s)
    BY <2>2, <1>1, <1>6, <1>8
  <2>3. CASE n = Len(s) + 1
    <3>1. Node(a, r, n) = e /\ Node(a, r, n + 1) = a
      BY <2>3, <1>1, <1>6
    <3> QED
      BY <3>1, <1>8
  <2> QED
    BY <2>1, <2>2, <2>3, <1>1, <1>5
<1>10. Circle(k, a, r)
  BY <1>9 DEF Circle
<1>11. Circle(k, b, t)
  <2>1. ({b} \cup ToSet(t)) \subseteq All \ {a, e, last}
    <3>1. ToSet(t) \subseteq Nodes /\ b \notin Nodes /\ b \in All /\ a \notin Nodes /\ ToSet(s) \subseteq Nodes
      BY <1>0, NodeFacts
    <3> QED
      BY <3>1, <1>3 DEF Apart, All
  <2>2. \A x \in {b} \cup ToSet(t) : k.next[x] = l.next[x] /\ k.prev[x] = l.prev[x]
    BY <2>1, <1>8
  <2> QED
    BY <2>2, <1>0, CircleFrame
<1>12. \A x \in Nodes : k.next[x] = l.next[x] \/ k.next[x] # x
  BY <1>3, <1>8 DEF All
<1> QED
  BY <1>4, <1>8, <1>10, <1>11, <1>12 DEF k, r

(* LRU_Remove as one assignment to each neighbour. *)
LEMMA RemovedLinks ==
  ASSUME NEW l \in LinkRec, NEW e \in Nodes, l.prev[e] \in All, l.next[e] \in All,
         l.next[e] # e
  PROVE  LET k == Removed(l, e)
         IN  /\ k \in LinkRec
             /\ k.next = [l.next EXCEPT ![l.prev[e]] = l.next[e]]
             /\ k.prev = [l.prev EXCEPT ![l.next[e]] = l.prev[e]]
<1> DEFINE p == [l.prev EXCEPT ![l.next[e]] = l.prev[e]]
<1>1. l.next \in [All -> All \cup {NULL}] /\ l.prev \in [All -> All \cup {NULL}] /\ e \in All
  BY DEF LinkRec, All
<1>2. p[e] = l.prev[e] /\ p \in [All -> All \cup {NULL}]
  BY <1>1
<1>3. Removed(l, e) = [next |-> [l.next EXCEPT ![l.prev[e]] = l.next[e]], prev |-> p]
  BY <1>2 DEF Removed
<1> QED
  BY <1>1, <1>2, <1>3 DEF LinkRec

(* LRU_Remove takes e out of its circle, leaves a circle apart from it     *)
(* alone, and links nothing to itself.                                     *)
LEMMA RemovedCircles ==
  ASSUME NEW l \in LinkRec, NEW a \in Heads, NEW b \in Heads, a # b,
         NEW s, NEW t, Apart(s, t), Circle(l, a, s), Circle(l, b, t),
         NEW e \in ToSet(s)
  PROVE  LET k == Removed(l, e)
         IN  /\ k \in LinkRec
             /\ Circle(k, a, RemoveFirst(s, e))
             /\ Circle(k, b, t)
             /\ \A x \in Nodes : k.next[x] = l.next[x] \/ k.next[x] # x
<1> DEFINE k == Removed(l, e)
           r == RemoveFirst(s, e)
           N(n) == Node(a, s, n)
<1>0. s \in Seq(Nodes) /\ IsInjective(s) /\ t \in Seq(Nodes) /\ IsInjective(t)
  BY DEF Apart
<1>1. Len(s) \in Nat /\ ToSet(s) \subseteq Nodes
  BY <1>0, NodeFacts
<1>2. PICK i \in 1 .. Len(s) : e = s[i]
  BY <1>0, LenProperties DEF ToSet
<1>3. i - 1 \in 0 .. Len(s) /\ i \in 0 .. Len(s) /\ i + 1 \in 1 .. Len(s) + 1 /\ i \in 1 .. Len(s) + 1
  BY <1>1
<1>4. N(i) = e /\ N(i - 1) \in {a} \cup ToSet(s) /\ N(i + 1) \in {a} \cup ToSet(s)
  BY <1>0, <1>1, <1>2, <1>3, NodeFacts
<1>5. N(i + 1) # e /\ N(i - 1) # e /\ N(i - 1) \in All /\ N(i + 1) \in All /\ e \in Nodes
  <2>1. i + 1 # i /\ i - 1 # i
    BY <1>1
  <2> QED
    BY <1>0, <1>1, <1>3, <1>4, <2>1, NodeFacts DEF All
<1>6. l.next[e] = N(i + 1) /\ l.prev[e] = N(i - 1)
  <2>1. (i - 1) + 1 = i
    BY <1>1
  <2> QED
    BY <2>1, <1>3, <1>4 DEF Circle
<1>7. /\ k \in LinkRec
      /\ k.next = [l.next EXCEPT ![N(i - 1)] = N(i + 1)]
      /\ k.prev = [l.prev EXCEPT ![N(i + 1)] = N(i - 1)]
  BY <1>5, <1>6, RemovedLinks
<1>8. /\ r \in Seq(Nodes) /\ Len(r) = Len(s) - 1
      /\ \A j \in 1 .. Len(s) - 1 : r[j] = IF j < i THEN s[j] ELSE s[j + 1]
  BY <1>0, <1>2, RemoveFirstElements
<1> HIDE DEF k, r
<1>9. \A j \in 0 .. Len(s) : Node(a, r, j) = IF j < i THEN N(j) ELSE N(j + 1)
  BY <1>1, <1>8 DEF Node
<1>10. l.next \in [All -> All \cup {NULL}] /\ l.prev \in [All -> All \cup {NULL}]
  BY DEF LinkRec
<1>11. /\ k.next[N(i - 1)] = N(i + 1) /\ k.prev[N(i + 1)] = N(i - 1)
       /\ \A x \in All \ {N(i - 1)} : k.next[x] = l.next[x]
       /\ \A x \in All \ {N(i + 1)} : k.prev[x] = l.prev[x]
  BY <1>5, <1>7, <1>10
<1>12. ASSUME NEW j \in 0 .. Len(s), j # i - 1, j # i
       PROVE  k.next[N(j)] = N(j + 1) /\ k.prev[N(j + 1)] = N(j)
  <2>1. j + 1 \in 1 .. Len(s) + 1 /\ j + 1 # i + 1 /\ j + 1 \in 0 .. Len(s) + 1 /\ j \in 0 .. Len(s) + 1
    BY <1>1, <1>12
  <2>2. N(j) # N(i - 1) /\ N(j + 1) # N(i + 1)
    BY <2>1, <1>0, <1>1, <1>3, <1>12, NodeFacts
  <2>3. N(j) \in All /\ N(j + 1) \in All
    <3>1. N(j) \in {a} \cup ToSet(s) /\ N(j + 1) \in {a} \cup ToSet(s)
      BY <2>1, <1>0, NodeFacts
    <3> QED
      BY <3>1, <1>1 DEF All
  <2>4. l.next[N(j)] = N(j + 1) /\ l.prev[N(j + 1)] = N(j)
    BY DEF Circle
  <2> QED
    BY <2>2, <2>3, <2>4, <1>11
<1>13. ASSUME NEW j \in 0 .. Len(r)
       PROVE  /\ k.next[Node(a, r, j)] = Node(a, r, j + 1)
              /\ k.prev[Node(a, r, j + 1)] = Node(a, r, j)
  <2>0. j \in 0 .. Len(s) /\ j + 1 \in 0 .. Len(s)
    BY <1>1, <1>8
  <2>1. CASE j < i - 1
    <3>1. Node(a, r, j) = N(j) /\ Node(a, r, j + 1) = N(j + 1) /\ j # i - 1 /\ j # i
      BY <2>0, <2>1, <1>1, <1>9
    <3> QED
      BY <3>1, <2>0, <1>12
  <2>2. CASE j = i - 1
    <3>1. Node(a, r, j) = N(i - 1) /\ Node(a, r, j + 1) = N(i + 1)
      BY <2>0, <2>2, <1>1, <1>9
    <3> QED
      BY <3>1, <1>11
  <2>3. CASE j > i - 1
    <3>1. Node(a, r, j) = N(j + 1) /\ Node(a, r, j + 1) = N((j + 1) + 1)
      BY <2>0, <2>3, <1>1, <1>9
    <3>2. j + 1 # i - 1 /\ j + 1 # i
      BY <2>0, <2>3, <1>1
    <3> QED
      BY <3>1, <3>2, <2>0, <1>12
  <2> QED
    BY <2>0, <2>1, <2>2, <2>3, <1>1
<1>14. Circle(k, a, r)
  BY <1>13 DEF Circle
<1>15. Circle(k, b, t)
  <2>1. ({b} \cup ToSet(t)) \subseteq All \ {N(i - 1), N(i + 1)}
    <3>1. ToSet(t) \subseteq Nodes /\ b \notin Nodes /\ b \in All /\ a \notin Nodes
      BY <1>0, NodeFacts
    <3> QED
      BY <3>1, <1>1, <1>4 DEF Apart, All
  <2>2. \A x \in {b} \cup ToSet(t) : k.next[x] = l.next[x] /\ k.prev[x] = l.prev[x]
    BY <2>1, <1>11
  <2> QED
    BY <2>2, <1>0, CircleFrame
<1>16. \A x \in Nodes : k.next[x] = l.next[x] \/ k.next[x] # x
  <2>1. N(i + 1) # N(i - 1) \/ N(i - 1) = a
    <3>1. CASE i = 1
      BY <3>1, <1>0, NodeFacts
    <3>2. CASE i # 1
      <4>1. i - 1 \in 1 .. Len(s) + 1 /\ i - 1 # i + 1
        BY <3>2, <1>1
      <4> QED
        BY <4>1, <1>0, <1>3, NodeFacts
    <3> QED
      BY <3>1, <3>2
  <2>2. a \notin Nodes
    BY <1>0, NodeFacts
  <2> QED
    BY <2>1, <2>2, <1>11 DEF All
<1> QED
  BY <1>7, <1>14, <1>15, <1>16 DEF k, r
-----------------------------------------------------------------------------
(* The invariant.                                                          *)

(* An entry is on one list at most, and is live while it is on one. *)
Separate ==
  /\ Apart(order[LRU], order[IN_USE])
  /\ On(LRU) \cup On(IN_USE) \subseteq live

IInv == TypeOK /\ Separate /\ Linked /\ KeyAssertion /\ WalkOnCourse

(* The links of a state are links, and the other way round. *)
LEMMA TypedLinks == TypeOK <=> /\ Links \in LinkRec
                               /\ live \subseteq Nodes
                               /\ order \in [Heads -> Seq(Nodes)]
                               /\ cursor \in Nodes \cup {LRU, NULL}
BY DEF TypeOK, Links, LinkRec, All

(* Both lists are empty at the start. *)
LEMMA IInvInit == Init => IInv
<1> SUFFICES ASSUME Init PROVE IInv
  OBVIOUS
<1>1. TypeOK
  BY EmptySeq DEF Init, TypeOK, Heads
<1>2. order[LRU] = <<>> /\ order[IN_USE] = <<>> /\ live = {} /\ cursor = NULL
  BY DEF Init, Heads
<1>3. Separate
  BY <1>2, EmptySeq DEF Separate, Apart, On, IsInjective, ToSet
<1>4. ASSUME NEW a \in Heads PROVE Circle(Links, a, order[a])
  <2>1. order[a] = <<>> /\ next[a] = a /\ prev[a] = a /\ Len(<<>>) = 0
    BY EmptySeq DEF Init
  <2> QED
    BY <2>1 DEF Circle, Node, Links
<1>5. Linked /\ KeyAssertion /\ WalkOnCourse
  BY <1>2, <1>4 DEF Linked, KeyAssertion, WalkOnCourse
<1> QED
  BY <1>1, <1>3, <1>5 DEF IInv

(* Before the destructor runs, the parts of IInv are about two lists and   *)
(* one record of links.                                                    *)
LEMMA BeforeDestructor ==
  ASSUME IInv, cursor = NULL
  PROVE  /\ Links \in LinkRec /\ live \subseteq Nodes
         /\ order \in [Heads -> Seq(Nodes)]
         /\ \A a \in Heads : Circle(Links, a, order[a])
         /\ \A a, b \in Heads : a # b => Apart(order[a], order[b])
         /\ \A a \in Heads : On(a) \subseteq live
         /\ \A e \in live : Links.next[e] # e
BY TypedLinks DEF IInv, Linked, Separate, Apart, On, KeyAssertion, Links, Heads

(* A step that leaves the destructor alone preserves IInv if it keeps the  *)
(* circles and the lists apart.                                            *)
LEMMA ListsKeep ==
  ASSUME cursor = NULL, cursor' = NULL,
         Links' \in LinkRec, live' \subseteq Nodes,
         order' \in [Heads -> Seq(Nodes)],
         \A a \in Heads : Circle(Links', a, order'[a]),
         Apart(order'[LRU], order'[IN_USE]),
         ToSet(order'[LRU]) \cup ToSet(order'[IN_USE]) \subseteq live',
         \A e \in live' : Links'.next[e] # e
  PROVE  IInv'
<1>1. TypeOK'
  BY DEF TypeOK, Links, LinkRec, All
<1>2. Separate' /\ Linked' /\ KeyAssertion' /\ WalkOnCourse'
  BY DEF Separate, On, Linked, KeyAssertion, WalkOnCourse, Links, Circle
<1> QED
  BY <1>1, <1>2 DEF IInv

(* Linking a new entry into in_use_ preserves the invariant. *)
LEMMA InsertKeeps ==
  ASSUME IInv, NEW e \in Nodes, Insert(e)
  PROVE  IInv'
<1> DEFINE s == order[IN_USE]
           t == order[LRU]
           k == Appended(Links, IN_USE, e)
<1>1. cursor = NULL /\ cursor' = NULL /\ e \notin live /\ live' = live \cup {e}
  BY DEF Insert
<1>2. LRU \in Heads /\ IN_USE \in Heads /\ LRU # IN_USE
  BY LRUListAssumption DEF Heads
<1>3. Apart(s, t) /\ e \notin ToSet(s) \cup ToSet(t)
  BY <1>1, <1>2, BeforeDestructor DEF On
<1>4. /\ k \in LinkRec
      /\ Circle(k, IN_USE, Append(s, e)) /\ Circle(k, LRU, t)
      /\ k.next[e] = IN_USE
      /\ \A x \in Nodes : k.next[x] = Links.next[x] \/ k.next[x] # x
  BY <1>1, <1>2, <1>3, BeforeDestructor, AppendedCircles
<1>5. Links' = k
  <2>1. next' = k.next /\ prev' = k.prev
    BY DEF Insert, Set
  <2> QED
    BY <2>1, <1>4 DEF Links, LinkRec
<1>6. order'[IN_USE] = Append(s, e) /\ order'[LRU] = t /\ order' = [order EXCEPT ![IN_USE] = Append(s, e)]
  BY <1>1, <1>2, BeforeDestructor DEF Insert
<1>7. Append(s, e) \in Seq(Nodes) /\ IsInjective(Append(s, e)) /\ ToSet(Append(s, e)) = ToSet(s) \cup {e}
  BY <1>3, AppendNewProperties DEF Apart
<1>8. Apart(t, Append(s, e)) /\ order' \in [Heads -> Seq(Nodes)]
  BY <1>1, <1>2, <1>3, <1>6, <1>7, BeforeDestructor DEF Apart
<1>9. \A x \in live' : k.next[x] # x
  <2>1. IN_USE # e
    BY LRUListAssumption DEF Heads
  <2> QED
    BY <1>1, <1>4, <2>1, BeforeDestructor
<1>10. \A a \in Heads : Circle(k, a, order'[a])
  BY <1>4, <1>6 DEF Heads
<1>11. ToSet(order'[LRU]) \cup ToSet(order'[IN_USE]) \subseteq live' /\ live' \subseteq Nodes
  BY <1>1, <1>2, <1>6, <1>7, BeforeDestructor DEF On
<1> HIDE DEF k
<1> QED
  BY <1>1, <1>4, <1>5, <1>6, <1>8, <1>9, <1>10, <1>11, ListsKeep

(* Unlinking an entry, which lives on, preserves the invariant. *)
LEMMA FinishEraseKeeps ==
  ASSUME IInv, NEW e \in Nodes, NEW a \in Heads, FinishErase(e, a)
  PROVE  IInv'
<1>1. cursor = NULL /\ cursor' = NULL /\ live' = live /\ e \in ToSet(order[a])
  BY DEF FinishErase, On
<1>2. PICK b \in Heads : b # a /\ Heads = {a, b}
  BY LRUListAssumption DEF Heads
<1> DEFINE s == order[a]
           t == order[b]
           r == RemoveFirst(s, e)
           k == Removed(Links, e)
<1>3. Apart(s, t)
  BY <1>1, <1>2, BeforeDestructor
<1>4. /\ k \in LinkRec /\ Circle(k, a, r) /\ Circle(k, b, t)
      /\ \A x \in Nodes : k.next[x] = Links.next[x] \/ k.next[x] # x
  BY <1>1, <1>2, <1>3, BeforeDestructor, RemovedCircles
<1>5. Links' = k
  <2>1. next' = k.next /\ prev' = k.prev
    BY DEF FinishErase, Set
  <2> QED
    BY <2>1, <1>4 DEF Links, LinkRec
<1>6. order' = [order EXCEPT ![a] = r]
  BY DEF FinishErase
<1>7. r \in Seq(Nodes) /\ IsInjective(r) /\ ToSet(r) = ToSet(s) \ {e}
  BY <1>3, RemoveFirstProperties DEF Apart
<1>8. order'[a] = r /\ order'[b] = t /\ order' \in [Heads -> Seq(Nodes)]
  BY <1>1, <1>2, <1>6, <1>7, BeforeDestructor
<1> HIDE DEF k, r
<1>9. Apart(order'[LRU], order'[IN_USE])
  <2>1. Apart(r, t) /\ Apart(t, r)
    BY <1>3, <1>7 DEF Apart
  <2> QED
    BY <1>2, <1>8, <2>1 DEF Heads
<1>10. ToSet(order'[LRU]) \cup ToSet(order'[IN_USE]) \subseteq live' /\ live' \subseteq Nodes
  <2>1. ToSet(r) \cup ToSet(t) \subseteq live /\ live \subseteq Nodes
    BY <1>1, <1>2, <1>7, BeforeDestructor DEF On
  <2> QED
    BY <1>1, <1>2, <1>8, <2>1 DEF Heads
<1>11. \A x \in live' : k.next[x] # x
  BY <1>1, <1>4, BeforeDestructor
<1>12. \A x \in Heads : Circle(k, x, order'[x])
  BY <1>2, <1>4, <1>8
<1> QED
  BY <1>1, <1>4, <1>5, <1>8, <1>9, <1>10, <1>11, <1>12, ListsKeep

(* Moving an entry from one list to the newest end of the other preserves  *)
(* the invariant.                                                          *)
LEMMA MoveKeeps ==
  ASSUME IInv, NEW e \in Nodes, NEW a \in Heads, NEW b \in Heads, a # b, Move(e, a, b)
  PROVE  IInv'
<1> DEFINE s == order[a]
           t == order[b]
           r == RemoveFirst(s, e)
           q == Append(t, e)
           j == Removed(Links, e)
           k == Appended(j, b, e)
<1>1. cursor = NULL /\ cursor' = NULL /\ live' = live /\ e \in ToSet(s)
  BY DEF Move, On
<1>2. Heads = {a, b}
  BY LRUListAssumption DEF Heads
<1>3. Apart(s, t)
  BY <1>1, BeforeDestructor
<1>4. /\ j \in LinkRec /\ Circle(j, a, r) /\ Circle(j, b, t)
      /\ \A x \in Nodes : j.next[x] = Links.next[x] \/ j.next[x] # x
  BY <1>1, <1>3, BeforeDestructor, RemovedCircles
<1>5. r \in Seq(Nodes) /\ IsInjective(r) /\ ToSet(r) = ToSet(s) \ {e}
  BY <1>3, RemoveFirstProperties DEF Apart
<1>6. Apart(t, r) /\ e \notin ToSet(t) \cup ToSet(r)
  BY <1>1, <1>3, <1>5 DEF Apart
<1> HIDE DEF j, r
<1>7. /\ k \in LinkRec /\ Circle(k, b, q) /\ Circle(k, a, r)
      /\ \A x \in Nodes : k.next[x] = j.next[x] \/ k.next[x] # x
  BY <1>4, <1>6, AppendedCircles
<1>8. Links' = k
  <2>1. next' = k.next /\ prev' = k.prev
    BY DEF Move, Set, j
  <2> QED
    BY <2>1, <1>7 DEF Links, LinkRec
<1>9. q \in Seq(Nodes) /\ IsInjective(q) /\ ToSet(q) = ToSet(t) \cup {e}
  BY <1>6, AppendNewProperties DEF Apart
<1>10. order' = [order EXCEPT ![a] = r, ![b] = q]
  BY DEF Move, r
<1> HIDE DEF k, q
<1>11. order'[a] = r /\ order'[b] = q /\ order' \in [Heads -> Seq(Nodes)]
  BY <1>1, <1>5, <1>9, <1>10, BeforeDestructor
<1>12. Apart(order'[LRU], order'[IN_USE])
  <2>1. Apart(r, q) /\ Apart(q, r)
    BY <1>5, <1>6, <1>9 DEF Apart
  <2> QED
    BY <1>2, <1>11, <2>1 DEF Heads
<1>13. ToSet(order'[LRU]) \cup ToSet(order'[IN_USE]) \subseteq live' /\ live' \subseteq Nodes
  <2>1. ToSet(r) \cup ToSet(q) \subseteq live /\ live \subseteq Nodes
    BY <1>1, <1>5, <1>9, BeforeDestructor DEF On
  <2> QED
    BY <1>1, <1>2, <1>11, <2>1 DEF Heads
<1>14. \A x \in live' : k.next[x] # x
  BY <1>1, <1>4, <1>7, BeforeDestructor
<1>15. \A x \in Heads : Circle(k, x, order'[x])
  BY <1>2, <1>7, <1>11
<1> QED
  BY <1>1, <1>7, <1>8, <1>11, <1>12, <1>13, <1>14, <1>15, ListsKeep

(* Links of entries on no list are nobody's but their own: memory that is  *)
(* allocated or freed off the lists preserves the invariant.               *)
LEMMA OffListKeeps ==
  ASSUME IInv, NEW e \in Nodes, cursor = NULL, e \notin On(LRU) \cup On(IN_USE),
         NEW n \in All \cup {NULL}, next' = [next EXCEPT ![e] = n],
         (live' = live \cup {e} /\ n # e) \/ live' = live \ {e},
         UNCHANGED <<prev, order, cursor>>
  PROVE  IInv'
<1>1. Links' \in LinkRec /\ Links'.prev = Links.prev
      /\ \A x \in All \ {e} : Links'.next[x] = Links.next[x]
  BY BeforeDestructor DEF Links, LinkRec
<1>2. \A a \in Heads : Circle(Links', a, order[a])
  <2> SUFFICES ASSUME NEW a \in Heads PROVE Circle(Links', a, order[a])
    OBVIOUS
  <2>1. PICK b \in Heads : b # a
    BY LRUListAssumption DEF Heads
  <2>2. order[a] \in Seq(Nodes) /\ IsInjective(order[a]) /\ Circle(Links, a, order[a])
    BY <2>1, BeforeDestructor DEF Apart
  <2>3. e \notin {a} \cup ToSet(order[a]) /\ ToSet(order[a]) \subseteq Nodes /\ a \in All
    BY <2>2, NodeFacts DEF On, Heads
  <2>4. \A x \in {a} \cup ToSet(order[a]) :
          Links'.next[x] = Links.next[x] /\ Links'.prev[x] = Links.prev[x]
    BY <1>1, <2>3 DEF All
  <2> QED
    BY <2>2, <2>4, CircleFrame
<1>3. \A x \in live' : Links'.next[x] # x
  <2>1. \A x \in live \ {e} : Links'.next[x] # x
    BY <1>1, BeforeDestructor DEF All
  <2>2. Links'.next[e] = n
    BY BeforeDestructor DEF Links, LinkRec, All
  <2> QED
    BY <2>1, <2>2
<1>4. Apart(order'[LRU], order'[IN_USE])
  BY LRUListAssumption, BeforeDestructor DEF Heads
<1>5. ToSet(order'[LRU]) \cup ToSet(order'[IN_USE]) \subseteq live' /\ live' \subseteq Nodes
  BY BeforeDestructor DEF On, Heads
<1>6. order' \in [Heads -> Seq(Nodes)] /\ cursor' = NULL
  BY BeforeDestructor
<1>7. \A a \in Heads : Circle(Links', a, order'[a])
  BY <1>2
<1> QED
  BY <1>1, <1>3, <1>4, <1>5, <1>6, <1>7, ListsKeep

(* The walk begins at the oldest idle entry, or at the head. *)
LEMMA DestroyStartKeeps ==
  ASSUME IInv, DestroyStart
  PROVE  IInv'
<1> DEFINE s == order[LRU]
<1>1. cursor = NULL /\ cursor' = next[LRU] /\ UNCHANGED <<next, prev, live, order>>
  BY DEF DestroyStart, links
<1>2. LRU \in Heads /\ IN_USE \in Heads /\ LRU # IN_USE
  BY LRUListAssumption DEF Heads
<1>3. s \in Seq(Nodes) /\ IsInjective(s) /\ Circle(Links, LRU, s)
  BY <1>1, <1>2, BeforeDestructor DEF Apart
<1>4. Len(s) \in Nat /\ Node(LRU, s, 0) = LRU /\ Node(LRU, s, 1) \in Nodes \cup {LRU}
  BY <1>2, <1>3, NodeFacts
<1>5. next[LRU] = Node(LRU, s, 1)
  BY <1>3, <1>4 DEF Circle, Links
<1>6. \A n \in 1 .. Len(s) : next[s[n]] = Node(LRU, s, n + 1)
  BY <1>2, <1>3, <1>4, NodeFacts DEF Circle, Links
<1>7. cursor' # NULL
  BY <1>1, <1>4, <1>5, LRUListAssumption DEF Heads
<1>8. TypeOK' /\ Separate' /\ KeyAssertion'
  BY <1>1, <1>4, <1>5 DEF IInv, TypeOK, Separate, On, KeyAssertion
<1>9. WalkOnCourse'
  BY <1>1, <1>5, <1>6 DEF WalkOnCourse, Node
<1> QED
  BY <1>7, <1>8, <1>9 DEF IInv, Linked

(* Freeing the entry the walk stands on, with its successor read before,   *)
(* preserves the invariant.                                                *)
LEMMA DestroyNextKeeps ==
  ASSUME IInv, DestroyNext
  PROVE  IInv'
<1> DEFINE s == order[LRU]
           r == Tail(s)
<1>1. /\ cursor \in Nodes /\ live' = live \ {cursor} /\ cursor' = next[cursor]
      /\ order' = [order EXCEPT ![LRU] = r] /\ prev' = prev
  BY DEF DestroyNext
<1>2. PICK n \in {next[cursor], NULL} : next' = [next EXCEPT ![cursor] = n]
  BY DEF DestroyNext
<1>3. LRU \in Heads /\ IN_USE \in Heads /\ LRU # IN_USE /\ LRU \notin Nodes /\ NULL \notin Nodes \cup {LRU}
  BY LRUListAssumption DEF Heads
<1>4. s \in Seq(Nodes) /\ IsInjective(s) /\ order \in [Heads -> Seq(Nodes)]
  BY <1>3 DEF IInv, Separate, Apart, TypeOK
<1>5. cursor = Node(LRU, s, 1) /\ \A m \in 1 .. Len(s) : next[s[m]] = Node(LRU, s, m + 1)
  BY <1>1, <1>3 DEF IInv, WalkOnCourse
<1>6. s # <<>> /\ Len(s) \in Nat \ {0} /\ cursor = s[1] /\ Head(s) = cursor
  <2>1. Len(s) \in Nat /\ (s = <<>> => Len(s) = 0)
    BY <1>4, LenProperties, EmptySeq
  <2>2. 1 \in 1 .. Len(s)
    BY <1>1, <1>3, <1>5 DEF Node
  <2> QED
    BY <2>1, <2>2, <1>4, <1>5, HeadTailProperties DEF Node
<1>7. /\ r \in Seq(Nodes) /\ IsInjective(r) /\ ToSet(r) = ToSet(s) \ {cursor}
      /\ Len(r) = Len(s) - 1 /\ \A m \in 1 .. Len(r) : r[m] = s[m + 1]
  BY <1>4, <1>6, HeadTailInjective, HeadTailProperties
<1> HIDE DEF r
<1>8. \A m \in 1 .. Len(s) : Node(LRU, r, m) = Node(LRU, s, m + 1)
  BY <1>6, <1>7 DEF Node
<1>9. cursor' = Node(LRU, r, 1) /\ cursor' \in Nodes \cup {LRU}
  <2>1. cursor' = Node(LRU, s, 2)
    BY <1>1, <1>5, <1>6
  <2>2. Node(LRU, s, 2) \in Nodes \cup {LRU}
    BY <1>3, <1>4, <1>6, NodeFacts
  <2> QED
    BY <2>1, <2>2, <1>6, <1>8
<1>10. order'[LRU] = r /\ order'[IN_USE] = order[IN_USE] /\ order' \in [Heads -> Seq(Nodes)]
  BY <1>1, <1>3, <1>4, <1>7
<1>11. \A x \in Nodes \ {cursor} : next'[x] = next[x]
  BY <1>2 DEF IInv, TypeOK
<1>12. TypeOK'
  <2>1. n \in Nodes \cup Heads \cup {NULL}
    BY <1>1, <1>2 DEF IInv, TypeOK
  <2> QED
    BY <2>1, <1>1, <1>2, <1>9, <1>10 DEF IInv, TypeOK
<1>13. Separate'
  <2>1. /\ Apart(s, order[IN_USE]) /\ ToSet(s) \cup ToSet(order[IN_USE]) \subseteq live
        /\ cursor \in ToSet(s)
    BY <1>4, <1>6, HeadTailInjective DEF IInv, Separate, On
  <2>2. Apart(r, order[IN_USE])
    BY <2>1, <1>7 DEF Apart
  <2>3. ToSet(r) \cup ToSet(order[IN_USE]) \subseteq live'
    BY <2>1, <1>1, <1>7 DEF Apart
  <2> QED
    BY <2>2, <2>3, <1>10 DEF Separate, On
<1>14. KeyAssertion'
  BY <1>1, <1>11 DEF IInv, KeyAssertion, TypeOK
<1>15. \A m \in 1 .. Len(r) : next'[r[m]] = Node(LRU, r, m + 1)
  <2> SUFFICES ASSUME NEW m \in 1 .. Len(r) PROVE next'[r[m]] = Node(LRU, r, m + 1)
    OBVIOUS
  <2>1. m + 1 \in 1 .. Len(s) /\ r[m] = s[m + 1]
    BY <1>6, <1>7
  <2>2. r[m] \in Nodes \ {cursor}
    BY <1>3, <1>7, NodeFacts
  <2> QED
    BY <2>1, <2>2, <1>5, <1>8, <1>11
<1>16. WalkOnCourse'
  BY <1>9, <1>10, <1>15 DEF WalkOnCourse
<1>17. Linked'
  BY <1>3, <1>9 DEF Linked
<1> QED
  BY <1>12, <1>13, <1>14, <1>16, <1>17 DEF IInv

-----------------------------------------------------------------------------
(* Every step preserves the invariant. *)
LEMMA IInvStep == IInv /\ [Next]_vars => IInv'
<1> SUFFICES ASSUME IInv, [Next]_vars PROVE IInv'
  OBVIOUS
<1>0. LRU \in Heads /\ IN_USE \in Heads /\ LRU # IN_USE /\ NULL \notin Nodes
  BY LRUListAssumption DEF Heads
<1>1. CASE UNCHANGED vars
  BY <1>1 DEF vars, IInv, TypeOK, Separate, On, Linked, Links, Circle,
              KeyAssertion, WalkOnCourse
<1>2. ASSUME NEW e \in Nodes, Insert(e) PROVE IInv'
  BY <1>2, InsertKeeps
<1>3. ASSUME NEW e \in Nodes, InsertUncached(e) PROVE IInv'
  <2>1. e \notin On(LRU) \cup On(IN_USE)
    BY <1>3 DEF InsertUncached, IInv, Separate
  <2> QED
    BY <1>0, <1>3, <2>1, OffListKeeps DEF InsertUncached
<1>4. ASSUME NEW e \in Nodes, Free(e) PROVE IInv'
  <2>1. PICK n \in {next[e], NULL} : next' = [next EXCEPT ![e] = n]
    BY <1>4 DEF Free
  <2>2. n \in All \cup {NULL}
    BY <2>1 DEF IInv, TypeOK, All
  <2> QED
    BY <1>4, <2>1, <2>2, OffListKeeps DEF Free
<1>5. ASSUME NEW e \in Nodes, Ref(e) \/ Unref(e) PROVE IInv'
  BY <1>0, <1>5, MoveKeeps DEF Ref, Unref
<1>6. ASSUME NEW e \in Nodes, NEW list \in Heads, FinishErase(e, list) PROVE IInv'
  BY <1>6, FinishEraseKeeps
<1>7. CASE DestroyStart
  BY <1>7, DestroyStartKeeps
<1>8. CASE DestroyNext
  BY <1>8, DestroyNextKeeps
<1>9. CASE Destroyed
  BY <1>1, <1>9 DEF Destroyed
<1> QED
  BY <1>1, <1>2, <1>3, <1>4, <1>5, <1>6, <1>7, <1>8, <1>9 DEF Next

(* The inductive invariant holds whenever the lists are used. *)
LEMMA Invariance == Spec => []IInv
BY IInvInit, IInvStep, PTL DEF Spec

(* Every link leads to an entry, a dummy head or nowhere. *)
THEOREM Typing == Spec => []TypeOK
<1>1. IInv => TypeOK
  BY DEF IInv
<1> QED
  BY <1>1, Invariance, PTL

(* next and prev of both lists always spell the sequences LRUCache works   *)
(* on, for any number of entries and whatever stale links there are.       *)
THEOREM LinksSpellOrder == Spec => []Linked
<1>1. IInv => Linked
  BY DEF IInv
<1> QED
  BY <1>1, Invariance, PTL

(* The assertion in key() never fails for an entry that is not freed.      *)
THEOREM KeyNeverFails == Spec => []KeyAssertion
<1>1. IInv => KeyAssertion
  BY DEF IInv
<1> QED
  BY <1>1, Invariance, PTL

(* The destructor walks exactly the idle entries, oldest first.            *)
THEOREM WalkIsRight == Spec => []WalkOnCourse
<1>1. IInv => WalkOnCourse
  BY DEF IInv
<1> QED
  BY <1>1, Invariance, PTL
===============================================================================
