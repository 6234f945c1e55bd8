--------------------------- MODULE HandleTableProofs --------------------------
(***************************************************************************)
(* The hash table of a shard, for any number of keys and entries and any   *)
(* hash function: its chains never loop or share an entry, every entry is  *)
(* found where the search looks for it, and the table is a map, although   *)
(* Resize relinks the chains it walks.                                     *)
(***************************************************************************)
EXTENDS HandleTableSteps, FiniteSetTheorems, TLAPS

(* An instance, since SequencesExt has a Remove too.                       *)
Data == INSTANCE DataLemmas

(***************************************************************************)
(* Chains.                                                                 *)
(***************************************************************************)

Nexts == [Handles -> Handles \cup {NULL}]

(* A chain holds its first entry and, with each entry, the next one.       *)
LEMMA ChainClosed ==
  ASSUME NEW nx \in Nexts, NEW p \in Handles \cup {NULL}
  PROVE  /\ Chain(nx, p) \subseteq Handles
         /\ p \in Chain(nx, p) \cup {NULL}
         /\ \A e \in Chain(nx, p) : nx[e] \in Chain(nx, p) \cup {NULL}
<1>1. Chain(nx, p) \subseteq Handles /\ p \in Chain(nx, p) \cup {NULL}
  BY DEF Chain
<1>2. ASSUME NEW e \in Chain(nx, p)
      PROVE  nx[e] \in Chain(nx, p) \cup {NULL}
  BY <1>1, <1>2 DEF Chain, Nexts
<1> QED
  BY <1>1, <1>2

(* It is the least such set.                                               *)
LEMMA ChainLeast ==
  ASSUME NEW nx, NEW p, NEW S,
         p \in S \cup {NULL},
         \A e \in S : nx[e] \in S \cup {NULL},
         S \subseteq Handles
  PROVE  Chain(nx, p) \subseteq S
BY DEF Chain

(* From NULL nothing is reachable.                                         *)
LEMMA EmptyChain == ASSUME NEW nx PROVE Chain(nx, NULL) = {}
<1> DEFINE S == {}
<1>1. NULL \in S \cup {NULL} /\ S \subseteq Handles /\ \A e \in S : nx[e] \in S \cup {NULL}
  OBVIOUS
<1>2. S = {}
  OBVIOUS
<1> HIDE DEF S
<1>3. Chain(nx, NULL) \subseteq S
  BY <1>1, ChainLeast
<1> QED
  BY <1>2, <1>3

(* A chain is its first entry and the chain behind it.                     *)
LEMMA ChainUnfolds ==
  ASSUME NEW nx \in Nexts, NEW p \in Handles
  PROVE  Chain(nx, p) = {p} \cup Chain(nx, nx[p])
<1>0. nx[p] \in Handles \cup {NULL} /\ NULL \notin Handles
  BY HandleTableAssumption DEF Nexts
<1>1. Chain(nx, p) \subseteq {p} \cup Chain(nx, nx[p])
  <2> DEFINE S == {p} \cup Chain(nx, nx[p])
  <2>1. S \subseteq Handles /\ p \in S \cup {NULL}
    BY <1>0, ChainClosed
  <2>2. \A e \in S : nx[e] \in S \cup {NULL}
    BY <1>0, ChainClosed
  <2> HIDE DEF S
  <2>3. Chain(nx, p) \subseteq S
    BY <2>1, <2>2, ChainLeast
  <2> QED
    BY <2>3 DEF S
<1>2. p \in Chain(nx, p)
  BY <1>0, ChainClosed
<1>3. Chain(nx, nx[p]) \subseteq Chain(nx, p)
  <2>1. nx[p] \in Chain(nx, p) \cup {NULL}
    BY <1>2, ChainClosed
  <2> QED
    BY <2>1, ChainClosed, ChainLeast
<1> QED
  BY <1>1, <1>2, <1>3

(* What follows an entry of a chain belongs to the chain.                  *)
LEMMA ChainTail ==
  ASSUME NEW nx \in Nexts, NEW p \in Handles \cup {NULL}, NEW q \in Chain(nx, p) \cup {NULL}
  PROVE  Chain(nx, q) \subseteq Chain(nx, p)
BY ChainClosed, ChainLeast, EmptyChain

(* A chain depends on its own links only.                                  *)
LEMMA ChainFrame ==
  ASSUME NEW nx \in Nexts, NEW ny \in Nexts, NEW p \in Handles \cup {NULL},
         \A e \in Chain(nx, p) : ny[e] = nx[e]
  PROVE  Chain(ny, p) = Chain(nx, p)
<1>1. Chain(ny, p) \subseteq Chain(nx, p)
  BY ChainClosed, ChainLeast
<1>2. Chain(nx, p) \subseteq Chain(ny, p)
  <2> DEFINE S == Chain(ny, p) \cap Chain(nx, p)
  <2>1. S \subseteq Handles /\ p \in S \cup {NULL}
    BY ChainClosed
  <2>2. \A e \in S : nx[e] \in S \cup {NULL}
    BY ChainClosed
  <2>3. Chain(nx, p) \subseteq S
    BY <2>1, <2>2, ChainLeast
  <2> QED
    BY <2>3
<1> QED
  BY <1>1, <1>2

(* Every entry but the first comes after another one of the chain.         *)
LEMMA ChainPrevious ==
  ASSUME NEW nx \in Nexts, NEW p \in Handles \cup {NULL}, NEW e \in Chain(nx, p), e # p
  PROVE  \E x \in Chain(nx, p) : nx[x] = e
<1> SUFFICES ASSUME \A x \in Chain(nx, p) : nx[x] # e
             PROVE  FALSE
  OBVIOUS
<1> DEFINE S == Chain(nx, p) \ {e}
<1>1. S \subseteq Handles /\ p \in S \cup {NULL}
  BY ChainClosed
<1>2. \A x \in S : nx[x] \in S \cup {NULL}
  BY ChainClosed
<1>3. e \notin S
  OBVIOUS
<1> HIDE DEF S
<1>4. Chain(nx, p) \subseteq S
  BY <1>1, <1>2, ChainLeast
<1> QED
  BY <1>3, <1>4

(***************************************************************************)
(* Forests: chains that start from the roots r[d], one for each d.  No     *)
(* entry of a chain is followed by a root or by what another entry is      *)
(* followed by, and the chains have no entry in common.                    *)
(***************************************************************************)

Entries(nx, r) == UNION {Chain(nx, r[d]) : d \in DOMAIN r}

IsRoots(r) == r \in [DOMAIN r -> Handles \cup {NULL}]

Forest(nx, r) ==
  /\ \A x \in Entries(nx, r) : \A d \in DOMAIN r : nx[x] = r[d] => nx[x] = NULL
  /\ \A x, y \in Entries(nx, r) : nx[x] = nx[y] => x = y \/ nx[x] = NULL
  /\ \A c, d \in DOMAIN r : c # d => Chain(nx, r[c]) \cap Chain(nx, r[d]) = {}

(* The entries of an array of chains, and where their next_hash leads.     *)
LEMMA EntriesClosed ==
  ASSUME NEW nx \in Nexts, NEW r, IsRoots(r)
  PROVE  /\ Entries(nx, r) \subseteq Handles
         /\ \A d \in DOMAIN r : Chain(nx, r[d]) \subseteq Entries(nx, r)
         /\ \A d \in DOMAIN r : r[d] \in Chain(nx, r[d]) \cup {NULL}
         /\ \A x \in Entries(nx, r) : nx[x] \in Entries(nx, r) \cup {NULL}
         /\ \A x \in Entries(nx, r) : \E d \in DOMAIN r : x \in Chain(nx, r[d])
<1>1. \A d \in DOMAIN r : r[d] \in Handles \cup {NULL}
  BY DEF IsRoots
<1> QED
  BY <1>1, ChainClosed DEF Entries

(* No chain of a forest comes back to an entry.                            *)
LEMMA NoLoop ==
  ASSUME NEW nx \in Nexts, NEW r, IsRoots(r), Forest(nx, r),
         NEW x \in Entries(nx, r)
  PROVE  x \notin Chain(nx, nx[x])
<1> PICK d \in DOMAIN r : x \in Chain(nx, r[d])
  BY EntriesClosed
<1> DEFINE C == Chain(nx, r[d])
           L == {y \in C : y \in Chain(nx, nx[y])}
<1>1. /\ C \subseteq Handles /\ r[d] \in C \cup {NULL}
      /\ \A y \in C : nx[y] \in C \cup {NULL}
      /\ C \subseteq Entries(nx, r)
      /\ NULL \notin Handles
  BY EntriesClosed, ChainClosed, HandleTableAssumption DEF IsRoots
<1>2. \A y \in C : Chain(nx, nx[y]) \subseteq C
  BY <1>1, ChainTail DEF IsRoots
<1>3. ASSUME NEW y \in L
      PROVE  \E z \in Chain(nx, y) : nx[z] = y
  <2>1. y \in C /\ y \in Chain(nx, nx[y]) /\ nx[y] \in Handles \cup {NULL}
    BY <1>1
  <2>2. CASE y = nx[y]
    BY <2>1, <2>2
  <2>3. CASE y # nx[y]
    <3>1. PICK z \in Chain(nx, nx[y]) : nx[z] = y
      BY <2>1, <2>3, ChainPrevious
    <3>2. Chain(nx, nx[y]) \subseteq Chain(nx, y)
      BY <2>1, <1>1, ChainUnfolds
    <3> QED
      BY <3>1, <3>2
  <2> QED
    BY <2>2, <2>3
<1>4. \A y \in L : Chain(nx, y) \subseteq C
  BY <1>1, ChainTail DEF IsRoots
<1>5. r[d] \notin L
  <2> SUFFICES ASSUME r[d] \in L PROVE FALSE
    OBVIOUS
  <2>1. PICK z \in Chain(nx, r[d]) : nx[z] = r[d]
    BY <1>3
  <2> QED
    BY <2>1, <1>1 DEF Forest
<1>6. ASSUME NEW y \in C \ L, nx[y] # NULL
      PROVE  nx[y] \notin L
  <2> SUFFICES ASSUME nx[y] \in L PROVE FALSE
    OBVIOUS
  <2>1. PICK z \in Chain(nx, nx[y]) : nx[z] = nx[y]
    BY <1>3
  <2>2. z \in C
    BY <1>4, <2>1
  <2>3. z = y
    BY <2>1, <2>2, <1>1, <1>6 DEF Forest
  <2> QED
    BY <2>1, <2>3
<1> DEFINE S == C \ L
<1>7. S \subseteq Handles /\ r[d] \in S \cup {NULL} /\ \A y \in S : nx[y] \in S \cup {NULL}
  BY <1>1, <1>5, <1>6
<1>8. \A y \in S : y \notin Chain(nx, nx[y])
  OBVIOUS
<1> HIDE DEF S
<1>9. Chain(nx, r[d]) \subseteq S
  BY <1>7, ChainLeast
<1> QED
  BY <1>8, <1>9

(***************************************************************************)
(* What the assignments of the code do to a forest: an entry is unlinked   *)
(* from a root or from the entry before it, or linked there.               *)
(***************************************************************************)

(* *ptr = next_hash, with ptr at the head of a chain: the entry is out of  *)
(* this chain, and the others are as before.                               *)
LEMMA UnlinkRoot ==
  ASSUME NEW nx \in Nexts, NEW r, IsRoots(r), Forest(nx, r),
         NEW d \in DOMAIN r, NEW e \in Handles, r[d] = e,
         NEW q, DOMAIN q = DOMAIN r, q[d] = nx[e], \A c \in DOMAIN r \ {d} : q[c] = r[c]
  PROVE  /\ \A c \in DOMAIN r : Chain(nx, q[c]) = Chain(nx, r[c]) \ {e}
         /\ Forest(nx, q)
<1>1. nx[e] \in Handles \cup {NULL} /\ DOMAIN q = DOMAIN r
  BY DEF Nexts
<1>2. Chain(nx, r[d]) = {e} \cup Chain(nx, nx[e]) /\ e \in Entries(nx, r)
  BY ChainUnfolds, EntriesClosed
<1>3. e \notin Chain(nx, nx[e])
  BY <1>2, NoLoop
<1>4. ASSUME NEW c \in DOMAIN r
      PROVE  Chain(nx, q[c]) = Chain(nx, r[c]) \ {e}
  <2>1. CASE c = d
    BY <2>1, <1>2, <1>3
  <2>2. CASE c # d
    BY <2>2, <1>2 DEF Forest
  <2> QED
    BY <2>1, <2>2
<1>5. Entries(nx, q) \subseteq Entries(nx, r) /\ e \notin Entries(nx, q)
  BY <1>1, <1>4 DEF Entries
<1>6. ASSUME NEW x \in Entries(nx, q), NEW c \in DOMAIN q, nx[x] = q[c]
      PROVE  nx[x] = NULL
  <2>1. CASE c = d
    BY <2>1, <1>5, <1>6, <1>2 DEF Forest
  <2>2. CASE c # d
    BY <2>2, <1>5, <1>6, <1>1 DEF Forest
  <2> QED
    BY <2>1, <2>2
<1>7. \A x, y \in Entries(nx, q) : nx[x] = nx[y] => x = y \/ nx[x] = NULL
  BY <1>5 DEF Forest
<1>8. \A b, c \in DOMAIN q : b # c => Chain(nx, q[b]) \cap Chain(nx, q[c]) = {}
  BY <1>1, <1>4 DEF Forest
<1> QED
  BY <1>1, <1>4, <1>6, <1>7, <1>8 DEF Forest

(* The same with ptr at the next_hash of an entry.                         *)
LEMMA UnlinkNext ==
  ASSUME NEW nx \in Nexts, NEW r, IsRoots(r), Forest(nx, r),
         NEW x \in Entries(nx, r), NEW e \in Handles, nx[x] = e,
         NEW ny \in Nexts, ny[x] = nx[e], \A y \in Handles \ {x} : ny[y] = nx[y]
  PROVE  /\ \A c \in DOMAIN r : Chain(ny, r[c]) = Chain(nx, r[c]) \ {e}
         /\ Forest(ny, r)
<1> PICK d \in DOMAIN r : x \in Chain(nx, r[d])
  BY EntriesClosed
<1>0. NULL \notin Handles /\ x \in Handles /\ \A c \in DOMAIN r : r[c] \in Handles \cup {NULL}
  BY HandleTableAssumption, EntriesClosed DEF IsRoots
<1>1. ny[x] = nx[e] /\ \A y \in Handles \ {x} : ny[y] = nx[y]
  OBVIOUS
<1>2. e \in Chain(nx, r[d]) /\ e \in Entries(nx, r)
  BY <1>0, ChainClosed, EntriesClosed
<1>3. e # x /\ nx[e] # e
  <2>1. x \notin Chain(nx, e) /\ e \notin Chain(nx, nx[e])
    BY <1>2, NoLoop
  <2>2. e \in Chain(nx, e)
    BY <1>0, ChainClosed
  <2> QED
    BY <2>1, <2>2
<1>4. \A c \in DOMAIN r : r[c] # e
  BY <1>0 DEF Forest
<1>5. \A y \in Entries(nx, r) \ {x} : nx[y] # e
  BY <1>0 DEF Forest
<1>6. Chain(ny, r[d]) \subseteq Chain(nx, r[d]) \ {e}
  <2> DEFINE S == Chain(nx, r[d]) \ {e}
  <2>1. S \subseteq Handles /\ r[d] \in S \cup {NULL}
    BY <1>0, <1>4, ChainClosed
  <2>2. ASSUME NEW y \in S PROVE ny[y] \in S \cup {NULL}
    <3>1. y \in Chain(nx, r[d]) /\ y \in Handles /\ y \in Entries(nx, r)
      BY <2>1, EntriesClosed
    <3>2. CASE y = x
      BY <3>2, <1>0, <1>1, <1>2, <1>3, ChainClosed
    <3>3. CASE y # x
      BY <3>1, <3>3, <1>0, <1>1, <1>5, ChainClosed
    <3> QED
      BY <3>2, <3>3
  <2> HIDE DEF S
  <2>3. Chain(ny, r[d]) \subseteq S
    BY <2>1, <2>2, ChainLeast
  <2> QED
    BY <2>3 DEF S
<1>7. x \in Chain(ny, r[d])
  <2> SUFFICES ASSUME x \notin Chain(ny, r[d]) PROVE FALSE
    OBVIOUS
  <2> DEFINE S == Chain(ny, r[d])
  <2>1. S \subseteq Handles /\ r[d] \in S \cup {NULL} /\ \A y \in S : nx[y] \in S \cup {NULL}
    BY <1>0, <1>1, ChainClosed
  <2>2. x \notin S
    OBVIOUS
  <2> HIDE DEF S
  <2>3. Chain(nx, r[d]) \subseteq S
    BY <2>1, ChainLeast
  <2> QED
    BY <2>2, <2>3
<1>8. Chain(nx, r[d]) \subseteq Chain(ny, r[d]) \cup {e}
  <2> DEFINE S == Chain(ny, r[d]) \cup {e}
  <2>1. S \subseteq Handles /\ r[d] \in S \cup {NULL}
    BY <1>0, <1>1, ChainClosed
  <2>2. ASSUME NEW y \in S PROVE nx[y] \in S \cup {NULL}
    <3>1. CASE y = x
      BY <3>1
    <3>2. CASE y = e
      BY <3>2, <1>0, <1>1, <1>7, ChainClosed
    <3>3. CASE y # x /\ y # e
      BY <3>3, <2>1, <1>0, <1>1, ChainClosed
    <3> QED
      BY <3>1, <3>2, <3>3
  <2> HIDE DEF S
  <2>3. Chain(nx, r[d]) \subseteq S
    BY <2>1, <2>2, ChainLeast
  <2> QED
    BY <2>3 DEF S
<1>9. ASSUME NEW c \in DOMAIN r
      PROVE  Chain(ny, r[c]) = Chain(nx, r[c]) \ {e}
  <2>1. CASE c = d
    BY <2>1, <1>6, <1>8
  <2>2. CASE c # d
    <3>1. x \notin Chain(nx, r[c]) /\ e \notin Chain(nx, r[c])
      BY <2>2, <1>2 DEF Forest
    <3>2. Chain(ny, r[c]) = Chain(nx, r[c])
      <4>1. Chain(nx, r[c]) \subseteq Handles
        BY <1>0, ChainClosed
      <4> QED
        BY <3>1, <4>1, <1>0, <1>1, ChainFrame
    <3> QED
      BY <3>1, <3>2
  <2> QED
    BY <2>1, <2>2
<1>10. Entries(ny, r) \subseteq Entries(nx, r) /\ e \notin Entries(ny, r)
  BY <1>9 DEF Entries
<1>11. Entries(nx, r) \subseteq Handles
  BY EntriesClosed
<1>12. ASSUME NEW y \in Entries(ny, r), NEW c \in DOMAIN r, ny[y] = r[c]
       PROVE  ny[y] = NULL
  <2>1. CASE y = x
    BY <2>1, <1>1, <1>2, <1>12 DEF Forest
  <2>2. CASE y # x
    BY <2>2, <1>1, <1>10, <1>11, <1>12 DEF Forest
  <2> QED
    BY <2>1, <2>2
<1>13. ASSUME NEW y \in Entries(ny, r), NEW z \in Entries(ny, r), ny[y] = ny[z], ny[y] # NULL
       PROVE  y = z
  <2>1. \A w \in Entries(ny, r) \ {x} : ny[w] = nx[w]
    BY <1>1, <1>10, <1>11
  <2>2. \A w \in Entries(ny, r) : nx[w] = nx[e] => nx[w] = NULL
    BY <1>2, <1>10 DEF Forest
  <2>3. CASE y = x \/ z = x
    BY <2>1, <2>2, <2>3, <1>1, <1>13
  <2>4. CASE y # x /\ z # x
    BY <2>1, <2>4, <1>10, <1>13 DEF Forest
  <2> QED
    BY <2>3, <2>4
<1>14. \A b, c \in DOMAIN r : b # c => Chain(ny, r[b]) \cap Chain(ny, r[c]) = {}
  BY <1>9 DEF Forest
<1> QED
  BY <1>1, <1>9, <1>12, <1>13, <1>14 DEF Forest

Pushed(nx, r, d, e, ny, q) ==
  /\ ny[e] = r[d]
  /\ \A y \in Handles \ {e} : ny[y] = nx[y]
  /\ DOMAIN q = DOMAIN r
  /\ q[d] = e
  /\ \A c \in DOMAIN r \ {d} : q[c] = r[c]

(* An entry put in front of a chain is added to this chain only.           *)
LEMMA LinkRoot ==
  ASSUME NEW nx \in Nexts, NEW r, IsRoots(r), Forest(nx, r),
         NEW d \in DOMAIN r, NEW e \in Handles, e \notin Entries(nx, r),
         NEW ny \in Nexts, NEW q, Pushed(nx, r, d, e, ny, q)
  PROVE  /\ Chain(ny, q[d]) = Chain(nx, r[d]) \cup {e}
         /\ \A c \in DOMAIN r \ {d} : Chain(ny, q[c]) = Chain(nx, r[c])
         /\ Forest(ny, q)
<1>0. NULL \notin Handles /\ \A c \in DOMAIN r : r[c] \in Handles \cup {NULL}
  BY HandleTableAssumption DEF IsRoots
<1>1. /\ DOMAIN q = DOMAIN r /\ q[d] = e
      /\ \A c \in DOMAIN r \ {d} : q[c] = r[c]
      /\ ny[e] = r[d] /\ \A y \in Handles \ {e} : ny[y] = nx[y]
  BY DEF Pushed
<1>2. \A c \in DOMAIN r : Chain(ny, r[c]) = Chain(nx, r[c])
  <2> TAKE c \in DOMAIN r
  <2>1. e \notin Chain(nx, r[c]) /\ Chain(nx, r[c]) \subseteq Handles
    BY <1>0, EntriesClosed
  <2> QED
    BY <2>1, <1>0, <1>1, ChainFrame
<1>3. Chain(ny, e) = {e} \cup Chain(nx, r[d])
  BY <1>1, <1>2, ChainUnfolds
<1>4. \A c \in DOMAIN r : Chain(ny, q[c]) = IF c = d THEN Chain(nx, r[c]) \cup {e}
                                            ELSE Chain(nx, r[c])
  BY <1>1, <1>2, <1>3
<1>5. Entries(ny, q) \subseteq Entries(nx, r) \cup {e} /\ Entries(nx, r) \subseteq Handles
  BY <1>1, <1>4, EntriesClosed DEF Entries
<1>6. \A x \in Entries(nx, r) : ny[x] = nx[x] /\ nx[x] # e
  BY <1>0, <1>1, <1>5, EntriesClosed
<1>7. \A c \in DOMAIN r : r[c] # e
  BY <1>0, EntriesClosed
<1>8. \A x \in Entries(nx, r) : nx[x] = r[d] => nx[x] = NULL
  BY DEF Forest
<1>9. \A c \in DOMAIN r \ {d} : r[c] = r[d] => r[d] = NULL
  <2> TAKE c \in DOMAIN r \ {d}
  <2>1. r[c] \in Chain(nx, r[c]) \cup {NULL} /\ r[d] \in Chain(nx, r[d]) \cup {NULL}
    BY <1>0, ChainClosed
  <2> QED
    BY <2>1 DEF Forest
<1>10. ASSUME NEW x \in Entries(ny, q), NEW c \in DOMAIN q, ny[x] = q[c]
       PROVE  ny[x] = NULL
  <2>1. CASE x = e
    BY <2>1, <1>1, <1>7, <1>9, <1>10
  <2>2. CASE x # e
    BY <2>2, <1>1, <1>5, <1>6, <1>10 DEF Forest
  <2> QED
    BY <2>1, <2>2
<1>11. ASSUME NEW x \in Entries(ny, q), NEW y \in Entries(ny, q), ny[x] = ny[y], ny[x] # NULL
       PROVE  x = y
  <2>1. CASE x = e \/ y = e
    BY <2>1, <1>1, <1>5, <1>6, <1>8, <1>11
  <2>2. CASE x # e /\ y # e
    BY <2>2, <1>5, <1>6, <1>11 DEF Forest
  <2> QED
    BY <2>1, <2>2
<1>12. \A c \in DOMAIN r : e \notin Chain(nx, r[c])
  BY EntriesClosed
<1>13. \A b, c \in DOMAIN q : b # c => Chain(ny, q[b]) \cap Chain(ny, q[c]) = {}
  BY <1>1, <1>4, <1>12 DEF Forest
<1> QED
  BY <1>1, <1>4, <1>10, <1>11, <1>13 DEF Forest

Placed(nx, x, e, ny) ==
  /\ ny[e] = nx[x] /\ ny[x] = e
  /\ \A y \in Handles \ {e, x} : ny[y] = nx[y]

(* An entry put behind another one is added to the chain of that one only. *)
LEMMA LinkNext ==
  ASSUME NEW nx \in Nexts, NEW r, IsRoots(r), Forest(nx, r),
         NEW d \in DOMAIN r, NEW x \in Chain(nx, r[d]),
         NEW e \in Handles, e \notin Entries(nx, r),
         NEW ny \in Nexts, Placed(nx, x, e, ny)
  PROVE  /\ Chain(ny, r[d]) = Chain(nx, r[d]) \cup {e}
         /\ \A c \in DOMAIN r \ {d} : Chain(ny, r[c]) = Chain(nx, r[c])
         /\ Forest(ny, r)
<1>0. /\ NULL \notin Handles /\ \A c \in DOMAIN r : r[c] \in Handles \cup {NULL}
      /\ x \in Handles /\ x \in Entries(nx, r) /\ x # e
      /\ Entries(nx, r) \subseteq Handles
  BY HandleTableAssumption, EntriesClosed DEF IsRoots
<1> ny[e] = nx[x] /\ ny[x] = e /\ \A y \in Handles \ {e, x} : ny[y] = nx[y]
  BY DEF Placed
<1>1. \A c \in DOMAIN r : e \notin Chain(nx, r[c]) /\ r[c] # e
  BY <1>0, EntriesClosed
<1>2. \A y \in Entries(nx, r) : nx[y] # e /\ nx[y] \in Entries(nx, r) \cup {NULL}
  BY <1>0, EntriesClosed
<1>3. Chain(ny, r[d]) \subseteq Chain(nx, r[d]) \cup {e}
  <2> DEFINE S == Chain(nx, r[d]) \cup {e}
  <2>1. S \subseteq Handles /\ r[d] \in S \cup {NULL}
    BY <1>0, ChainClosed
  <2>2. ASSUME NEW y \in S PROVE ny[y] \in S \cup {NULL}
    <3>1. CASE y = e
      BY <3>1, <1>0, ChainClosed
    <3>2. CASE y = x
      BY <3>2
    <3>3. CASE y # e /\ y # x
      BY <3>3, <2>1, <1>0, ChainClosed
    <3> QED
      BY <3>1, <3>2, <3>3
  <2> HIDE DEF S
  <2>3. Chain(ny, r[d]) \subseteq S
    BY <2>1, <2>2, ChainLeast
  <2> QED
    BY <2>3 DEF S
<1>4. Chain(nx, r[d]) \subseteq Chain(ny, r[d])
  <2> DEFINE S == Chain(ny, r[d]) \ {e}
  <2>1. S \subseteq Handles /\ r[d] \in S \cup {NULL} /\ S \subseteq Chain(nx, r[d])
    BY <1>0, <1>1, <1>3, ChainClosed
  <2>2. ASSUME NEW y \in S PROVE nx[y] \in S \cup {NULL}
    <3>1. nx[y] # e
      BY <2>1, <1>2, EntriesClosed
    <3>2. CASE y = x
      <4>1. ny[e] \in Chain(ny, r[d]) \cup {NULL}
        BY <3>2, <1>0, ChainClosed
      <4> QED
        BY <4>1, <3>1, <3>2
    <3>3. CASE y # x
      BY <3>1, <3>3, <2>1, <1>0, ChainClosed
    <3> QED
      BY <3>2, <3>3
  <2>3. S \subseteq Chain(ny, r[d])
    OBVIOUS
  <2> HIDE DEF S
  <2>4. Chain(nx, r[d]) \subseteq S
    BY <2>1, <2>2, ChainLeast
  <2> QED
    BY <2>3, <2>4
<1>5. e \in Chain(ny, r[d])
  BY <1>0, <1>4, ChainClosed
<1>6. ASSUME NEW c \in DOMAIN r
      PROVE  Chain(ny, r[c]) = IF c = d THEN Chain(nx, r[c]) \cup {e} ELSE Chain(nx, r[c])
  <2>1. CASE c = d
    BY <2>1, <1>3, <1>4, <1>5
  <2>2. CASE c # d
    <3>1. e \notin Chain(nx, r[c]) /\ x \notin Chain(nx, r[c]) /\ Chain(nx, r[c]) \subseteq Handles
      BY <2>2, <1>0, <1>1, ChainClosed DEF Forest
    <3>2. Chain(ny, r[c]) = Chain(nx, r[c])
      BY <3>1, <1>0, ChainFrame
    <3> QED
      BY <2>2, <3>2
  <2> QED
    BY <2>1, <2>2
<1>7. Entries(ny, r) \subseteq Entries(nx, r) \cup {e}
  BY <1>6 DEF Entries
<1>8. \A y \in Entries(nx, r) \ {x} : ny[y] = nx[y]
  BY <1>0, <1>1
<1>9. ASSUME NEW y \in Entries(ny, r), NEW c \in DOMAIN r, ny[y] = r[c]
      PROVE  ny[y] = NULL
  <2>1. CASE y = e
    BY <2>1, <1>0, <1>9 DEF Forest
  <2>2. CASE y = x
    BY <2>2, <1>1, <1>9
  <2>3. CASE y # e /\ y # x
    BY <2>3, <1>7, <1>8, <1>9 DEF Forest
  <2> QED
    BY <2>1, <2>2, <2>3
<1>10. ASSUME NEW y \in Entries(ny, r), NEW z \in Entries(ny, r), ny[y] = ny[z], ny[y] # NULL
       PROVE  y = z
  <2>1. \A w \in Entries(nx, r) : nx[w] = nx[x] => w = x \/ nx[w] = NULL
    BY <1>0 DEF Forest
  <2>2. CASE y \in {e, x} \/ z \in {e, x}
    BY <2>1, <2>2, <1>0, <1>2, <1>7, <1>8, <1>10
  <2>3. CASE y \notin {e, x} /\ z \notin {e, x}
    BY <2>3, <1>7, <1>8, <1>10 DEF Forest
  <2> QED
    BY <2>2, <2>3
<1>11. \A b, c \in DOMAIN r : b # c => Chain(ny, r[b]) \cap Chain(ny, r[c]) = {}
  BY <1>1, <1>6 DEF Forest
<1> QED
  BY <1>6, <1>9, <1>10, <1>11 DEF Forest

(* The roots may be renamed, and empty chains come and go.                 *)
LEMMA Regroup ==
  ASSUME NEW nx \in Nexts, NEW r, IsRoots(r), Forest(nx, r),
         NEW q, NEW f,
         \A c \in DOMAIN q : q[c] = NULL \/ (f[c] \in DOMAIN r /\ q[c] = r[f[c]]),
         \A b, c \in DOMAIN q : b # c /\ q[b] # NULL /\ q[c] # NULL => f[b] # f[c]
  PROVE  Forest(nx, q)
<1>1. \A c \in DOMAIN q : Chain(nx, q[c]) = {} \/ (q[c] # NULL /\ f[c] \in DOMAIN r /\ q[c] = r[f[c]])
  BY EmptyChain
<1>2. Entries(nx, q) \subseteq Entries(nx, r)
  BY <1>1 DEF Entries
<1>3. \A x \in Entries(nx, q) : \A d \in DOMAIN q : nx[x] = q[d] => nx[x] = NULL
  BY <1>2 DEF Forest
<1>4. \A x, y \in Entries(nx, q) : nx[x] = nx[y] => x = y \/ nx[x] = NULL
  BY <1>2 DEF Forest
<1>5. \A b, c \in DOMAIN q : b # c => Chain(nx, q[b]) \cap Chain(nx, q[c]) = {}
  BY <1>1 DEF Forest
<1> QED
  BY <1>3, <1>4, <1>5 DEF Forest

(***************************************************************************)
(* The length of the array.                                                *)
(***************************************************************************)

(* The smallest length, 4 in the code, is a power of two.                  *)
LEMMA MinLengthPower ==
  /\ MinLength \in Nat \ {0}
  /\ \E c \in 0 .. MinLength : MinLength = 2^c
  /\ Cardinality(Handles) \in Nat
<1>1. Cardinality(Handles) \in Nat
  BY HandleTableAssumption, FS_CardinalityType
<1>2. PICK c \in 0 .. MinLength : MinLength = 2^c
  BY HandleTableAssumption
<1>3. 0 \in 0 .. Cardinality(Handles) /\ c + 0 = c /\ MinLength \in Nat
  BY <1>1, HandleTableAssumption
<1>4. c + 0 < 2^(c + 0)
  BY <1>3, PowersOfTwo
<1> QED
  BY <1>1, <1>2, <1>3, <1>4

(* The length Resize chooses is a power of two and leaves no bucket with   *)
(* two entries on average.                                                 *)
LEMMA NewLengthFits ==
  ASSUME elems \in 0 .. Cardinality(Handles)
  PROVE  /\ NewLength \in Nat \ {0}
         /\ NewLength >= elems
         /\ \E d \in 0 .. NewLength : NewLength = 2^d
<1> DEFINE D == {m \in {MinLength * 2^d : d \in 0 .. elems} : m >= elems}
<1>1. PICK c \in 0 .. MinLength : MinLength = 2^c
  BY MinLengthPower
<1>2. ASSUME NEW d \in 0 .. elems
      PROVE  /\ 2^d \in Nat /\ 2^(c + d) = MinLength * 2^d
             /\ c + d < 2^(c + d) /\ 2^(c + d) \in Nat /\ d < 2^d /\ c + d \in Nat
  <2>1. d \in 0 .. Cardinality(Handles) /\ c \in Nat
    BY MinLengthPower
  <2> QED
    BY <2>1, <1>1, PowersOfTwo
<1>3. D \subseteq Nat
  BY <1>2
<1>4. D # {}
  <2>1. elems \in 0 .. elems
    BY MinLengthPower
  <2>2. 2^elems \in Nat /\ elems < 2^elems
    BY <1>2, <2>1
  <2>3. MinLength * 2^elems >= elems
    <3> DEFINE p == 2^elems
    <3>1. p \in Nat /\ elems < p /\ elems \in Nat
      BY <2>2, <2>1
    <3> HIDE DEF p
    <3>2. PICK b \in Nat : MinLength = b + 1
      BY MinLengthPower
    <3>3. MinLength * p = b * p + p /\ b * p \in Nat
      BY <3>1, <3>2
    <3>4. MinLength * p >= elems
      BY <3>1, <3>3
    <3> QED
      BY <3>4 DEF p
  <2> QED
    BY <2>1, <2>3
<1>5. PICK n \in D : \A m \in D : n <= m
  <2> HIDE DEF D
  <2> QED
    BY <1>3, <1>4, Data!LeastNatural
<1>6. NewLength \in D
  <2>1. NewLength = CHOOSE m \in D : \A y \in D : m <= y
    BY DEF NewLength, Min
  <2> HIDE DEF D
  <2> QED
    BY <1>5, <2>1
<1>7. PICK d \in 0 .. elems : NewLength = MinLength * 2^d /\ NewLength >= elems
  BY <1>6
<1>8. /\ 2^(c + d) = NewLength /\ c + d < NewLength /\ NewLength \in Nat /\ c + d \in Nat
  BY <1>2, <1>7
<1> QED
  BY <1>7, <1>8

(***************************************************************************)
(* The slots of a chain, and *p = v.                                       *)
(***************************************************************************)

ValueAt(l, nx, p) == IF p[1] = "list" THEN l[p[2]] ELSE nx[p[2]]

StoreList(l, p, v) == IF p[1] = "list" THEN [l EXCEPT ![p[2]] = v] ELSE l

StoreNext(nx, p, v) == IF p[1] = "list" THEN nx ELSE [nx EXCEPT ![p[2]] = v]

SlotOf(l, nx, b, p) == p = <<"list", b>> \/ \E x \in Chain(nx, l[b]) : p = <<"next", x>>

(* UnlinkRoot and UnlinkNext for wherever ptr points.                      *)
LEMMA SlotUnlinked ==
  ASSUME NEW nx \in Nexts, NEW l, IsRoots(l), Forest(nx, l),
         NEW b \in DOMAIN l, NEW p, SlotOf(l, nx, b, p),
         NEW e \in Handles, ValueAt(l, nx, p) = e,
         NEW m, m = StoreList(l, p, nx[e]), NEW ny, ny = StoreNext(nx, p, nx[e])
  PROVE  /\ IsRoots(m) /\ DOMAIN m = DOMAIN l /\ ny \in Nexts
         /\ Forest(ny, m)
         /\ \A c \in DOMAIN l : Chain(ny, m[c]) = Chain(nx, l[c]) \ {e}
         /\ SlotOf(m, ny, b, p) /\ ValueAt(m, ny, p) = nx[e]
<1>1. nx[e] \in Handles \cup {NULL}
  BY DEF Nexts
<1>2. CASE p = <<"list", b>>
  <2>1. m = [l EXCEPT ![b] = nx[e]] /\ ny = nx /\ l[b] = e
    BY <1>2 DEF StoreList, StoreNext, ValueAt
  <2>2. /\ IsRoots(m) /\ DOMAIN m = DOMAIN l /\ m[b] = nx[e]
        /\ \A c \in DOMAIN l \ {b} : m[c] = l[c]
    BY <2>1, <1>1 DEF IsRoots
  <2>3. /\ \A c \in DOMAIN l : Chain(nx, m[c]) = Chain(nx, l[c]) \ {e}
        /\ Forest(nx, m)
    BY <2>1, <2>2, UnlinkRoot
  <2> QED
    BY <1>2, <2>1, <2>2, <2>3 DEF SlotOf, ValueAt
<1>3. ASSUME NEW x \in Chain(nx, l[b]), p = <<"next", x>>
      PROVE  /\ IsRoots(m) /\ DOMAIN m = DOMAIN l /\ ny \in Nexts
             /\ Forest(ny, m)
             /\ \A c \in DOMAIN l : Chain(ny, m[c]) = Chain(nx, l[c]) \ {e}
             /\ SlotOf(m, ny, b, p) /\ ValueAt(m, ny, p) = nx[e]
  <2>1. m = l /\ ny = [nx EXCEPT ![x] = nx[e]] /\ nx[x] = e
    BY <1>3 DEF StoreList, StoreNext, ValueAt
  <2>2. x \in Entries(nx, l) /\ x \in Handles
    BY EntriesClosed
  <2>3. /\ ny \in Nexts /\ ny[x] = nx[e] /\ \A y \in Handles \ {x} : ny[y] = nx[y]
    BY <2>1, <2>2, <1>1 DEF Nexts
  <2>4. /\ \A c \in DOMAIN l : Chain(ny, l[c]) = Chain(nx, l[c]) \ {e}
        /\ Forest(ny, l)
    <3>1. nx[x] = e
      BY <2>1
    <3> QED
      BY <3>1, <2>2, <2>3, UnlinkNext
  <2>5. x # e
    <3>1. e \in Chain(nx, nx[x])
      BY <2>1, ChainClosed, HandleTableAssumption
    <3> QED
      BY <3>1, <2>2, NoLoop
  <2>6. x \in Chain(ny, m[b])
    BY <2>1, <2>4, <2>5
  <2>7. SlotOf(m, ny, b, p) /\ ValueAt(m, ny, p) = nx[e]
    BY <1>3, <2>3, <2>6 DEF SlotOf, ValueAt
  <2> QED
    BY <2>1, <2>3, <2>4, <2>7
<1> QED
  BY <1>2, <1>3 DEF SlotOf

(* e->next_hash = v. *)
WithNext(nx, e, v) == [nx EXCEPT ![e] = v]

(* LinkRoot and LinkNext for wherever ptr points.                          *)
LEMMA SlotLinked ==
  ASSUME NEW nx \in Nexts, NEW l, IsRoots(l), Forest(nx, l),
         NEW b \in DOMAIN l, NEW p, SlotOf(l, nx, b, p),
         NEW e \in Handles, e \notin Entries(nx, l), NEW v, ValueAt(l, nx, p) = v,
         NEW m, m = StoreList(l, p, e),
         NEW ny, ny = StoreNext(WithNext(nx, e, v), p, e)
  PROVE  /\ IsRoots(m) /\ DOMAIN m = DOMAIN l /\ ny \in Nexts
         /\ Forest(ny, m)
         /\ Chain(ny, m[b]) = Chain(nx, l[b]) \cup {e}
         /\ \A c \in DOMAIN l \ {b} : Chain(ny, m[c]) = Chain(nx, l[c])
<1>0. \A c \in DOMAIN l : l[c] \in Handles \cup {NULL}
  BY DEF IsRoots
<1>1. CASE p = <<"list", b>>
  <2>1. m = [l EXCEPT ![b] = e] /\ ny = [nx EXCEPT ![e] = l[b]]
    BY <1>1 DEF StoreList, StoreNext, ValueAt, WithNext
  <2>2. /\ IsRoots(m) /\ DOMAIN m = DOMAIN l /\ m[b] = e
        /\ \A c \in DOMAIN l \ {b} : m[c] = l[c]
    BY <2>1 DEF IsRoots
  <2>3. ny \in Nexts /\ ny[e] = l[b] /\ \A y \in Handles \ {e} : ny[y] = nx[y]
    BY <2>1, <1>0 DEF Nexts
  <2>5. Pushed(nx, l, b, e, ny, m)
    BY <2>2, <2>3 DEF Pushed
  <2>4. /\ Chain(ny, m[b]) = Chain(nx, l[b]) \cup {e}
        /\ \A c \in DOMAIN l \ {b} : Chain(ny, m[c]) = Chain(nx, l[c])
        /\ Forest(ny, m)
    BY <2>3, <2>5, LinkRoot
  <2> QED
    BY <2>2, <2>3, <2>4
<1>2. ASSUME NEW x \in Chain(nx, l[b]), p = <<"next", x>>
      PROVE  /\ IsRoots(m) /\ DOMAIN m = DOMAIN l /\ ny \in Nexts
             /\ Forest(ny, m)
             /\ Chain(ny, m[b]) = Chain(nx, l[b]) \cup {e}
             /\ \A c \in DOMAIN l \ {b} : Chain(ny, m[c]) = Chain(nx, l[c])
  <2>1. m = l /\ ny = [[nx EXCEPT ![e] = nx[x]] EXCEPT ![x] = e]
    BY <1>2 DEF StoreList, StoreNext, ValueAt, WithNext
  <2>2. x \in Handles /\ x # e /\ nx[x] \in Handles \cup {NULL}
    BY EntriesClosed DEF Nexts
  <2>3. /\ ny \in Nexts /\ ny[e] = nx[x] /\ ny[x] = e
        /\ \A y \in Handles \ {e, x} : ny[y] = nx[y]
    BY <2>1, <2>2 DEF Nexts
  <2>5. Placed(nx, x, e, ny)
    BY <2>3 DEF Placed
  <2>4. /\ Chain(ny, l[b]) = Chain(nx, l[b]) \cup {e}
        /\ \A c \in DOMAIN l \ {b} : Chain(ny, l[c]) = Chain(nx, l[c])
        /\ Forest(ny, l)
    BY <2>3, <2>5, LinkNext
  <2> QED
    BY <2>1, <2>3, <2>4
<1> QED
  BY <1>1, <1>2 DEF SlotOf

(***************************************************************************)
(* The inductive invariant.                                                *)
(***************************************************************************)

Resizing == pc \in {"bucket", "chain"}

(* The first entries of the chains of both arrays. *)
Roots(old, new) ==
  [s \in ({"old"} \X DOMAIN old) \cup ({"new"} \X DOMAIN new) |->
     IF s[1] = "old" THEN old[s[2]] ELSE new[s[2]]]

Old == [b \in OldBuckets |-> OldHead(b)]

(* Every entry is on one chain only, at one place. *)
ForestOK ==
  IF Resizing THEN Forest(next_hash, Roots(Old, new_list)) ELSE Forest(next_hash, list)

(* The entries have different keys. *)
KeysOK ==
  /\ \A e \in Members : key[e] \in Keys
  /\ \A x, y \in Members : key[x] = key[y] => x = y

(* The arrays have their lengths, and the locals of Resize only live there. *)
ArrayOK ==
  /\ length # 0 => \E d \in 0 .. length : length = 2^d
  /\ pc \in {"idle", "find"} => length > 0 /\ elems <= length
  /\ Resizing => DOMAIN new_list = 0 .. NewLength - 1
  /\ ~Resizing => DOMAIN new_list = {} /\ i = 0
  /\ pc = "chain" => i < length

(* The cell FindPointer starts from. *)
Home == list[Bucket(call.key, length)]

(* The search has not passed the entry it looks for, and what Insert links *)
(* is not linked yet. *)
SearchOK ==
  pc = "find" =>
    /\ SlotOf(list, next_hash, Bucket(call.key, length), ptr)
    /\ \A e \in ReachableFrom(Home) : key[e] = call.key => e \in ReachableFrom(At(ptr))
    /\ call.op = "Insert" => call.handle \in Handles \ Members /\ key[call.handle] = call.key

IInv ==
  TypeOK /\ ForestOK /\ InBucket /\ KeysOK /\ ElemsExact /\ ArrayOK /\ SearchOK

(* hash & (length - 1) is an index of the array.                           *)
LEMMA BucketInRange ==
  ASSUME hash \in [Keys -> HashValues], NEW k \in Keys, NEW len \in Nat \ {0}
  PROVE  Bucket(k, len) \in 0 .. len - 1
<1>1. hash[k] \in Nat
  BY HandleTableAssumption
<1> QED
  BY <1>1 DEF Bucket

(* Outside Resize, the table is one array.                                 *)
SingleArray ==
  /\ OldBuckets = 0 .. length - 1 /\ \A b \in OldBuckets : OldHead(b) = list[b]
  /\ DOMAIN list = OldBuckets /\ IsRoots(list) /\ next_hash \in Nexts
  /\ NewEntries = {} /\ DOMAIN new_list = {} /\ i = 0
  /\ Members = Entries(next_hash, list)

(* Outside Resize all chains hang on list_.                                *)
LEMMA OneArray == TypeOK /\ ArrayOK /\ ~Resizing => SingleArray
<1> SUFFICES ASSUME TypeOK, ArrayOK, ~Resizing
             PROVE  SingleArray
  OBVIOUS
<1>1. /\ OldBuckets = 0 .. length - 1 /\ \A b \in OldBuckets : OldHead(b) = list[b]
      /\ DOMAIN list = OldBuckets /\ IsRoots(list) /\ next_hash \in Nexts
      /\ DOMAIN new_list = {} /\ i = 0
  BY DEF TypeOK, ArrayOK, Resizing, OldBuckets, OldHead, IsRoots, Nexts
<1>2. NewEntries = {}
  BY <1>1 DEF NewEntries
<1>3. Members = OldEntries
  BY <1>2 DEF Members
<1>4. OldEntries = Entries(next_hash, list)
  BY <1>1 DEF OldEntries, Entries, ReachableFrom
<1> QED
  BY <1>1, <1>2, <1>3, <1>4 DEF SingleArray

(* OneArray in the next state.                                             *)
LEMMA OneArrayNext == (TypeOK /\ ArrayOK /\ ~Resizing)' => SingleArray'
BY OneArray, PTL

(* A step outside Resize that moves no entry.                              *)
LEMMA NothingMoves ==
  ASSUME IInv, ~Resizing, (TypeOK /\ ArrayOK /\ ~Resizing)',
         UNCHANGED <<hash, next_hash, list, length, elems>>,
         \A e \in Members : key'[e] = key[e]
  PROVE  /\ ForestOK' /\ InBucket' /\ KeysOK' /\ ElemsExact'
         /\ Members' = Members
<1>1. SingleArray /\ SingleArray'
  BY OneArray, OneArrayNext DEF IInv
<1>2. ForestOK'
  BY DEF IInv, ForestOK
<1>3. Members' = Members
  BY <1>1 DEF SingleArray
<1>4. \A b \in OldBuckets : ReachableFrom(OldHead(b)) \subseteq Members
  BY DEF Members, OldEntries
<1>5. InBucket'
  BY <1>1, <1>4 DEF SingleArray, InBucket, IInv, Bucket, ReachableFrom
<1>6. KeysOK'
  BY <1>3 DEF KeysOK, IInv
<1>7. ElemsExact'
  BY <1>3 DEF ElemsExact, IInv, Resizing
<1> QED
  BY <1>2, <1>3, <1>5, <1>6, <1>7

(* Where FindPointer is. *)
LEMMA SearchPosition ==
  ASSUME IInv, pc = "find"
  PROVE  /\ SingleArray
         /\ call \in Calls
         /\ Bucket(call.key, length) \in DOMAIN list
         /\ Home \in Handles \cup {NULL}
         /\ Forest(next_hash, list)
         /\ SlotOf(list, next_hash, Bucket(call.key, length), ptr)
         /\ At(ptr) = ValueAt(list, next_hash, ptr)
         /\ At(ptr) \in Chain(next_hash, Home) \cup {NULL}
         /\ Chain(next_hash, Home) \subseteq Members
<1>1. SingleArray /\ ~Resizing
  BY OneArray DEF IInv, Resizing
<1>2. call \in Calls /\ length \in Nat \ {0} /\ hash \in [Keys -> HashValues]
  BY DEF IInv, TypeOK, ArrayOK
<1>3. call.key \in Keys
  BY <1>2 DEF Calls
<1>4. Bucket(call.key, length) \in DOMAIN list
  BY <1>1, <1>2, <1>3, BucketInRange DEF SingleArray
<1>5. Home \in Handles \cup {NULL}
  BY <1>1, <1>4 DEF Home, SingleArray, IsRoots
<1>6. Forest(next_hash, list) /\ SlotOf(list, next_hash, Bucket(call.key, length), ptr)
  BY <1>1 DEF IInv, ForestOK, SearchOK
<1>7. At(ptr) = ValueAt(list, next_hash, ptr)
  BY DEF At, ValueAt
<1>8. At(ptr) \in Chain(next_hash, Home) \cup {NULL}
  <2>1. \A x \in Chain(next_hash, Home) : next_hash[x] \in Chain(next_hash, Home) \cup {NULL}
    BY <1>1, <1>5, ChainClosed DEF SingleArray
  <2>2. Home \in Chain(next_hash, Home) \cup {NULL}
    BY <1>1, <1>5, ChainClosed DEF SingleArray
  <2>3. CASE ptr = <<"list", Bucket(call.key, length)>>
    BY <2>2, <2>3 DEF At, Home
  <2>4. ASSUME NEW x \in Chain(next_hash, Home), ptr = <<"next", x>>
        PROVE  At(ptr) \in Chain(next_hash, Home) \cup {NULL}
    BY <2>1, <2>4 DEF At
  <2> QED
    BY <1>6, <2>3, <2>4 DEF SlotOf, Home
<1>9. Chain(next_hash, Home) \subseteq Members
  BY <1>1, <1>4, EntriesClosed DEF Home, SingleArray
<1> QED
  BY <1>1, <1>2, <1>4, <1>5, <1>6, <1>7, <1>8, <1>9

(* Where FindPointer stops, it has found the entry of the key, or there is *)
(* none.                                                                   *)
LEMMA SearchFinds ==
  ASSUME IInv, pc = "find", StopsAt(call.key, ptr)
  PROVE  /\ At(ptr) = NULL => \A e \in Members : key[e] # call.key
         /\ At(ptr) # NULL => At(ptr) \in Members /\ key[At(ptr)] = call.key
<1>1. /\ SingleArray /\ Bucket(call.key, length) \in DOMAIN list
      /\ At(ptr) \in Chain(next_hash, Home) \cup {NULL} /\ Chain(next_hash, Home) \subseteq Members
  BY SearchPosition
<1>2. ASSUME At(ptr) = NULL, NEW e \in Members, key[e] = call.key PROVE FALSE
  <2>1. PICK b \in DOMAIN list : e \in Chain(next_hash, list[b])
    BY <1>1 DEF SingleArray, Entries
  <2>2. b = Bucket(call.key, length)
    BY <1>1, <1>2, <2>1 DEF SingleArray, IInv, InBucket, ReachableFrom
  <2>3. e \in ReachableFrom(At(ptr))
    BY <1>2, <2>1, <2>2 DEF IInv, SearchOK, Home, ReachableFrom
  <2> QED
    BY <1>2, <2>3, EmptyChain DEF ReachableFrom
<1>3. At(ptr) # NULL => At(ptr) \in Members /\ key[At(ptr)] = call.key
  BY <1>1 DEF StopsAt
<1> QED
  BY <1>2, <1>3

(***************************************************************************)
(* The actions.                                                            *)
(***************************************************************************)

(* A call that sets out to find its slot touches no chain.                 *)
LEMMA StartKeeps ==
  ASSUME IInv, NEW c \in Calls, FindStart(c), NEW k \in Keys, c.key = k,
         UNCHANGED <<hash, next_hash, array, resizing>>,
         \/ UNCHANGED key /\ c.op # "Insert"
         \/ c.handle \in Handles \ Members /\ key' = [key EXCEPT ![c.handle] = k]
  PROVE  IInv' /\ Members' = Members
<1>1. pc = "idle" /\ pc' = "find" /\ ~Resizing /\ ~Resizing'
  BY DEF FindStart, Resizing
<1>2. /\ hash' = hash /\ next_hash' = next_hash /\ list' = list /\ length' = length
      /\ elems' = elems /\ new_list' = new_list /\ i' = i /\ h' = h /\ count' = count
  BY DEF array, resizing
<1>3. length \in Nat \ {0} /\ hash \in [Keys -> HashValues]
  BY <1>1 DEF IInv, TypeOK, ArrayOK
<1>4. Bucket(k, length) \in 0 .. length - 1
  BY <1>3, BucketInRange
<1>5. /\ call' = c /\ ptr' = <<"list", Bucket(k, length)>> /\ result' = NULL
      /\ NULL \notin Calls
  BY HandleTableAssumption DEF FindStart
<1>6. key' \in [Handles -> Keys \cup {NULL}] /\ \A e \in Members : key'[e] = key[e]
  <2>1. key \in [Handles -> Keys \cup {NULL}] /\ Members \subseteq Handles
    <3>1. SingleArray
      BY <1>1, OneArray DEF IInv
    <3> QED
      BY <3>1, EntriesClosed DEF IInv, TypeOK, SingleArray
  <2>2. CASE UNCHANGED key
    BY <2>1, <2>2
  <2>3. CASE c.handle \in Handles \ Members /\ key' = [key EXCEPT ![c.handle] = k]
    BY <2>1, <2>3
  <2> QED
    BY <2>2, <2>3
<1>7. TypeOK'
  <2>1. ptr' \in Slots
    BY <1>4, <1>5 DEF Slots
  <2> QED
    BY <1>1, <1>2, <1>5, <1>6, <2>1 DEF IInv, TypeOK
<1>8. ArrayOK'
  BY <1>1, <1>2 DEF IInv, ArrayOK, Resizing, NewLength
<1>9. ForestOK' /\ InBucket' /\ KeysOK' /\ ElemsExact' /\ Members' = Members
  BY <1>1, <1>2, <1>6, <1>7, <1>8, NothingMoves
<1>10. SearchOK'
  <2>1. Bucket(call.key, length)' = Bucket(k, length)
    BY <1>2, <1>5 DEF Bucket
  <2>2. At(ptr)' = Home'
    BY <1>5, <2>1 DEF At, Home
  <2>3. SlotOf(list, next_hash, Bucket(call.key, length), ptr)'
    BY <1>5, <2>1 DEF SlotOf
  <2>4. call'.op = "Insert" => call'.handle \in Handles \ Members' /\ key'[call'.handle] = call'.key
    BY <1>5, <1>9 DEF IInv, TypeOK
  <2> QED
    BY <2>2, <2>3, <2>4 DEF SearchOK
<1> QED
  BY <1>7, <1>8, <1>9, <1>10 DEF IInv

(* The first step of Lookup.                                               *)
LEMMA LookupStartKeeps ==
  ASSUME IInv, NEW k \in Keys, LookupStart(k)
  PROVE  IInv' /\ Members' = Members
<1> DEFINE c == [op |-> "Lookup", key |-> k, handle |-> NULL]
<1>1. c \in Calls /\ c.key = k /\ c.op = "Lookup"
  BY DEF Calls
<1>2. FindStart(c) /\ UNCHANGED <<hash, next_hash, array, resizing>> /\ UNCHANGED key
  BY DEF LookupStart, entries
<1> HIDE DEF c
<1> QED
  BY <1>1, <1>2, StartKeeps

(* The first step of Remove.                                               *)
LEMMA RemoveStartKeeps ==
  ASSUME IInv, NEW k \in Keys, RemoveStart(k)
  PROVE  IInv' /\ Members' = Members
<1> DEFINE c == [op |-> "Remove", key |-> k, handle |-> NULL]
<1>1. c \in Calls /\ c.key = k /\ c.op = "Remove"
  BY DEF Calls
<1>2. FindStart(c) /\ UNCHANGED <<hash, next_hash, array, resizing>> /\ UNCHANGED key
  BY DEF RemoveStart, entries
<1> HIDE DEF c
<1> QED
  BY <1>1, <1>2, StartKeeps

(* The first step of Insert, which gives the new entry its key.            *)
LEMMA InsertStartKeeps ==
  ASSUME IInv, NEW k \in Keys, NEW e \in Handles, InsertStart(k, e)
  PROVE  IInv' /\ Members' = Members
<1> DEFINE c == [op |-> "Insert", key |-> k, handle |-> e]
<1>1. c \in Calls /\ c.key = k /\ c.handle = e
  BY DEF Calls
<1>2. /\ FindStart(c) /\ UNCHANGED <<hash, next_hash, array, resizing>>
      /\ e \notin Members /\ key' = [key EXCEPT ![e] = k]
  BY DEF InsertStart
<1> HIDE DEF c
<1> QED
  BY <1>1, <1>2, StartKeeps

(* A step of FindPointer stays in the chain of the key and passes only     *)
(* other keys.                                                             *)
LEMMA FindNextKeeps ==
  ASSUME IInv, FindNext
  PROVE  IInv' /\ Members' = Members
<1>1. pc = "find" /\ pc' = "find" /\ ~Resizing /\ ~Resizing' /\ ~StopsAt(call.key, ptr)
  BY DEF FindNext, Resizing
<1>2. /\ hash' = hash /\ next_hash' = next_hash /\ key' = key /\ list' = list /\ length' = length
      /\ elems' = elems /\ new_list' = new_list /\ i' = i /\ h' = h /\ count' = count
      /\ call' = call /\ result' = result
  BY DEF FindNext, array, resizing, entries
<1>3. /\ SingleArray /\ Home \in Handles \cup {NULL} /\ At(ptr) # NULL
      /\ At(ptr) \in Chain(next_hash, Home) \cup {NULL}
  BY <1>1, SearchPosition DEF StopsAt
<1> DEFINE y == At(ptr)
<1>4. y \in Handles /\ y \in Chain(next_hash, Home) /\ next_hash \in Nexts
  BY <1>3, ChainClosed DEF SingleArray
<1>5. ptr' = <<"next", y>>
  BY DEF FindNext
<1>6. At(ptr)' = next_hash[y]
  BY <1>2, <1>5 DEF At
<1>7. TypeOK'
  <2>1. ptr' \in Slots
    BY <1>4, <1>5 DEF Slots
  <2> QED
    BY <1>1, <1>2, <2>1 DEF IInv, TypeOK
<1>8. ArrayOK'
  BY <1>1, <1>2 DEF IInv, ArrayOK, Resizing, NewLength
<1>9. ForestOK' /\ InBucket' /\ KeysOK' /\ ElemsExact' /\ Members' = Members
  BY <1>1, <1>2, <1>7, <1>8, NothingMoves
<1>10. SearchOK'
  <2>1. Bucket(call.key, length)' = Bucket(call.key, length) /\ Home' = Home
    BY <1>2 DEF Bucket, Home
  <2>2. SlotOf(list, next_hash, Bucket(call.key, length), ptr)'
    BY <1>2, <1>4, <1>5, <2>1 DEF SlotOf, Home
  <2>3. ASSUME NEW e \in ReachableFrom(Home), key[e] = call.key
        PROVE  e \in Chain(next_hash, next_hash[y])
    <3>1. e \in Chain(next_hash, y)
      BY <1>1, <2>3 DEF IInv, SearchOK, ReachableFrom
    <3>2. e # y
      BY <1>1, <1>3, <2>3 DEF StopsAt
    <3> QED
      BY <3>1, <3>2, <1>4, ChainUnfolds
  <2>4. \A e \in ReachableFrom(Home)' : key'[e] = call'.key => e \in ReachableFrom(At(ptr))'
    BY <1>2, <1>6, <2>1, <2>3 DEF ReachableFrom
  <2>5. call'.op = "Insert" => call'.handle \in Handles \ Members' /\ key'[call'.handle] = call'.key
    BY <1>1, <1>2, <1>9 DEF IInv, SearchOK
  <2> QED
    BY <2>2, <2>4, <2>5 DEF SearchOK
<1> QED
  BY <1>7, <1>8, <1>9, <1>10 DEF IInv

(* The answer of Lookup changes no chain.                                  *)
LEMMA LookupKeeps ==
  ASSUME IInv, Lookup
  PROVE  IInv' /\ Members' = Members
<1>1. pc = "find" /\ pc' = "idle" /\ ~Resizing /\ ~Resizing'
  BY DEF Lookup, Found, Resizing
<1>2. /\ hash' = hash /\ next_hash' = next_hash /\ key' = key /\ list' = list /\ length' = length
      /\ elems' = elems /\ new_list' = new_list /\ i' = i /\ h' = h /\ count' = count
      /\ call' = NULL /\ result' = At(ptr)
  BY DEF Lookup, Finish, array, resizing, entries
<1>3. At(ptr) \in Handles \cup {NULL}
  BY <1>1, SearchPosition, ChainClosed DEF SingleArray
<1>7. TypeOK'
  BY <1>1, <1>2, <1>3 DEF IInv, TypeOK
<1>8. ArrayOK'
  BY <1>1, <1>2 DEF IInv, ArrayOK, Resizing, NewLength
<1>9. ForestOK' /\ InBucket' /\ KeysOK' /\ ElemsExact' /\ Members' = Members
  BY <1>1, <1>2, <1>7, <1>8, NothingMoves
<1>10. SearchOK'
  BY <1>1 DEF SearchOK
<1> QED
  BY <1>7, <1>8, <1>9, <1>10 DEF IInv

(* What is left to show of a step that changes the chains of the one array. *)
LEMMA ChainsChange ==
  ASSUME ~Resizing', (TypeOK /\ ArrayOK)', Forest(next_hash', list'),
         UNCHANGED <<hash, key, length>>,
         \A b \in DOMAIN list' : \A x \in Chain(next_hash', list'[b]) : Bucket(key[x], length) = b
  PROVE  ForestOK' /\ InBucket'
<1>1. SingleArray'
  BY OneArrayNext
<1>2. ForestOK'
  BY DEF ForestOK
<1>3. InBucket'
  BY <1>1 DEF InBucket, ReachableFrom, SingleArray, Bucket
<1> QED
  BY <1>2, <1>3

(* Sets of entries are finite, and one entry counts for one.               *)
LEMMA MembersFinite ==
  ASSUME NEW S, S \subseteq Handles
  PROVE  /\ IsFiniteSet(S) /\ Cardinality(S) \in Nat
         /\ Cardinality(S) <= Cardinality(Handles)
         /\ \A x \in S : Cardinality(S \ {x}) = Cardinality(S) - 1
         /\ \A x : x \notin S => Cardinality(S \cup {x}) = Cardinality(S) + 1
BY HandleTableAssumption, FS_Subset, FS_CardinalityType, FS_AddElement, FS_RemoveElement

(* Remove takes the entry it found out of its chain, and nothing else.     *)
LEMMA RemoveKeeps ==
  ASSUME IInv, Remove
  PROVE  IInv' /\ Members' = Members \ {At(ptr)}
<1>1. /\ pc = "find" /\ pc' = "idle" /\ ~Resizing /\ ~Resizing'
      /\ call.op = "Remove" /\ StopsAt(call.key, ptr)
  BY DEF Remove, Found, Resizing
<1>2. /\ hash' = hash /\ key' = key /\ length' = length /\ call' = NULL /\ result' = At(ptr)
      /\ new_list' = new_list /\ i' = i /\ h' = h /\ count' = count
  BY DEF Remove, Finish, resizing
<1> DEFINE e == At(ptr)
           b == Bucket(call.key, length)
<1>3. /\ SingleArray /\ Home \in Handles \cup {NULL} /\ Forest(next_hash, list)
      /\ b \in DOMAIN list /\ SlotOf(list, next_hash, b, ptr) /\ e = ValueAt(list, next_hash, ptr)
      /\ e \in Chain(next_hash, Home) \cup {NULL} /\ Chain(next_hash, Home) \subseteq Members
  BY <1>1, SearchPosition
<1>4. SearchOK'
  BY <1>1 DEF SearchOK
<1>5. /\ Members \subseteq Handles /\ e \in Members \cup {NULL} /\ NULL \notin Handles
      /\ IsRoots(list) /\ next_hash \in Nexts /\ DOMAIN list = 0 .. length - 1
      /\ Members = Entries(next_hash, list)
  BY <1>3, EntriesClosed, HandleTableAssumption DEF SingleArray
<1>6. CASE e = NULL
  <2>1. list' = list /\ next_hash' = next_hash /\ elems' = elems
    BY <1>6 DEF Remove
  <2>2. TypeOK' /\ ArrayOK'
    BY <2>1, <1>1, <1>2, <1>5 DEF IInv, TypeOK, ArrayOK, Resizing, NewLength
  <2>3. ForestOK' /\ InBucket' /\ KeysOK' /\ ElemsExact' /\ Members' = Members
    BY <2>1, <2>2, <1>1, <1>2, NothingMoves
  <2>4. Members \ {e} = Members
    BY <1>5, <1>6
  <2> QED
    BY <1>4, <2>2, <2>3, <2>4 DEF IInv
<1>7. CASE e # NULL
  <2>1. /\ list' = StoreList(list, ptr, next_hash[e])
        /\ next_hash' = StoreNext(next_hash, ptr, next_hash[e])
        /\ elems' = elems - 1
    BY <1>7 DEF Remove, Assign, StoreList, StoreNext
  <2>2. e \in Handles /\ e \in Members
    BY <1>5, <1>7
  <2> HIDE DEF e, b
  <2>3. /\ IsRoots(list') /\ DOMAIN list' = DOMAIN list /\ next_hash' \in Nexts
        /\ Forest(next_hash', list')
        /\ \A c \in DOMAIN list : Chain(next_hash', list'[c]) = Chain(next_hash, list[c]) \ {e}
    <3> DEFINE m == list'
               ny == next_hash'
    <3>1. m = StoreList(list, ptr, next_hash[e]) /\ ny = StoreNext(next_hash, ptr, next_hash[e])
      BY <2>1
    <3>2. /\ next_hash \in Nexts /\ IsRoots(list) /\ Forest(next_hash, list)
          /\ b \in DOMAIN list /\ SlotOf(list, next_hash, b, ptr)
          /\ e \in Handles /\ ValueAt(list, next_hash, ptr) = e
      BY <2>2, <1>3, <1>5
    <3> HIDE DEF m, ny
    <3>3. /\ IsRoots(m) /\ DOMAIN m = DOMAIN list /\ ny \in Nexts
          /\ Forest(ny, m)
          /\ \A c \in DOMAIN list : Chain(ny, m[c]) = Chain(next_hash, list[c]) \ {e}
      BY <3>1, <3>2, SlotUnlinked
    <3> QED
      BY <3>3 DEF m, ny
  <2>4. elems = Cardinality(Members) /\ elems' = Cardinality(Members \ {e}) /\ elems' \in Nat
    BY <2>1, <2>2, <1>5, MembersFinite DEF IInv, ElemsExact
  <2>5. TypeOK'
    <3>1. list' \in [0 .. length' - 1 -> Handles \cup {NULL}]
      BY <2>3, <1>2, <1>5 DEF IsRoots
    <3> QED
      BY <3>1, <2>3, <2>4, <1>1, <1>2, <1>5 DEF IInv, TypeOK, Nexts, e
  <2>6. ArrayOK'
    <3>1. elems' <= elems
      BY <2>1, <2>4, <1>5, MembersFinite
    <3> QED
      BY <3>1, <2>4, <1>1, <1>2, <1>5, MembersFinite DEF IInv, ArrayOK, Resizing, TypeOK
  <2>7. ForestOK' /\ InBucket'
    <3>1. \A c \in DOMAIN list : \A x \in Chain(next_hash, list[c]) : Bucket(key[x], length) = c
      BY <1>3 DEF IInv, InBucket, SingleArray, ReachableFrom
    <3>2. \A c \in DOMAIN list' : \A x \in Chain(next_hash', list'[c]) : Bucket(key[x], length) = c
      BY <3>1, <2>3
    <3> QED
      BY <3>2, <2>3, <2>5, <2>6, <1>1, <1>2, ChainsChange
  <2>8. SingleArray'
    BY <2>5, <2>6, <1>1, OneArrayNext
  <2>9. Members' = Members \ {e}
    <3>1. Members' = Entries(next_hash', list')
      BY <2>8 DEF SingleArray
    <3>2. Entries(next_hash', list') = Entries(next_hash, list) \ {e}
      BY <2>3 DEF Entries
    <3> QED
      BY <3>1, <3>2, <1>5
  <2>10. KeysOK'
    BY <2>9, <1>2 DEF IInv, KeysOK
  <2>11. ElemsExact'
    BY <2>4, <2>9, <1>1 DEF ElemsExact, Resizing
  <2> QED
    BY <1>4, <2>5, <2>6, <2>7, <2>9, <2>10, <2>11 DEF IInv, e
<1> QED
  BY <1>6, <1>7

(* The entry is linked where the search ended, after the entry it replaces *)
(* has been taken out.                                                     *)
LEMMA InsertLinks ==
  ASSUME IInv, Insert
  PROVE  /\ IsRoots(list') /\ DOMAIN list' = DOMAIN list /\ next_hash' \in Nexts
         /\ Forest(next_hash', list')
         /\ \A c \in DOMAIN list :
              Chain(next_hash', list'[c]) =
                (Chain(next_hash, list[c]) \ {At(ptr)})
                  \cup (IF c = Bucket(call.key, length) THEN {call.handle} ELSE {})
<1> DEFINE e == call.handle
           b == Bucket(call.key, length)
           o == At(ptr)
<1>1. /\ pc = "find" /\ ~Resizing /\ call.op = "Insert" /\ StopsAt(call.key, ptr)
  BY DEF Insert, Found, Resizing
<1>2. /\ SingleArray /\ Home \in Handles \cup {NULL} /\ Forest(next_hash, list)
      /\ b \in DOMAIN list /\ SlotOf(list, next_hash, b, ptr) /\ ValueAt(list, next_hash, ptr) = o
      /\ o \in Chain(next_hash, Home) \cup {NULL} /\ Chain(next_hash, Home) \subseteq Members
  BY <1>1, SearchPosition
<1>3. /\ Members \subseteq Handles /\ o \in Members \cup {NULL} /\ NULL \notin Handles
      /\ IsRoots(list) /\ next_hash \in Nexts
      /\ Members = Entries(next_hash, list)
  BY <1>2, EntriesClosed, HandleTableAssumption DEF SingleArray
<1>4. e \in Handles /\ e \notin Entries(next_hash, list)
  BY <1>1, <1>3 DEF IInv, SearchOK
<1>5. ptr = <<"list", b>> \/ \E x \in Chain(next_hash, list[b]) : ptr = <<"next", x>> /\ x # e
  BY <1>2, <1>3, <1>4, EntriesClosed DEF SlotOf
<1> DEFINE v == IF o = NULL THEN NULL ELSE next_hash[o]
<1>6. /\ list' = StoreList(list, ptr, e)
      /\ next_hash' = StoreNext(WithNext(next_hash, e, v), ptr, e)
  BY DEF Insert, Assign, StoreList, StoreNext, WithNext
<1> DEFINE m == list'
           ny == next_hash'
<1> HIDE DEF e, b, o, m, ny
<1>7. CASE o = NULL
  <2>1. m = StoreList(list, ptr, e) /\ ny = StoreNext(WithNext(next_hash, e, NULL), ptr, e)
    BY <1>6, <1>7 DEF m, ny
  <2>2. ValueAt(list, next_hash, ptr) = NULL
    BY <1>2, <1>7
  <2>3. /\ next_hash \in Nexts /\ IsRoots(list) /\ Forest(next_hash, list)
        /\ b \in DOMAIN list /\ SlotOf(list, next_hash, b, ptr)
    BY <1>2, <1>3
  <2>4. /\ IsRoots(m) /\ DOMAIN m = DOMAIN list /\ ny \in Nexts
        /\ Forest(ny, m)
        /\ Chain(ny, m[b]) = Chain(next_hash, list[b]) \cup {e}
        /\ \A c \in DOMAIN list \ {b} : Chain(ny, m[c]) = Chain(next_hash, list[c])
    BY <2>1, <2>2, <2>3, <1>4, SlotLinked
  <2>5. \A c \in DOMAIN list : NULL \notin Chain(next_hash, list[c])
    BY <1>3, EntriesClosed
  <2>6. \A c \in DOMAIN list :
          Chain(ny, m[c]) = (Chain(next_hash, list[c]) \ {o}) \cup (IF c = b THEN {e} ELSE {})
    BY <2>4, <2>5, <1>7
  <2> QED
    BY <2>4, <2>6 DEF m, ny, o, b, e
<1>8. CASE o # NULL
  <2> DEFINE l1 == StoreList(list, ptr, next_hash[o])
             n1 == StoreNext(next_hash, ptr, next_hash[o])
             w == next_hash[o]
  <2>1. m = StoreList(l1, ptr, e) /\ ny = StoreNext(WithNext(n1, e, w), ptr, e)
    <3>1. v = w /\ list' = StoreList(list, ptr, e) /\ ny = StoreNext(WithNext(next_hash, e, w), ptr, e)
      BY <1>6, <1>8 DEF ny
    <3> HIDE DEF v, w
    <3>2. CASE ptr = <<"list", b>>
      <4>1. StoreList(l1, ptr, e) = StoreList(list, ptr, e) /\ n1 = next_hash
        BY <3>2, <1>2, <1>3 DEF StoreList, StoreNext, IsRoots
      <4> QED
        BY <3>1, <4>1 DEF m
    <3>3. ASSUME NEW x \in Chain(next_hash, list[b]), ptr = <<"next", x>>, x # e
          PROVE  m = StoreList(l1, ptr, e) /\ ny = StoreNext(WithNext(n1, e, w), ptr, e)
      <4>1. x \in Handles
        BY <1>2, <1>3, EntriesClosed
      <4>2. [[next_hash EXCEPT ![e] = w] EXCEPT ![x] = e]
              = [[[next_hash EXCEPT ![x] = next_hash[o]] EXCEPT ![e] = w] EXCEPT ![x] = e]
        BY <4>1, <3>3, <1>3, <1>4 DEF Nexts
      <4>3. StoreNext(WithNext(n1, e, w), ptr, e) = StoreNext(WithNext(next_hash, e, w), ptr, e)
        BY <4>2, <3>3 DEF StoreNext, WithNext
      <4>4. l1 = list
        BY <3>3 DEF StoreList
      <4> QED
        BY <3>1, <4>3, <4>4 DEF m
    <3> QED
      BY <1>5, <3>2, <3>3
  <2>2. /\ next_hash \in Nexts /\ IsRoots(list) /\ Forest(next_hash, list)
        /\ b \in DOMAIN list /\ SlotOf(list, next_hash, b, ptr)
        /\ o \in Handles /\ ValueAt(list, next_hash, ptr) = o
    BY <1>2, <1>3, <1>8
  <2>3. l1 = StoreList(list, ptr, next_hash[o]) /\ n1 = StoreNext(next_hash, ptr, next_hash[o])
        /\ w = next_hash[o]
    OBVIOUS
  <2> HIDE DEF l1, n1, w
  <2>4. /\ IsRoots(l1) /\ DOMAIN l1 = DOMAIN list /\ n1 \in Nexts
        /\ Forest(n1, l1)
        /\ \A c \in DOMAIN list : Chain(n1, l1[c]) = Chain(next_hash, list[c]) \ {o}
        /\ SlotOf(l1, n1, b, ptr) /\ ValueAt(l1, n1, ptr) = w
    BY <2>2, <2>3, SlotUnlinked
  <2>5. e \notin Entries(n1, l1) /\ b \in DOMAIN l1
    BY <2>2, <2>4, <1>4 DEF Entries
  <2>6. /\ IsRoots(m) /\ DOMAIN m = DOMAIN l1 /\ ny \in Nexts
        /\ Forest(ny, m)
        /\ Chain(ny, m[b]) = Chain(n1, l1[b]) \cup {e}
        /\ \A c \in DOMAIN l1 \ {b} : Chain(ny, m[c]) = Chain(n1, l1[c])
    BY <2>1, <2>4, <2>5, <1>4, SlotLinked
  <2>7. \A c \in DOMAIN list :
          Chain(ny, m[c]) = (Chain(next_hash, list[c]) \ {o}) \cup (IF c = b THEN {e} ELSE {})
    BY <2>4, <2>6, <2>2
  <2> QED
    BY <2>4, <2>6, <2>7 DEF m, ny, o, b, e
<1> QED
  BY <1>7, <1>8

(* Insert puts the new entry in the place of the one it found, or at the   *)
(* end of the chain.                                                       *)
LEMMA InsertKeeps ==
  ASSUME IInv, Insert
  PROVE  /\ IInv'
         /\ Members' = (Members \ {At(ptr)}) \cup {call.handle}
<1> DEFINE e == call.handle
           b == Bucket(call.key, length)
           o == At(ptr)
<1>1. /\ pc = "find" /\ pc' \in {"idle", "resize"} /\ ~Resizing /\ ~Resizing'
      /\ call.op = "Insert" /\ StopsAt(call.key, ptr)
  BY DEF Insert, Found, Resizing
<1>2. /\ hash' = hash /\ key' = key /\ length' = length /\ call' = NULL /\ result' = o
      /\ new_list' = new_list /\ i' = i /\ h' = h /\ count' = count
      /\ elems' = elems + (IF o = NULL THEN 1 ELSE 0)
      /\ pc' = IF o = NULL /\ elems' > length THEN "resize" ELSE "idle"
  BY DEF Insert, Finish, resizing
<1>3. /\ SingleArray /\ Forest(next_hash, list) /\ b \in DOMAIN list
      /\ o \in Members \cup {NULL} /\ call \in Calls
  BY <1>1, SearchPosition
<1>4. /\ Members \subseteq Handles /\ NULL \notin Handles
      /\ IsRoots(list) /\ DOMAIN list = 0 .. length - 1
      /\ Members = Entries(next_hash, list)
  BY <1>3, EntriesClosed, HandleTableAssumption DEF SingleArray
<1>5. e \in Handles /\ e \notin Members /\ key[e] = call.key /\ call.key \in Keys
  BY <1>1, <1>3 DEF IInv, SearchOK, Calls
<1>6. SearchOK'
  BY <1>1 DEF SearchOK
<1>7. /\ IsRoots(list') /\ DOMAIN list' = DOMAIN list /\ next_hash' \in Nexts
      /\ Forest(next_hash', list')
      /\ \A c \in DOMAIN list :
           Chain(next_hash', list'[c]) =
             (Chain(next_hash, list[c]) \ {o}) \cup (IF c = b THEN {e} ELSE {})
  BY InsertLinks
<1>8. \A x \in Members \ {o} : key[x] # call.key
  BY <1>1, <1>3, SearchFinds DEF IInv, KeysOK
<1> HIDE DEF e, b, o
<1> DEFINE M == (Members \ {o}) \cup {e}
<1>9. elems' = Cardinality(M) /\ elems \in Nat /\ elems' \in Nat
  <2>1. elems = Cardinality(Members) /\ elems \in Nat
    BY DEF IInv, ElemsExact, TypeOK
  <2>2. Members \ {o} \subseteq Handles /\ e \notin Members \ {o}
    BY <1>4, <1>5
  <2>3. Cardinality(M) = Cardinality(Members \ {o}) + 1
    BY <2>2, MembersFinite
  <2>4. CASE o = NULL
    <3>1. Members \ {o} = Members
      BY <2>4, <1>4
    <3> QED
      BY <3>1, <2>1, <2>3, <2>4, <1>2
  <2>5. CASE o # NULL
    <3>1. Cardinality(Members \ {o}) = Cardinality(Members) - 1
      BY <2>5, <1>3, <1>4, MembersFinite
    <3> QED
      BY <3>1, <2>1, <2>3, <2>5, <1>2
  <2> QED
    BY <2>4, <2>5
<1>10. TypeOK'
  <2>1. list' \in [0 .. length' - 1 -> Handles \cup {NULL}]
    BY <1>2, <1>4, <1>7 DEF IsRoots
  <2> QED
    BY <2>1, <1>1, <1>2, <1>3, <1>4, <1>7, <1>9 DEF IInv, TypeOK, Nexts
<1>11. ArrayOK'
  BY <1>1, <1>2, <1>9 DEF IInv, ArrayOK, Resizing, TypeOK
<1>12. ForestOK' /\ InBucket'
  <2>1. \A c \in DOMAIN list : \A x \in Chain(next_hash, list[c]) : Bucket(key[x], length) = c
    BY <1>3 DEF IInv, InBucket, SingleArray, ReachableFrom
  <2>2. Bucket(key[e], length) = b
    BY <1>5 DEF b
  <2>3. \A c \in DOMAIN list' : \A x \in Chain(next_hash', list'[c]) : Bucket(key[x], length) = c
    BY <2>1, <2>2, <1>7
  <2> QED
    BY <2>3, <1>1, <1>2, <1>7, <1>10, <1>11, ChainsChange
<1>13. Members' = M
  <2>1. Members' = Entries(next_hash', list')
    BY <1>1, <1>10, <1>11, OneArrayNext DEF SingleArray
  <2>2. Entries(next_hash', list') = (Entries(next_hash, list) \ {o}) \cup {e}
    BY <1>3, <1>7 DEF Entries
  <2> QED
    BY <2>1, <2>2, <1>4
<1>14. KeysOK'
  BY <1>2, <1>5, <1>8, <1>13 DEF IInv, KeysOK
<1>15. ElemsExact'
  BY <1>1, <1>9, <1>13 DEF ElemsExact, Resizing
<1> QED
  BY <1>6, <1>10, <1>11, <1>12, <1>13, <1>14, <1>15 DEF IInv, e, o

(***************************************************************************)
(* Resize.                                                                 *)
(***************************************************************************)

(* The heads of the old and the new array as one family of heads.          *)
LEMMA RootsOfArrays ==
  ASSUME NEW old, NEW new, IsRoots(old), IsRoots(new)
  PROVE  /\ IsRoots(Roots(old, new))
         /\ \A b \in DOMAIN old : /\ <<"old", b>> \in DOMAIN Roots(old, new)
                                  /\ Roots(old, new)[<<"old", b>>] = old[b]
         /\ \A b \in DOMAIN new : /\ <<"new", b>> \in DOMAIN Roots(old, new)
                                  /\ Roots(old, new)[<<"new", b>>] = new[b]
         /\ \A s \in DOMAIN Roots(old, new) :
              \/ \E b \in DOMAIN old : s = <<"old", b>>
              \/ \E b \in DOMAIN new : s = <<"new", b>>
BY DEF IsRoots, Roots

(* The entries of both arrays together.                                    *)
LEMMA EntriesOfArrays ==
  ASSUME NEW old, NEW new, IsRoots(old), IsRoots(new), NEW nx
  PROVE  Entries(nx, Roots(old, new)) = Entries(nx, old) \cup Entries(nx, new)
<1> DEFINE r == Roots(old, new)
<1>1. /\ \A b \in DOMAIN old : <<"old", b>> \in DOMAIN r /\ r[<<"old", b>>] = old[b]
      /\ \A b \in DOMAIN new : <<"new", b>> \in DOMAIN r /\ r[<<"new", b>>] = new[b]
      /\ \A s \in DOMAIN r : \/ \E b \in DOMAIN old : s = <<"old", b>>
                             \/ \E b \in DOMAIN new : s = <<"new", b>>
  BY RootsOfArrays
<1> HIDE DEF r
<1>2. ASSUME NEW x \in Entries(nx, r) PROVE x \in Entries(nx, old) \cup Entries(nx, new)
  <2>1. PICK s \in DOMAIN r : x \in Chain(nx, r[s])
    BY DEF Entries
  <2>2. CASE \E b \in DOMAIN old : s = <<"old", b>>
    BY <1>1, <2>1, <2>2 DEF Entries
  <2>3. CASE \E b \in DOMAIN new : s = <<"new", b>>
    BY <1>1, <2>1, <2>3 DEF Entries
  <2> QED
    BY <1>1, <2>2, <2>3
<1>3. ASSUME NEW x \in Entries(nx, old) PROVE x \in Entries(nx, r)
  <2>1. PICK b \in DOMAIN old : x \in Chain(nx, old[b])
    BY DEF Entries
  <2>2. <<"old", b>> \in DOMAIN r /\ x \in Chain(nx, r[<<"old", b>>])
    BY <1>1, <2>1
  <2> QED
    BY <2>2 DEF Entries
<1>4. ASSUME NEW x \in Entries(nx, new) PROVE x \in Entries(nx, r)
  <2>1. PICK b \in DOMAIN new : x \in Chain(nx, new[b])
    BY DEF Entries
  <2>2. <<"new", b>> \in DOMAIN r /\ x \in Chain(nx, r[<<"new", b>>])
    BY <1>1, <2>1
  <2> QED
    BY <2>2 DEF Entries
<1> QED
  BY <1>2, <1>3, <1>4 DEF r

(* During Resize, the table is the rest of the old array and the new one.  *)
TwoArrays ==
  /\ DOMAIN Old = OldBuckets /\ \A b \in OldBuckets : Old[b] = OldHead(b)
  /\ IsRoots(Old) /\ IsRoots(new_list)
  /\ next_hash \in Nexts
  /\ OldEntries = Entries(next_hash, Old)
  /\ NewEntries = Entries(next_hash, new_list)
  /\ Members = Entries(next_hash, Roots(Old, new_list))

(* During Resize the chains hang on what is left of list_ and on new_list. *)
LEMMA ArraysOfResize == TypeOK /\ ArrayOK /\ Resizing => TwoArrays
<1> SUFFICES ASSUME TypeOK, ArrayOK, Resizing
             PROVE  TwoArrays
  OBVIOUS
<1>1. DOMAIN Old = OldBuckets /\ \A b \in OldBuckets : Old[b] = OldHead(b)
  BY DEF Old
<1>2. \A b \in OldBuckets : OldHead(b) \in Handles \cup {NULL}
  BY DEF TypeOK, OldBuckets, OldHead
<1>3. IsRoots(Old)
  BY <1>1, <1>2 DEF Old, IsRoots
<1>4. IsRoots(new_list) /\ next_hash \in Nexts
  BY DEF TypeOK, Nexts, IsRoots
<1>5. OldEntries = Entries(next_hash, Old)
  BY <1>1 DEF OldEntries, ReachableFrom, Entries
<1>6. NewEntries = Entries(next_hash, new_list)
  BY <1>1 DEF NewEntries, ReachableFrom, Entries
<1>7. Members = Entries(next_hash, Roots(Old, new_list))
  BY <1>3, <1>4, <1>5, <1>6, EntriesOfArrays DEF Members
<1> QED
  BY <1>1, <1>3, <1>4, <1>5, <1>6, <1>7 DEF TwoArrays

(* ArraysOfResize in the next state.                                       *)
LEMMA ArraysOfResizeNext == (TypeOK /\ ArrayOK /\ Resizing)' => TwoArrays'
BY ArraysOfResize, PTL

(* Entries of the table are handles; those of the new array are entries of *)
(* the table.                                                              *)
LEMMA MembersAreHandles == ASSUME IInv PROVE Members \subseteq Handles /\ NewEntries \subseteq Members
<1>1. CASE Resizing
  <2>1. TwoArrays
    BY <1>1, ArraysOfResize DEF IInv
  <2>2. IsRoots(Roots(Old, new_list))
    BY <2>1, RootsOfArrays DEF TwoArrays
  <2> QED
    BY <2>1, <2>2, EntriesClosed DEF TwoArrays, Members
<1>2. CASE ~Resizing
  BY <1>2, OneArray, EntriesClosed DEF IInv, SingleArray
<1> QED
  BY <1>1, <1>2

(* The new array begins empty, and longer than the number of entries.      *)
LEMMA ResizeStartKeeps ==
  ASSUME IInv, ResizeStart
  PROVE  IInv' /\ Members' = Members
<1>1. pc = "resize" /\ pc' = "bucket" /\ ~Resizing /\ Resizing'
  BY DEF ResizeStart, Resizing
<1>2. /\ hash' = hash /\ key' = key /\ next_hash' = next_hash /\ list' = list /\ length' = length
      /\ elems' = elems /\ call' = call /\ ptr' = ptr /\ result' = result
      /\ i' = 0 /\ h' = NULL /\ count' = 0 /\ new_list' = EmptyList(NewLength)
  BY DEF ResizeStart, entries, array
<1>3. SingleArray /\ Forest(next_hash, list)
  BY <1>1, OneArray DEF IInv, ForestOK
<1>4. elems \in 0 .. Cardinality(Handles)
  <2>1. Members \subseteq Handles /\ elems = Cardinality(Members)
    BY MembersAreHandles DEF IInv, ElemsExact
  <2> QED
    BY <2>1, MembersFinite, MinLengthPower
<1>5. NewLength \in Nat \ {0} /\ NewLength' = NewLength
  BY <1>2, <1>4, NewLengthFits DEF NewLength
<1>6. /\ DOMAIN new_list' = 0 .. NewLength - 1 /\ \A b \in DOMAIN new_list' : new_list'[b] = NULL
      /\ new_list' \in [DOMAIN new_list' -> Handles \cup {NULL}]
  BY <1>2, <1>5 DEF EmptyList
<1>7. TypeOK'
  BY <1>1, <1>2, <1>3, <1>6 DEF IInv, TypeOK, SingleArray
<1>8. ArrayOK'
  BY <1>1, <1>2, <1>5, <1>6 DEF IInv, ArrayOK, Resizing
<1>9. TwoArrays'
  BY <1>1, <1>7, <1>8, ArraysOfResizeNext
<1>10. /\ DOMAIN Old' = DOMAIN list /\ \A b \in DOMAIN list : Old'[b] = list[b]
       /\ OldBuckets' = OldBuckets /\ \A b \in OldBuckets : OldHead(b)' = OldHead(b)
  <2>1. OldBuckets' = OldBuckets /\ \A b \in OldBuckets : OldHead(b)' = OldHead(b)
    BY <1>1, <1>2, <1>3 DEF OldBuckets, OldHead, SingleArray
  <2>2. \A b \in OldBuckets : Old'[b] = OldHead(b)'
    BY <2>1, <1>9 DEF TwoArrays
  <2> QED
    BY <2>1, <2>2, <1>3, <1>9 DEF TwoArrays, SingleArray
<1>11. NewEntries' = {} /\ Members' = Members
  <2>1. NewEntries' = {}
    BY <1>6, <1>9, EmptyChain DEF TwoArrays, Entries
  <2>2. OldEntries' = OldEntries
    BY <1>2, <1>10 DEF OldEntries, ReachableFrom
  <2> QED
    BY <2>1, <2>2, <1>3 DEF Members, SingleArray
<1>12. ForestOK'
  <2> DEFINE old1 == Old'  new1 == new_list'  q == Roots(old1, new1)
             f == [s \in DOMAIN q |-> s[2]]
  <2>1. /\ \A b \in DOMAIN old1 : <<"old", b>> \in DOMAIN q /\ q[<<"old", b>>] = old1[b]
        /\ \A b \in DOMAIN new1 : <<"new", b>> \in DOMAIN q /\ q[<<"new", b>>] = new1[b]
        /\ \A s \in DOMAIN q : \/ \E b \in DOMAIN old1 : s = <<"old", b>>
                               \/ \E b \in DOMAIN new1 : s = <<"new", b>>
    <3>1. IsRoots(old1) /\ IsRoots(new1)
      BY <1>9 DEF TwoArrays
    <3> HIDE DEF old1, new1
    <3> QED
      BY <3>1, RootsOfArrays
  <2>2. \A s \in DOMAIN q : \/ q[s] = NULL
                            \/ f[s] \in DOMAIN list /\ q[s] = list[f[s]] /\ s = <<"old", f[s]>>
    <3> HIDE DEF q
    <3>1. \A s \in DOMAIN q : f[s] = s[2]
      OBVIOUS
    <3> HIDE DEF f
    <3> QED
      BY <3>1, <2>1, <1>6, <1>10
  <2> HIDE DEF f, q
  <2>3. \A s, t \in DOMAIN q : s # t /\ q[s] # NULL /\ q[t] # NULL => f[s] # f[t]
    BY <2>2
  <2>4. next_hash \in Nexts /\ IsRoots(list)
    BY <1>3 DEF SingleArray
  <2>5. Forest(next_hash, q)
    BY <2>2, <2>3, <2>4, <1>3, Regroup
  <2> QED
    BY <2>5, <1>1, <1>2 DEF ForestOK, q, old1, new1
<1>13. InBucket'
  BY <1>2, <1>6, <1>10, EmptyChain DEF IInv, InBucket, ReachableFrom, Bucket
<1>14. KeysOK'
  BY <1>2, <1>11 DEF IInv, KeysOK
<1>15. ElemsExact'
  <2>1. elems' = Cardinality(Members') /\ count' = Cardinality(NewEntries')
    BY <1>2, <1>11, FS_EmptySet DEF IInv, ElemsExact
  <2>2. i' = length' => elems' = count'
    <3>1. ASSUME length = 0 PROVE Members = {}
      <4>1. OldBuckets = {} /\ NewEntries = {}
        BY <1>3, <3>1 DEF SingleArray
      <4> QED
        BY <4>1 DEF Members, OldEntries
    <3> QED
      BY <3>1, <2>1, <1>2, <1>11
  <2> QED
    BY <2>1, <2>2, <1>1 DEF ElemsExact
<1>16. SearchOK'
  BY <1>1 DEF SearchOK
<1> QED
  BY <1>7, <1>8, <1>11, <1>12, <1>13, <1>14, <1>15, <1>16 DEF IInv

(* When the outer loop has ended, every entry is in the new array.         *)
LEMMA AllMoved == TypeOK /\ i = length => Members = NewEntries
<1> SUFFICES ASSUME TypeOK, i = length
             PROVE  Members = NewEntries
  OBVIOUS
<1>1. OldBuckets = {}
  BY DEF TypeOK, OldBuckets
<1>2. OldEntries = {}
  BY <1>1 DEF OldEntries
<1> QED
  BY <1>2 DEF Members

(* When the last bucket is done, the new array has all entries.            *)
LEMMA AllMovedNext == (TypeOK /\ i = length)' => (Members = NewEntries)'
BY AllMoved, PTL

(* The loops of Resize leave out empty chains only.                        *)
LEMMA OldShrinks ==
  ASSUME IInv, Resizing, Resizing', pc' # "find", TypeOK', ArrayOK',
         UNCHANGED <<hash, key, next_hash, elems, length, new_list, count>>,
         OldBuckets' \subseteq OldBuckets,
         \A b \in OldBuckets' : OldHead(b)' = OldHead(b),
         \A b \in OldBuckets \ OldBuckets' : OldHead(b) = NULL
  PROVE  IInv' /\ Members' = Members
<1>1. TwoArrays /\ TwoArrays'
  BY ArraysOfResize, ArraysOfResizeNext DEF IInv
<1>2. OldEntries' = OldEntries
  <2>1. \A b \in OldBuckets \ OldBuckets' : Chain(next_hash, OldHead(b)) = {}
    BY EmptyChain
  <2> QED
    BY <2>1 DEF OldEntries, ReachableFrom
<1>3. NewEntries' = NewEntries /\ Members' = Members
  BY <1>1, <1>2 DEF TwoArrays, Members
<1>4. ForestOK'
  <2> DEFINE r == Roots(Old, new_list)
             old1 == Old'
             q == Roots(old1, new_list)
             f == [s \in DOMAIN q |-> s]
  <2>1. /\ IsRoots(Old) /\ IsRoots(old1) /\ IsRoots(new_list) /\ next_hash \in Nexts
        /\ \A b \in DOMAIN old1 : old1[b] = NULL \/ (b \in DOMAIN Old /\ old1[b] = Old[b])
    BY <1>1 DEF TwoArrays
  <2>2. Forest(next_hash, r)
    BY DEF IInv, ForestOK
  <2> HIDE DEF old1
  <2>3. /\ IsRoots(r)
        /\ \A b \in DOMAIN Old : <<"old", b>> \in DOMAIN r /\ r[<<"old", b>>] = Old[b]
        /\ \A b \in DOMAIN new_list : <<"new", b>> \in DOMAIN r /\ r[<<"new", b>>] = new_list[b]
    BY <2>1, RootsOfArrays
  <2>4. /\ \A b \in DOMAIN old1 : q[<<"old", b>>] = old1[b]
        /\ \A b \in DOMAIN new_list : q[<<"new", b>>] = new_list[b]
        /\ \A s \in DOMAIN q : \/ \E b \in DOMAIN old1 : s = <<"old", b>>
                               \/ \E b \in DOMAIN new_list : s = <<"new", b>>
    BY <2>1, RootsOfArrays
  <2> HIDE DEF q, r
  <2>5. \A s \in DOMAIN q : q[s] = NULL \/ (f[s] \in DOMAIN r /\ q[s] = r[f[s]])
    BY <2>1, <2>3, <2>4
  <2>6. \A s, t \in DOMAIN q : s # t /\ q[s] # NULL /\ q[t] # NULL => f[s] # f[t]
    OBVIOUS
  <2> HIDE DEF f
  <2>8. next_hash \in Nexts /\ IsRoots(r) /\ Forest(next_hash, r)
    BY <2>1, <2>2, <2>3
  <2>7. Forest(next_hash, q)
    BY <2>5, <2>6, <2>8, Regroup
  <2> QED
    BY <2>7 DEF ForestOK, q, old1
<1>5. InBucket'
  BY DEF IInv, InBucket, ReachableFrom, Bucket
<1>6. KeysOK' /\ SearchOK'
  BY <1>3 DEF IInv, KeysOK, SearchOK
<1>7. ElemsExact'
  <2>1. elems' = Cardinality(Members') /\ count' = Cardinality(NewEntries')
    BY <1>3 DEF IInv, ElemsExact, Resizing
  <2>2. i' = length' => Members' = NewEntries'
    BY AllMovedNext
  <2> QED
    BY <2>1, <2>2 DEF ElemsExact
<1> QED
  BY <1>3, <1>4, <1>5, <1>6, <1>7 DEF IInv

(* Taking up the next bucket changes no chain.                             *)
LEMMA ResizeBucketKeeps ==
  ASSUME IInv, ResizeBucket
  PROVE  IInv' /\ Members' = Members
<1>1. pc = "bucket" /\ pc' = "chain" /\ Resizing /\ Resizing' /\ i < length /\ h' = list[i]
  BY DEF ResizeBucket, Resizing
<1>2. /\ hash' = hash /\ key' = key /\ next_hash' = next_hash /\ list' = list /\ length' = length
      /\ elems' = elems /\ call' = call /\ ptr' = ptr /\ result' = result
      /\ i' = i /\ count' = count /\ new_list' = new_list
  BY DEF ResizeBucket, entries, array
<1>3. list[i] \in Handles \cup {NULL}
  BY <1>1 DEF IInv, TypeOK
<1>4. TypeOK'
  BY <1>1, <1>2, <1>3 DEF IInv, TypeOK
<1>5. ArrayOK'
  BY <1>1, <1>2 DEF IInv, ArrayOK, Resizing, NewLength
<1>6. OldBuckets' = OldBuckets /\ \A b \in OldBuckets : OldHead(b)' = OldHead(b)
  BY <1>1, <1>2 DEF OldBuckets, OldHead
<1> QED
  BY <1>1, <1>2, <1>4, <1>5, <1>6, OldShrinks

(* At the end of a chain its bucket is done.                               *)
LEMMA ResizeChainEndKeeps ==
  ASSUME IInv, ResizeChainEnd
  PROVE  IInv' /\ Members' = Members
<1>1. pc = "chain" /\ pc' = "bucket" /\ Resizing /\ Resizing' /\ h = NULL /\ i' = i + 1
  BY DEF ResizeChainEnd, Resizing
<1>2. /\ hash' = hash /\ key' = key /\ next_hash' = next_hash /\ list' = list /\ length' = length
      /\ elems' = elems /\ call' = call /\ ptr' = ptr /\ result' = result
      /\ h' = h /\ count' = count /\ new_list' = new_list
  BY DEF ResizeChainEnd, entries, array
<1>3. i \in 0 .. length /\ i < length /\ length \in Nat
  BY <1>1 DEF IInv, TypeOK, ArrayOK
<1>4. TypeOK'
  BY <1>1, <1>2, <1>3 DEF IInv, TypeOK
<1>5. ArrayOK'
  BY <1>1, <1>2 DEF IInv, ArrayOK, Resizing, NewLength
<1>6. /\ OldBuckets' \subseteq OldBuckets
      /\ \A b \in OldBuckets' : OldHead(b)' = OldHead(b)
      /\ \A b \in OldBuckets \ OldBuckets' : OldHead(b) = NULL
  BY <1>1, <1>2, <1>3 DEF OldBuckets, OldHead
<1> QED
  BY <1>1, <1>2, <1>4, <1>5, <1>6, OldShrinks

(* The new array has the length Resize chose.                              *)
LEMMA NewArray ==
  ASSUME IInv, Resizing
  PROVE  /\ NewLength \in Nat \ {0} /\ NewLength >= elems
         /\ \E d \in 0 .. NewLength : NewLength = 2^d
         /\ DOMAIN new_list = 0 .. NewLength - 1
         /\ Cardinality(DOMAIN new_list) = NewLength
<1>1. elems \in 0 .. Cardinality(Handles)
  <2>1. Members \subseteq Handles /\ elems = Cardinality(Members)
    BY MembersAreHandles DEF IInv, ElemsExact
  <2> QED
    BY <2>1, MembersFinite, MinLengthPower
<1>2. /\ NewLength \in Nat \ {0} /\ NewLength >= elems
      /\ \E d \in 0 .. NewLength : NewLength = 2^d
  BY <1>1, NewLengthFits
<1>3. DOMAIN new_list = 0 .. NewLength - 1
  BY DEF IInv, ArrayOK
<1>4. Cardinality(0 .. NewLength - 1) = NewLength
  <2>1. 0 \in Int /\ NewLength - 1 \in Int
    BY <1>2
  <2> QED
    BY <2>1, <1>2, FS_Interval
<1> QED
  BY <1>2, <1>3, <1>4

(* The entry the inner loop moves leaves the chain of h for a new one.     *)
LEMMA MoveLinks ==
  ASSUME IInv, ResizeMove, TwoArrays'
  PROVE  /\ h \in Handles /\ h \in OldEntries /\ h \notin NewEntries
         /\ NewBucket \in DOMAIN new_list
         /\ Forest(next_hash', Roots(Old', new_list'))
         /\ \A b \in OldBuckets :
              Chain(next_hash', Old'[b]) = Chain(next_hash, Old[b]) \ {h}
         /\ \A b \in DOMAIN new_list :
              Chain(next_hash', new_list'[b]) =
                Chain(next_hash, new_list[b]) \cup (IF b = NewBucket THEN {h} ELSE {})
<1>1. pc = "chain" /\ pc' = "chain" /\ Resizing /\ h # NULL /\ i' = i /\ h' = next_hash[h]
  BY DEF ResizeMove, Resizing
<1>2. /\ next_hash' = [next_hash EXCEPT ![h] = new_list[NewBucket]]
      /\ new_list' = [new_list EXCEPT ![NewBucket] = h]
  BY DEF ResizeMove, Push
<1>3. TwoArrays /\ Forest(next_hash, Roots(Old, new_list))
  BY <1>1, ArraysOfResize DEF IInv, ForestOK
<1>4. /\ h \in Handles /\ next_hash \in Nexts /\ IsRoots(Old) /\ IsRoots(new_list)
      /\ DOMAIN Old = OldBuckets /\ i \in OldBuckets /\ Old[i] = h
      /\ \A b \in OldBuckets \ {i} : Old[b] = list[b]
  BY <1>1, <1>3 DEF IInv, TypeOK, ArrayOK, TwoArrays, OldBuckets, OldHead
<1>5. /\ IsRoots(Old') /\ IsRoots(new_list') /\ next_hash' \in Nexts
      /\ DOMAIN Old' = OldBuckets /\ Old'[i] = next_hash[h]
      /\ \A b \in OldBuckets \ {i} : Old'[b] = Old[b]
  <2>1. OldBuckets' = OldBuckets /\ list' = list
    BY <1>1 DEF OldBuckets, ResizeMove, array
  <2>2. OldHead(i)' = h' /\ \A b \in OldBuckets \ {i} : OldHead(b)' = list[b]
    BY <2>1, <1>1 DEF OldHead
  <2>3. /\ IsRoots(Old') /\ IsRoots(new_list') /\ next_hash' \in Nexts
        /\ DOMAIN Old' = OldBuckets /\ \A b \in OldBuckets : Old'[b] = OldHead(b)'
    BY <2>1 DEF TwoArrays
  <2> QED
    BY <2>2, <2>3, <1>1, <1>4
<1> DEFINE e == h
           nb == NewBucket
           r == Roots(Old, new_list)
           old1 == Old'
           new1 == new_list'
           q == Roots(old1, new1)
           d == <<"old", i>>
           c0 == <<"new", nb>>
           r1 == [r EXCEPT ![d] = next_hash[e]]
           ny == next_hash'
<1>6. /\ IsRoots(r) /\ d \in DOMAIN r /\ r[d] = e
      /\ \A b \in OldBuckets : <<"old", b>> \in DOMAIN r /\ r[<<"old", b>>] = Old[b]
      /\ \A b \in DOMAIN new_list : <<"new", b>> \in DOMAIN r /\ r[<<"new", b>>] = new_list[b]
      /\ \A s \in DOMAIN r : \/ \E b \in OldBuckets : s = <<"old", b>>
                             \/ \E b \in DOMAIN new_list : s = <<"new", b>>
  BY <1>4, RootsOfArrays
<1>7. DOMAIN new1 = DOMAIN new_list
  BY <1>2
<1>8. /\ \A b \in OldBuckets : <<"old", b>> \in DOMAIN q /\ q[<<"old", b>>] = old1[b]
      /\ \A b \in DOMAIN new_list : <<"new", b>> \in DOMAIN q /\ q[<<"new", b>>] = new1[b]
      /\ \A s \in DOMAIN q : \/ \E b \in OldBuckets : s = <<"old", b>>
                             \/ \E b \in DOMAIN new_list : s = <<"new", b>>
  <2>1. IsRoots(old1) /\ IsRoots(new1) /\ DOMAIN old1 = OldBuckets
    BY <1>5
  <2> HIDE DEF old1, new1
  <2> QED
    BY <2>1, <1>7, RootsOfArrays
<1>9. e \in Entries(next_hash, Old) /\ e \in Entries(next_hash, r) /\ e \in Members
  <2>1. e \in Chain(next_hash, Old[i])
    BY <1>4, ChainClosed, HandleTableAssumption
  <2>2. e \in Entries(next_hash, Old)
    BY <2>1, <1>4 DEF Entries
  <2>3. e \in Members
    BY <2>2, <1>3 DEF TwoArrays, Members
  <2> QED
    BY <2>2, <2>3, <1>3 DEF TwoArrays
<1>10. nb \in DOMAIN new_list
  <2>1. key[h] \in Keys /\ hash \in [Keys -> HashValues]
    BY <1>9 DEF IInv, KeysOK, TypeOK
  <2> QED
    BY <2>1, <1>1, NewArray, BucketInRange DEF NewBucket
<1>11. /\ DOMAIN r1 = DOMAIN r /\ r1[d] = next_hash[e] /\ \A c \in DOMAIN r \ {d} : r1[c] = r[c]
       /\ IsRoots(r1)
  BY <1>4, <1>6 DEF IsRoots, Nexts
<1> HIDE DEF r, r1
<1>12. Forest(next_hash, r)
  BY <1>3 DEF r
<1>13. /\ \A c \in DOMAIN r : Chain(next_hash, r1[c]) = Chain(next_hash, r[c]) \ {e}
       /\ Forest(next_hash, r1)
  <2> HIDE DEF d
  <2> QED
    BY <1>4, <1>6, <1>11, <1>12, UnlinkRoot
<1>14. e \notin Entries(next_hash, r1)
  BY <1>11, <1>13 DEF Entries
<1>15. c0 \in DOMAIN r /\ c0 # d /\ r[c0] = new_list[nb]
  BY <1>6, <1>10
<1>16. Pushed(next_hash, r1, c0, e, ny, q)
  <2>1. ny[e] = r1[c0] /\ \A y \in Handles \ {e} : ny[y] = next_hash[y]
    BY <1>2, <1>4, <1>11, <1>15 DEF Nexts
  <2>2. q[c0] = e
    BY <1>2, <1>8, <1>10
  <2> HIDE DEF q, old1, new1
  <2>3. DOMAIN q = DOMAIN r1
    BY <1>6, <1>8, <1>11
  <2>4. ASSUME NEW c \in DOMAIN r \ {c0} PROVE q[c] = r1[c]
    <3>1. CASE c = d
      BY <3>1, <1>4, <1>5, <1>8, <1>11 DEF old1
    <3>2. ASSUME NEW b \in OldBuckets, c = <<"old", b>>, b # i PROVE q[c] = r1[c]
      BY <3>2, <1>5, <1>6, <1>8, <1>11 DEF old1
    <3>3. ASSUME NEW b \in DOMAIN new_list, c = <<"new", b>>, b # nb PROVE q[c] = r1[c]
      <4>1. new1[b] = new_list[b]
        BY <3>3, <1>2 DEF new1
      <4> QED
        BY <3>3, <4>1, <1>6, <1>8, <1>11
    <3> QED
      BY <3>1, <3>2, <3>3, <1>6
  <2> QED
    BY <2>1, <2>2, <2>3, <2>4, <1>11 DEF Pushed
<1>17. /\ Chain(ny, q[c0]) = Chain(next_hash, r1[c0]) \cup {e}
       /\ \A c \in DOMAIN r1 \ {c0} : Chain(ny, q[c]) = Chain(next_hash, r1[c])
       /\ Forest(ny, q)
  <2>1. ny \in Nexts /\ c0 \in DOMAIN r1
    BY <1>5, <1>11, <1>15
  <2> HIDE DEF ny, q, c0
  <2> QED
    BY <2>1, <1>4, <1>11, <1>13, <1>14, <1>16, LinkRoot
<1>18. \A c \in DOMAIN r \ {d} : e \notin Chain(next_hash, r[c])
  <2>1. e \in Chain(next_hash, r[d])
    BY <1>4, <1>6, ChainClosed, HandleTableAssumption
  <2> QED
    BY <2>1, <1>6, <1>12 DEF Forest
<1> HIDE DEF q, ny, old1, new1
<1>19. \A b \in OldBuckets : Chain(ny, old1[b]) = Chain(next_hash, Old[b]) \ {e}
  <2> TAKE b \in OldBuckets
  <2>1. <<"old", b>> \in DOMAIN r1 \ {c0}
    BY <1>6, <1>11
  <2> QED
    BY <2>1, <1>6, <1>8, <1>11, <1>13, <1>17
<1>20. \A b \in DOMAIN new_list :
         Chain(ny, new1[b]) = Chain(next_hash, new_list[b]) \cup (IF b = nb THEN {e} ELSE {})
  <2> TAKE b \in DOMAIN new_list
  <2>1. <<"new", b>> \in DOMAIN r \ {d}
    BY <1>6
  <2>2. Chain(next_hash, r1[<<"new", b>>]) = Chain(next_hash, new_list[b])
    BY <2>1, <1>6, <1>13, <1>18
  <2>3. CASE b = nb
    BY <2>2, <2>3, <1>8, <1>17
  <2>4. CASE b # nb
    BY <2>1, <2>2, <2>4, <1>8, <1>11, <1>17
  <2> QED
    BY <2>3, <2>4
<1>21. h \in OldEntries
  BY <1>3, <1>9 DEF TwoArrays
<1>22. h \notin NewEntries
  <2> SUFFICES ASSUME NEW b \in DOMAIN new_list, e \in Chain(next_hash, new_list[b])
               PROVE  FALSE
    BY <1>3 DEF TwoArrays, Entries
  <2>1. <<"new", b>> \in DOMAIN r \ {d} /\ r[<<"new", b>>] = new_list[b]
    BY <1>6
  <2> QED
    BY <2>1, <1>18
<1> QED
  BY <1>4, <1>10, <1>17, <1>19, <1>20, <1>21, <1>22 DEF q, ny, old1, new1

(* One entry moves from the head of the old chain to the head of its new   *)
(* one.                                                                    *)
LEMMA ResizeMoveKeeps ==
  ASSUME IInv, ResizeMove
  PROVE  IInv' /\ Members' = Members
<1>1. pc = "chain" /\ pc' = "chain" /\ Resizing /\ Resizing' /\ h # NULL
  BY DEF ResizeMove, Resizing
<1>2. /\ hash' = hash /\ key' = key /\ list' = list /\ length' = length
      /\ elems' = elems /\ call' = call /\ ptr' = ptr /\ result' = result
      /\ i' = i /\ h' = next_hash[h] /\ count' = count + 1
      /\ next_hash' = [next_hash EXCEPT ![h] = new_list[NewBucket]]
      /\ new_list' = [new_list EXCEPT ![NewBucket] = h]
  BY DEF ResizeMove, Push, array
<1>3. TwoArrays
  BY <1>1, ArraysOfResize DEF IInv
<1>4. h \in Handles /\ h \in Members /\ next_hash \in Nexts
  <2>1. h \in Handles /\ Old[i] = h /\ i \in DOMAIN Old
    BY <1>1, <1>3 DEF IInv, TypeOK, ArrayOK, TwoArrays, OldBuckets, OldHead
  <2>2. h \in Chain(next_hash, Old[i])
    BY <2>1, <1>3, ChainClosed, HandleTableAssumption DEF TwoArrays
  <2> QED
    BY <2>1, <2>2, <1>3 DEF TwoArrays, Members, Entries
<1>5. NewBucket \in DOMAIN new_list
  <2>1. key[h] \in Keys /\ hash \in [Keys -> HashValues]
    BY <1>4 DEF IInv, KeysOK, TypeOK
  <2> QED
    BY <2>1, <1>1, NewArray, BucketInRange DEF NewBucket
<1>6. TypeOK'
  <2>1. next_hash' \in [Handles -> Handles \cup {NULL}] /\ h' \in Handles \cup {NULL}
    BY <1>2, <1>4, <1>5 DEF IInv, TypeOK
  <2>2. new_list' \in [DOMAIN new_list' -> Handles \cup {NULL}]
    BY <1>2, <1>4, <1>5 DEF IInv, TypeOK
  <2> QED
    BY <2>1, <2>2, <1>1, <1>2 DEF IInv, TypeOK
<1>7. ArrayOK'
  BY <1>1, <1>2 DEF IInv, ArrayOK, Resizing, NewLength
<1>8. TwoArrays'
  BY <1>1, <1>6, <1>7, ArraysOfResizeNext
<1>9. /\ h \in OldEntries /\ h \notin NewEntries
      /\ Forest(next_hash', Roots(Old', new_list'))
      /\ \A b \in OldBuckets :
           Chain(next_hash', Old'[b]) = Chain(next_hash, Old[b]) \ {h}
      /\ \A b \in DOMAIN new_list :
           Chain(next_hash', new_list'[b]) =
             Chain(next_hash, new_list[b]) \cup (IF b = NewBucket THEN {h} ELSE {})
  BY <1>8, MoveLinks
<1>10. OldBuckets' = OldBuckets /\ DOMAIN new_list' = DOMAIN new_list
  BY <1>2 DEF OldBuckets
<1>11. OldEntries' = OldEntries \ {h}
  <2>1. OldEntries' = UNION {Chain(next_hash', Old'[b]) : b \in OldBuckets}
    BY <1>8, <1>10 DEF TwoArrays, Entries
  <2>2. OldEntries = UNION {Chain(next_hash, Old[b]) : b \in OldBuckets}
    BY <1>3 DEF TwoArrays, Entries
  <2> QED
    BY <2>1, <2>2, <1>9
<1>12. NewEntries' = NewEntries \cup {h}
  <2>1. NewEntries' = UNION {Chain(next_hash', new_list'[b]) : b \in DOMAIN new_list}
    BY <1>8, <1>10 DEF TwoArrays, Entries
  <2>2. NewEntries = UNION {Chain(next_hash, new_list[b]) : b \in DOMAIN new_list}
    BY <1>3 DEF TwoArrays, Entries
  <2> QED
    BY <2>1, <2>2, <1>5, <1>9
<1>13. Members' = Members
  BY <1>9, <1>11, <1>12 DEF Members
<1>14. ForestOK'
  BY <1>1, <1>9 DEF ForestOK
<1>15. InBucket'
  <2>1. ASSUME NEW b \in OldBuckets', NEW x \in ReachableFrom(OldHead(b))'
        PROVE  Bucket(key[x], length)' = b
    <3>1. x \in Chain(next_hash', Old'[b])
      BY <2>1, <1>8 DEF TwoArrays, ReachableFrom
    <3>2. x \in ReachableFrom(OldHead(b))
      BY <3>1, <1>3, <1>9, <1>10 DEF TwoArrays, ReachableFrom
    <3> QED
      BY <3>2, <1>2, <1>10 DEF IInv, InBucket, Bucket
  <2>2. ASSUME NEW b \in DOMAIN new_list', NEW x \in ReachableFrom(new_list[b])'
        PROVE  Bucket(key[x], Cardinality(DOMAIN new_list))' = b
    <3>1. x \in Chain(next_hash, new_list[b]) \cup (IF b = NewBucket THEN {h} ELSE {})
      BY <1>9, <1>10 DEF ReachableFrom
    <3>2. Bucket(key[x], Cardinality(DOMAIN new_list)) = b
      BY <3>1, <1>10 DEF IInv, InBucket, ReachableFrom, NewBucket
    <3> QED
      BY <3>2, <1>2, <1>10 DEF Bucket
  <2> QED
    BY <2>1, <2>2 DEF InBucket
<1>16. KeysOK' /\ SearchOK'
  BY <1>1, <1>2, <1>13 DEF IInv, KeysOK, SearchOK
<1>17. ElemsExact'
  <2>1. count = Cardinality(NewEntries) /\ elems = Cardinality(Members)
    BY <1>1 DEF IInv, ElemsExact
  <2>2. NewEntries \subseteq Handles
    BY MembersAreHandles
  <2>3. Cardinality(NewEntries \cup {h}) = Cardinality(NewEntries) + 1
    BY <2>2, <1>9, MembersFinite
  <2> QED
    BY <2>1, <2>3, <1>1, <1>2, <1>12, <1>13 DEF ElemsExact
<1> QED
  BY <1>6, <1>7, <1>13, <1>14, <1>15, <1>16, <1>17 DEF IInv

(* The new array takes the place of the old one with all entries in it.    *)
LEMMA ResizeFinishKeeps ==
  ASSUME IInv, ResizeFinish
  PROVE  IInv' /\ Members' = Members
<1>1. pc = "bucket" /\ pc' = "idle" /\ Resizing /\ ~Resizing' /\ i = length
  BY DEF ResizeFinish, Resizing
<1>2. /\ hash' = hash /\ key' = key /\ next_hash' = next_hash
      /\ list' = new_list /\ length' = Cardinality(DOMAIN new_list)
      /\ elems' = elems /\ call' = call /\ ptr' = ptr /\ result' = result
      /\ h' = h /\ new_list' = EmptyList(0) /\ i' = 0 /\ count' = 0
  BY DEF ResizeFinish, entries
<1>3. /\ NewLength \in Nat \ {0} /\ NewLength >= elems
      /\ \E d \in 0 .. NewLength : NewLength = 2^d
      /\ DOMAIN list' = 0 .. NewLength - 1 /\ length' = NewLength
      /\ Cardinality(DOMAIN new_list) = NewLength
  BY <1>1, <1>2, NewArray
<1>4. DOMAIN new_list' = {}
  BY <1>2 DEF EmptyList
<1>5. TwoArrays /\ Members = NewEntries
  BY <1>1, ArraysOfResize, AllMoved DEF IInv
<1>6. TypeOK'
  <2>1. new_list' \in [DOMAIN new_list' -> Handles \cup {NULL}]
    BY <1>2 DEF EmptyList
  <2>2. list' \in [0 .. length' - 1 -> Handles \cup {NULL}]
    BY <1>2, <1>3, <1>5 DEF TwoArrays, IsRoots
  <2>3. length' \in Nat /\ i' \in 0 .. length' /\ count' \in Nat
    BY <1>2, <1>3
  <2> QED
    BY <2>1, <2>2, <2>3, <1>1, <1>2 DEF IInv, TypeOK
<1>7. ArrayOK'
  BY <1>1, <1>2, <1>3, <1>4 DEF IInv, ArrayOK, Resizing, TypeOK
<1>8. SingleArray'
  BY <1>1, <1>6, <1>7, OneArrayNext
<1>9. Members' = Members
  BY <1>2, <1>5, <1>8 DEF SingleArray, TwoArrays
<1>10. Forest(next_hash', list')
  <2> DEFINE r == Roots(Old, new_list)
             f == [c \in DOMAIN new_list |-> <<"new", c>>]
  <2>1. Forest(next_hash, r) /\ IsRoots(Old) /\ IsRoots(new_list) /\ next_hash \in Nexts
    BY <1>1, <1>5 DEF IInv, ForestOK, TwoArrays
  <2>2. /\ IsRoots(r)
        /\ \A b \in DOMAIN new_list : <<"new", b>> \in DOMAIN r /\ r[<<"new", b>>] = new_list[b]
    BY <2>1, RootsOfArrays
  <2> HIDE DEF r
  <2>3. \A c \in DOMAIN new_list : new_list[c] = NULL \/ (f[c] \in DOMAIN r /\ new_list[c] = r[f[c]])
    BY <2>2
  <2>4. \A b, c \in DOMAIN new_list : b # c /\ new_list[b] # NULL /\ new_list[c] # NULL => f[b] # f[c]
    OBVIOUS
  <2> HIDE DEF f
  <2>5. Forest(next_hash, new_list)
    BY <2>1, <2>2, <2>3, <2>4, Regroup
  <2> QED
    BY <2>5, <1>2
<1>11. ForestOK'
  BY <1>1, <1>10 DEF ForestOK
<1>12. InBucket'
  <2>1. \A b \in DOMAIN new_list : \A x \in Chain(next_hash, new_list[b]) :
          Bucket(key[x], NewLength) = b
    BY <1>3 DEF IInv, InBucket, ReachableFrom
  <2>2. \A b \in OldBuckets' : b \in DOMAIN new_list /\ OldHead(b)' = new_list[b]
    BY <1>2, <1>8 DEF SingleArray
  <2>3. \A b \in OldBuckets' : \A x \in ReachableFrom(OldHead(b))' : Bucket(key[x], length)' = b
    BY <2>1, <2>2, <1>2, <1>3 DEF ReachableFrom, Bucket
  <2> QED
    BY <2>3, <1>4 DEF InBucket
<1>13. KeysOK' /\ SearchOK'
  BY <1>1, <1>2, <1>9 DEF IInv, KeysOK, SearchOK
<1>14. ElemsExact'
  BY <1>1, <1>2, <1>9 DEF IInv, ElemsExact, Resizing
<1> QED
  BY <1>6, <1>7, <1>9, <1>11, <1>12, <1>13, <1>14 DEF IInv

(***************************************************************************)
(* The theorems.                                                           *)
(***************************************************************************)

(* The table the constructor leaves.                                       *)
LEMMA InitHolds == Init => IInv
<1> SUFFICES ASSUME Init PROVE IInv
  OBVIOUS
<1>1. /\ hash \in [Keys -> HashValues] /\ pc = "resize" /\ call = NULL /\ i = 0 /\ length = 0
      /\ elems = 0 /\ count = 0 /\ h = NULL /\ result = NULL /\ ~Resizing
      /\ key = [e \in Handles |-> NULL] /\ next_hash = [e \in Handles |-> NULL]
      /\ list = EmptyList(0) /\ new_list = EmptyList(0)
  BY DEF Init, Resizing
<1>2. TypeOK
  <2>1. list \in [0 .. length - 1 -> Handles \cup {NULL}]
    BY <1>1 DEF EmptyList
  <2>2. new_list \in [DOMAIN new_list -> Handles \cup {NULL}]
    BY <1>1 DEF EmptyList
  <2>3. /\ key \in [Handles -> Keys \cup {NULL}]
        /\ next_hash \in [Handles -> Handles \cup {NULL}]
    BY <1>1
  <2> QED
    BY <2>1, <2>2, <2>3, <1>1 DEF TypeOK
<1>3. ArrayOK
  BY <1>1 DEF ArrayOK, EmptyList, Resizing
<1>4. SingleArray
  BY <1>1, <1>2, <1>3, OneArray
<1>5. DOMAIN list = {} /\ OldBuckets = {} /\ DOMAIN new_list = {}
  BY <1>1, <1>4 DEF SingleArray
<1>6. Members = {}
  BY <1>4, <1>5 DEF SingleArray, Entries
<1>7. ForestOK
  BY <1>1, <1>5 DEF ForestOK, Forest, Entries
<1>8. InBucket /\ KeysOK /\ SearchOK
  BY <1>1, <1>5, <1>6 DEF InBucket, KeysOK, SearchOK
<1>9. ElemsExact
  BY <1>1, <1>6, FS_EmptySet DEF ElemsExact
<1> QED
  BY <1>2, <1>3, <1>7, <1>8, <1>9 DEF IInv

(* A step that changes nothing.                                            *)
LEMMA StutterKeeps == IInv /\ UNCHANGED vars => IInv' /\ Members' = Members
<1> SUFFICES ASSUME IInv, UNCHANGED vars PROVE IInv' /\ Members' = Members
  OBVIOUS
<1>1. /\ hash' = hash /\ key' = key /\ next_hash' = next_hash /\ list' = list /\ length' = length
      /\ elems' = elems /\ pc' = pc /\ call' = call /\ ptr' = ptr /\ result' = result
      /\ new_list' = new_list /\ i' = i /\ h' = h /\ count' = count
  BY DEF vars, entries, array, resizing
<1>2. /\ OldBuckets' = OldBuckets /\ Resizing' = Resizing /\ NewLength' = NewLength
      /\ \A b : OldHead(b)' = OldHead(b)
      /\ \A p : ReachableFrom(p)' = ReachableFrom(p)
      /\ \A k, len : Bucket(k, len)' = Bucket(k, len)
  BY <1>1 DEF OldBuckets, OldHead, ReachableFrom, Bucket, Resizing, NewLength
<1>3. OldEntries' = OldEntries /\ NewEntries' = NewEntries /\ Members' = Members
  BY <1>1 DEF OldEntries, NewEntries, Members, OldBuckets, OldHead, ReachableFrom
<1>4. TypeOK' /\ ArrayOK'
  BY <1>1, <1>2 DEF IInv, TypeOK, ArrayOK
<1>5. ForestOK'
  BY <1>1 DEF IInv, ForestOK, Old, OldHead, OldBuckets, Resizing
<1>6. InBucket'
  BY <1>1 DEF IInv, InBucket, OldHead, OldBuckets, ReachableFrom, Bucket
<1>7. KeysOK' /\ ElemsExact'
  BY <1>1, <1>2, <1>3 DEF IInv, KeysOK, ElemsExact
<1>8. SearchOK'
  BY <1>1, <1>3 DEF IInv, SearchOK, Home, At, ReachableFrom, Bucket
<1> QED
  BY <1>3, <1>4, <1>5, <1>6, <1>7, <1>8 DEF IInv

(* The invariant is inductive.                                             *)
LEMMA StepKeeps == IInv /\ [Next]_vars => IInv'
<1> SUFFICES ASSUME IInv, [Next]_vars PROVE IInv'
  OBVIOUS
<1>1. ASSUME NEW k \in Keys, LookupStart(k) PROVE IInv'
  BY <1>1, LookupStartKeeps
<1>2. ASSUME NEW k \in Keys, RemoveStart(k) PROVE IInv'
  BY <1>2, RemoveStartKeeps
<1>3. ASSUME NEW k \in Keys, NEW e \in Handles, InsertStart(k, e) PROVE IInv'
  BY <1>3, InsertStartKeeps
<1>4. CASE FindNext
  BY <1>4, FindNextKeeps
<1>5. CASE Lookup
  BY <1>5, LookupKeeps
<1>6. CASE Insert
  BY <1>6, InsertKeeps
<1>7. CASE Remove
  BY <1>7, RemoveKeeps
<1>8. CASE Resize
  BY <1>8, ResizeStartKeeps, ResizeBucketKeeps, ResizeMoveKeeps, ResizeChainEndKeeps,
     ResizeFinishKeeps DEF Resize
<1>9. CASE UNCHANGED vars
  BY <1>9, StutterKeeps
<1> QED
  BY <1>1, <1>2, <1>3, <1>4, <1>5, <1>6, <1>7, <1>8, <1>9 DEF Next, Continue

(* The inductive invariant holds in every state.                           *)
LEMMA InvariantHolds == Spec => []IInv
BY InitHolds, StepKeeps, PTL DEF Spec

(* Every variable of the table keeps its type: the cells of list_, the     *)
(* next_hash fields, and the locals of FindPointer and Resize.             *)
THEOREM TypeCorrect == Spec => []TypeOK
BY InvariantHolds, PTL DEF IInv

(* Whatever the hash function and however the table was resized, an entry  *)
(* is on the chain FindPointer searches for its key.                       *)
THEOREM EntriesInTheirBuckets == Spec => []InBucket
BY InvariantHolds, PTL DEF IInv

(* elems_ counts the entries exactly, and the assertion that ends Resize   *)
(* holds.                                                                  *)
THEOREM ElementsCounted == Spec => []ElemsExact
BY InvariantHolds, PTL DEF IInv

(* The array is a power of two long, so that the mask is the remainder,    *)
(* and between calls it has a bucket for every entry.                      *)
THEOREM ArrayIsSized == Spec => []ArraySized
<1>1. IInv => ArraySized
  BY DEF IInv, ArrayOK, ArraySized
<1> QED
  BY <1>1, InvariantHolds, PTL

(* An entry of a forest is a root or follows another entry, not both, and  *)
(* in one way only.                                                        *)
LEMMA OnePointer ==
  ASSUME NEW nx \in Nexts, NEW r, IsRoots(r), Forest(nx, r), NEW e \in Entries(nx, r)
  PROVE  \/ \E d \in DOMAIN r : /\ r[d] = e
                               /\ \A c \in DOMAIN r : r[c] = e => c = d
                               /\ \A x \in Entries(nx, r) : nx[x] # e
         \/ \E x \in Entries(nx, r) : /\ nx[x] = e
                                     /\ \A y \in Entries(nx, r) : nx[y] = e => y = x
                                     /\ \A d \in DOMAIN r : r[d] # e
<1>1. e \in Handles /\ NULL \notin Handles
  BY EntriesClosed, HandleTableAssumption
<1>2. \A d \in DOMAIN r : r[d] = e => e \in Chain(nx, r[d])
  BY <1>1, EntriesClosed
<1>3. \A c, d \in DOMAIN r : r[c] = e /\ r[d] = e => c = d
  BY <1>2 DEF Forest
<1>4. \A d \in DOMAIN r : r[d] = e => \A x \in Entries(nx, r) : nx[x] # e
  BY <1>1 DEF Forest
<1>5. \A x, y \in Entries(nx, r) : nx[x] = e /\ nx[y] = e => x = y
  BY <1>1 DEF Forest
<1>6. PICK d \in DOMAIN r : e \in Chain(nx, r[d])
  BY EntriesClosed
<1>7. r[d] = e \/ \E x \in Entries(nx, r) : nx[x] = e
  BY <1>6, ChainPrevious, EntriesClosed DEF IsRoots
<1> QED
  BY <1>3, <1>4, <1>5, <1>7

(* No entry is lost or shared: exactly one cell or next_hash field of the  *)
(* table points to each entry, at every step of every call.                *)
THEOREM PointedToOnce == Spec => []OneSlotEach
<1>1. IInv => OneSlotEach
  <2> SUFFICES ASSUME IInv, NEW e \in Members
               PROVE  \E s : SlotsHolding(e) = {s}
    BY FS_Singleton DEF OneSlotEach
  <2>1. CASE Resizing
    <3>1. TwoArrays /\ Forest(next_hash, Roots(Old, new_list))
      BY <2>1, ArraysOfResize DEF IInv, ForestOK
    <3> DEFINE r == Roots(Old, new_list)
    <3>2. /\ IsRoots(r)
          /\ \A b \in OldBuckets : <<"old", b>> \in DOMAIN r /\ r[<<"old", b>>] = OldHead(b)
          /\ \A b \in DOMAIN new_list : <<"new", b>> \in DOMAIN r /\ r[<<"new", b>>] = new_list[b]
          /\ \A s \in DOMAIN r : \/ \E b \in OldBuckets : s = <<"old", b>>
                                 \/ \E b \in DOMAIN new_list : s = <<"new", b>>
      BY <3>1, RootsOfArrays DEF TwoArrays
    <3>3. Members = Entries(next_hash, r) /\ next_hash \in Nexts /\ Forest(next_hash, r)
      BY <3>1 DEF TwoArrays
    <3> HIDE DEF r
    <3>4. \/ \E d \in DOMAIN r : /\ r[d] = e
                               /\ \A c \in DOMAIN r : r[c] = e => c = d
                               /\ \A x \in Members : next_hash[x] # e
          \/ \E x \in Members : /\ next_hash[x] = e
                              /\ \A y \in Members : next_hash[y] = e => y = x
                              /\ \A d \in DOMAIN r : r[d] # e
      BY <3>2, <3>3, OnePointer
    <3>5. ASSUME NEW d \in DOMAIN r, r[d] = e,
                 \A c \in DOMAIN r : r[c] = e => c = d,
                 \A x \in Members : next_hash[x] # e
          PROVE  SlotsHolding(e) = {d}
      BY <3>2, <3>5 DEF SlotsHolding
    <3>6. ASSUME NEW x \in Members, next_hash[x] = e,
                 \A y \in Members : next_hash[y] = e => y = x,
                 \A d \in DOMAIN r : r[d] # e
          PROVE  SlotsHolding(e) = {<<"next", x>>}
      BY <3>2, <3>6 DEF SlotsHolding
    <3> QED
      BY <3>4, <3>5, <3>6
  <2>2. CASE ~Resizing
    <3>1. SingleArray /\ Forest(next_hash, list)
      BY <2>2, OneArray DEF IInv, ForestOK
    <3>2. /\ DOMAIN list = OldBuckets /\ \A b \in OldBuckets : OldHead(b) = list[b]
          /\ DOMAIN new_list = {}
      BY <3>1 DEF SingleArray
    <3>3. /\ next_hash \in Nexts /\ IsRoots(list) /\ Forest(next_hash, list)
          /\ Members = Entries(next_hash, list)
      BY <3>1 DEF SingleArray
    <3>4. \/ \E d \in DOMAIN list : /\ list[d] = e
                                  /\ \A c \in DOMAIN list : list[c] = e => c = d
                                  /\ \A x \in Members : next_hash[x] # e
          \/ \E x \in Members : /\ next_hash[x] = e
                              /\ \A y \in Members : next_hash[y] = e => y = x
                              /\ \A d \in DOMAIN list : list[d] # e
      BY <3>3, OnePointer
    <3>5. ASSUME NEW d \in DOMAIN list, list[d] = e,
                 \A c \in DOMAIN list : list[c] = e => c = d,
                 \A x \in Members : next_hash[x] # e
          PROVE  SlotsHolding(e) = {<<"old", d>>}
      BY <3>2, <3>5 DEF SlotsHolding
    <3>6. ASSUME NEW x \in Members, next_hash[x] = e,
                 \A y \in Members : next_hash[y] = e => y = x,
                 \A d \in DOMAIN list : list[d] # e
          PROVE  SlotsHolding(e) = {<<"next", x>>}
      BY <3>2, <3>6 DEF SlotsHolding
    <3> QED
      BY <3>4, <3>5, <3>6
  <2> QED
    BY <2>1, <2>2
<1> QED
  BY <1>1, InvariantHolds, PTL

(***************************************************************************)
(* How long a call takes.                                                  *)
(***************************************************************************)

(* A search that has made some rounds has that many entries less to meet;  *)
(* Resize makes two rounds for each bucket and one for each entry.         *)
StepsOK ==
  /\ steps \in Nat
  /\ pc = "idle" => steps = 0
  /\ pc = "find" => steps + Cardinality(ReachableFrom(At(ptr))) <= elems
  /\ pc = "resize" => steps <= elems
  /\ pc = "bucket" => steps <= elems + 1 + 2 * i + count
  /\ pc = "chain" => steps <= elems + 1 + 2 * i + 1 + count

(* What is ahead of a search.                                              *)
SearchAhead ==
  /\ ReachableFrom(At(ptr)) \subseteq Members
  /\ Cardinality(ReachableFrom(At(ptr))) \in 0 .. elems

(* During a search the entries ahead of ptr are entries of the table.      *)
LEMMA SearchIsAhead == IInv /\ pc = "find" => SearchAhead
<1> SUFFICES ASSUME IInv, pc = "find" PROVE SearchAhead
  OBVIOUS
<1>1. ReachableFrom(At(ptr)) \subseteq Members
  <2>1. /\ next_hash \in Nexts /\ Home \in Handles \cup {NULL}
        /\ At(ptr) \in Chain(next_hash, Home) \cup {NULL}
        /\ Chain(next_hash, Home) \subseteq Members
    BY SearchPosition DEF SingleArray
  <2> QED
    BY <2>1, ChainTail DEF ReachableFrom
<1>2. Members \subseteq Handles /\ elems = Cardinality(Members) /\ elems \in Nat
  BY MembersAreHandles DEF IInv, ElemsExact, TypeOK
<1>3. IsFiniteSet(Members)
  BY <1>2, MembersFinite
<1>4. /\ Cardinality(ReachableFrom(At(ptr))) \in Nat
      /\ Cardinality(ReachableFrom(At(ptr))) <= Cardinality(Members)
  BY <1>1, <1>3, FS_Subset, FS_CardinalityType
<1> QED
  BY <1>1, <1>2, <1>4 DEF SearchAhead

(* SearchIsAhead in the next state.                                        *)
LEMMA SearchIsAheadNext == (IInv /\ pc = "find")' => SearchAhead'
BY SearchIsAhead, PTL

(* A step of FindPointer leaves one entry fewer ahead.                     *)
LEMMA FindNextShortens ==
  ASSUME IInv, FindNext
  PROVE  Cardinality(ReachableFrom(At(ptr)))' = Cardinality(ReachableFrom(At(ptr))) - 1
<1>1. pc = "find" /\ At(ptr) # NULL /\ ptr' = <<"next", At(ptr)>> /\ next_hash' = next_hash
  BY DEF FindNext, StopsAt, entries
<1> DEFINE y == At(ptr)
<1>2. /\ next_hash \in Nexts /\ Forest(next_hash, list) /\ IsRoots(list)
      /\ y \in Handles /\ y \in Entries(next_hash, list)
  <2>1. y \in Members /\ SingleArray /\ Forest(next_hash, list)
    BY <1>1, SearchPosition
  <2> QED
    BY <2>1, EntriesClosed DEF SingleArray
<1>3. ReachableFrom(At(ptr))' = Chain(next_hash, next_hash[y])
  BY <1>1 DEF ReachableFrom, At
<1> HIDE DEF y
<1>4. Chain(next_hash, y) = {y} \cup Chain(next_hash, next_hash[y])
  BY <1>2, ChainUnfolds
<1>5. y \notin Chain(next_hash, next_hash[y])
  BY <1>2, NoLoop
<1>6. Chain(next_hash, y) \subseteq Handles
  BY <1>2, ChainClosed
<1>7. Chain(next_hash, next_hash[y]) = Chain(next_hash, y) \ {y} /\ y \in Chain(next_hash, y)
  BY <1>4, <1>5
<1>8. Cardinality(Chain(next_hash, next_hash[y])) = Cardinality(Chain(next_hash, y)) - 1
  BY <1>6, <1>7, MembersFinite
<1> QED
  BY <1>3, <1>8 DEF y, ReachableFrom

(* The steps taken and the entries ahead are never more than all entries.  *)
LEMMA StepsKept == IInv /\ StepsOK /\ [StepsNext]_<<vars, steps>> => StepsOK'
<1> SUFFICES ASSUME IInv, StepsOK, [StepsNext]_<<vars, steps>> PROVE StepsOK'
  OBVIOUS
<1>1. IInv'
  BY StepKeeps DEF StepsNext
<1>2. steps \in Nat /\ elems \in Nat /\ i \in Nat /\ count \in Nat
  BY DEF StepsOK, IInv, TypeOK
<1>3. ASSUME StepsNext, pc' = "idle" PROVE StepsOK'
  BY <1>3 DEF StepsNext, StepsOK
<1>4. ASSUME StepsNext, pc = "idle", pc' = "find" PROVE StepsOK'
  <2>1. steps' = 0
    BY <1>4 DEF StepsNext
  <2>2. SearchAhead'
    BY <1>1, <1>4, SearchIsAheadNext
  <2>3. 0 + Cardinality(ReachableFrom(At(ptr)))' <= elems'
    BY <2>2, <1>1 DEF SearchAhead, IInv, TypeOK
  <2> QED
    BY <2>1, <2>3, <1>4 DEF StepsOK
<1>5. ASSUME StepsNext, FindNext PROVE StepsOK'
  <2>1. pc = "find" /\ pc' = "find" /\ steps' = steps + 1 /\ elems' = elems
    BY <1>5 DEF StepsNext, FindNext, array
  <2>2. Cardinality(ReachableFrom(At(ptr))) \in Nat
    BY <2>1, <1>2, SearchIsAhead DEF SearchAhead
  <2>3. steps' + Cardinality(ReachableFrom(At(ptr)))' <= elems'
    BY <2>1, <2>2, <1>2, <1>5, FindNextShortens DEF StepsOK
  <2> QED
    BY <2>1, <2>3, <1>2 DEF StepsOK
<1>6. ASSUME StepsNext, Insert PROVE StepsOK'
  <2>1. pc = "find" /\ pc' \in {"idle", "resize"} /\ (pc' = "resize" => elems' = elems + 1)
    BY <1>6 DEF Insert, Found
  <2>2. pc' = "resize" => steps' = steps + 1
    BY <2>1, <1>6 DEF StepsNext
  <2>3. Cardinality(ReachableFrom(At(ptr))) \in Nat
    BY <2>1, <1>2, SearchIsAhead DEF SearchAhead
  <2>4. steps <= elems
    BY <2>1, <2>3, <1>2 DEF StepsOK
  <2>5. CASE pc' = "resize"
    BY <2>1, <2>2, <2>4, <2>5, <1>2 DEF StepsOK
  <2> QED
    BY <2>1, <2>5, <1>3, <1>6
<1>7. ASSUME StepsNext, ResizeStart PROVE StepsOK'
  <2>1. /\ pc = "resize" /\ pc' = "bucket" /\ steps' = steps + 1 /\ elems' = elems
        /\ i' = 0 /\ count' = 0
    BY <1>7 DEF StepsNext, ResizeStart, array
  <2> QED
    BY <2>1, <1>2 DEF StepsOK
<1>8. ASSUME StepsNext, ResizeBucket PROVE StepsOK'
  <2>1. /\ pc = "bucket" /\ pc' = "chain" /\ steps' = steps + 1 /\ elems' = elems
        /\ i' = i /\ count' = count
    BY <1>8 DEF StepsNext, ResizeBucket, array
  <2> QED
    BY <2>1, <1>2 DEF StepsOK
<1>9. ASSUME StepsNext, ResizeMove PROVE StepsOK'
  <2>1. /\ pc = "chain" /\ pc' = "chain" /\ steps' = steps + 1 /\ elems' = elems
        /\ i' = i /\ count' = count + 1
    BY <1>9 DEF StepsNext, ResizeMove, array
  <2> QED
    BY <2>1, <1>2 DEF StepsOK
<1>10. ASSUME StepsNext, ResizeChainEnd PROVE StepsOK'
  <2>1. /\ pc = "chain" /\ pc' = "bucket" /\ steps' = steps + 1 /\ elems' = elems
        /\ i' = i + 1 /\ count' = count
    BY <1>10 DEF StepsNext, ResizeChainEnd, array
  <2> QED
    BY <2>1, <1>2 DEF StepsOK
<1>11. CASE UNCHANGED <<vars, steps>>
  BY <1>11 DEF StepsOK, vars, entries, array, resizing, ReachableFrom, At
<1>12. ASSUME StepsNext, NEW c \in Calls, FindStart(c) PROVE StepsOK'
  BY <1>4, <1>12 DEF FindStart
<1>13. ASSUME StepsNext, \E k \in Keys :
                LookupStart(k) \/ RemoveStart(k) \/ \E e \in Handles : InsertStart(k, e)
       PROVE  StepsOK'
  BY <1>4, <1>13 DEF LookupStart, RemoveStart, InsertStart, FindStart
<1>14. ASSUME StepsNext, Lookup \/ Remove \/ ResizeFinish PROVE StepsOK'
  BY <1>3, <1>14 DEF Lookup, Remove, ResizeFinish
<1> QED
  BY <1>5, <1>6, <1>7, <1>8, <1>9, <1>10, <1>11, <1>13, <1>14 DEF StepsNext, Next, Continue, Resize

(* A call of the table ends within a number of rounds that its entries and *)
(* buckets bound: the shard's mutex is not held forever.                   *)
THEOREM CallsAreBounded == StepsSpec => []CallsBounded
<1>1. StepsInit => IInv /\ StepsOK
  <2>1. StepsInit => pc = "resize" /\ steps = 0 /\ elems = 0
    BY DEF StepsInit, Init
  <2> QED
    BY <2>1, InitHolds DEF StepsInit, StepsOK
<1>2. IInv /\ StepsOK /\ [StepsNext]_<<vars, steps>> => (IInv /\ StepsOK)'
  <2>1. [StepsNext]_<<vars, steps>> => [Next]_vars
    BY DEF StepsNext
  <2> QED
    BY <2>1, StepKeeps, StepsKept
<1>3. IInv /\ StepsOK => CallsBounded
  <2> SUFFICES ASSUME IInv, StepsOK PROVE CallsBounded
    OBVIOUS
  <2>1. steps \in Nat /\ elems \in Nat /\ i \in Nat /\ count \in Nat
    BY DEF StepsOK, IInv, TypeOK
  <2>2. pc = "find" => Cardinality(ReachableFrom(At(ptr))) \in Nat
    BY <2>1, SearchIsAhead DEF SearchAhead
  <2> QED
    BY <2>1, <2>2 DEF StepsOK, CallsBounded
<1> QED
  BY <1>1, <1>2, <1>3, PTL DEF StepsSpec

(***************************************************************************)
(* The table is a map.                                                     *)
(***************************************************************************)

(* Contents, without CHOOSE. *)
MapsKeys ==
  /\ Contents \in [Keys -> Members \cup {NULL}]
  /\ \A e \in Members : key[e] \in Keys /\ Contents[key[e]] = e
  /\ \A k \in Keys : (\A e \in Members : key[e] # k) => Contents[k] = NULL

(* Since no key is twice in the table, its contents are a map.             *)
LEMMA ContentsMapKeys == KeysOK => MapsKeys
<1> SUFFICES ASSUME KeysOK PROVE MapsKeys
  OBVIOUS
<1> DEFINE M == Members
<1>1. /\ \A e \in M : key[e] \in Keys
      /\ \A x, y \in M : key[x] = key[y] => x = y
  BY DEF KeysOK
<1>2. Contents = [k \in Keys |-> IF \E e \in M : key[e] = k
                                THEN CHOOSE e \in M : key[e] = k ELSE NULL]
  BY DEF Contents
<1>3. M = Members
  OBVIOUS
<1> HIDE DEF M
<1>4. ASSUME NEW k \in Keys, NEW e \in M, key[e] = k
      PROVE  Contents[k] = e
  <2>1. Contents[k] = CHOOSE x \in M : key[x] = k
    BY <1>2, <1>4
  <2> DEFINE o == CHOOSE x \in M : key[x] = k
  <2>2. o \in M /\ key[o] = k
    BY <1>4
  <2> HIDE DEF o
  <2>3. o = e
    BY <2>2, <1>1, <1>4
  <2> QED
    BY <2>1, <2>3 DEF o
<1>5. \A k \in Keys : (\A e \in M : key[e] # k) => Contents[k] = NULL
  BY <1>2
<1>6. \A k \in Keys : Contents[k] \in M \cup {NULL}
  BY <1>4, <1>5
<1>7. Contents \in [Keys -> M \cup {NULL}]
  BY <1>2, <1>6
<1> QED
  BY <1>1, <1>3, <1>4, <1>5, <1>7 DEF MapsKeys

(* ContentsMapKeys in the next state.                                      *)
LEMMA ContentsMapKeysNext == KeysOK' => MapsKeys'
BY ContentsMapKeys, PTL

(* The map depends on the entries and their keys only.                     *)
LEMMA SameContents ==
  ASSUME IInv, IInv', Members' = Members, \A e \in Members : key'[e] = key[e]
  PROVE  Contents' = Contents
<1>1. MapsKeys /\ MapsKeys'
  BY ContentsMapKeys, ContentsMapKeysNext DEF IInv
<1> DEFINE C == Contents  D == Contents'
<1>2. /\ C \in [Keys -> Members \cup {NULL}] /\ D \in [Keys -> Members \cup {NULL}]
      /\ \A e \in Members : key[e] \in Keys /\ C[key[e]] = e /\ D[key[e]] = e
      /\ \A k \in Keys : (\A e \in Members : key[e] # k) => C[k] = NULL /\ D[k] = NULL
  BY <1>1 DEF MapsKeys
<1> HIDE DEF C, D
<1>3. ASSUME NEW k \in Keys PROVE D[k] = C[k]
  BY <1>2
<1>4. D = C
  BY <1>2, <1>3
<1> QED
  BY <1>4 DEF C, D

(* The empty table is the empty map.                                       *)
LEMMA InitMaps == Init => Table!Init
<1> SUFFICES ASSUME Init PROVE Table!Init
  OBVIOUS
<1>1. IInv /\ call = NULL /\ result = NULL
  BY InitHolds DEF Init
<1>2. Members = {}
  <2>1. SingleArray
    BY <1>1, OneArray DEF IInv, Init, Resizing
  <2>2. DOMAIN list = {}
    BY DEF Init, EmptyList
  <2> QED
    BY <2>1, <2>2 DEF SingleArray, Entries
<1>3. Contents = [k \in Keys |-> NULL]
  BY <1>2 DEF Contents
<1> QED
  BY <1>1, <1>3 DEF Table!Init

(* The first step of a call is the request of the map.                     *)
LEMMA StartMaps ==
  ASSUME IInv, IInv', NEW c \in Calls, FindStart(c), Members' = Members,
         \A e \in Members : key'[e] = key[e],
         c.op = "Insert" => c.handle \in Handles \ Members
  PROVE  Table!Request(c)
<1>1. call = NULL /\ call' = c /\ result' = NULL
  BY DEF FindStart, IInv, TypeOK
<1>2. Contents' = Contents
  BY SameContents
<1>3. Contents \in [Keys -> Members \cup {NULL}]
  BY ContentsMapKeys DEF IInv, MapsKeys
<1>4. c.op = "Insert" => \A k \in Keys : Contents[k] # c.handle
  BY <1>3, HandleTableAssumption
<1> QED
  BY <1>1, <1>2, <1>4 DEF Table!Request

(* The answer of a call is what the map holds under its key.               *)
LEMMA AnswerIsFound ==
  ASSUME IInv, pc = "find", StopsAt(call.key, ptr)
  PROVE  At(ptr) = Contents[call.key] /\ call # NULL /\ call.key \in Keys /\ call \in Calls
<1>1. /\ At(ptr) = NULL => \A e \in Members : key[e] # call.key
      /\ At(ptr) # NULL => At(ptr) \in Members /\ key[At(ptr)] = call.key
  BY SearchFinds
<1>2. MapsKeys
  BY ContentsMapKeys DEF IInv
<1>3. call # NULL /\ call \in Calls /\ call.key \in Keys
  BY DEF IInv, TypeOK, Calls
<1> QED
  BY <1>1, <1>2, <1>3 DEF MapsKeys

(* The last step of Lookup is its answer.                                  *)
LEMMA LookupMaps == ASSUME IInv, IInv', Lookup, Members' = Members PROVE Table!Answer
<1>1. /\ At(ptr) = Contents[call.key] /\ call # NULL /\ call.op = "Lookup"
      /\ call' = NULL /\ result' = At(ptr) /\ key' = key
  BY AnswerIsFound DEF Lookup, Found, Finish, entries
<1>2. Contents' = Contents
  BY <1>1, SameContents
<1> QED
  BY <1>1, <1>2 DEF Table!Answer

(* The last step of Insert is its answer, with the entry it displaces.     *)
LEMMA InsertMaps ==
  ASSUME IInv, IInv', Insert, Members' = (Members \ {At(ptr)}) \cup {call.handle}
  PROVE  Table!Answer
<1>1. /\ At(ptr) = Contents[call.key] /\ call # NULL /\ call.key \in Keys /\ call.op = "Insert"
      /\ call' = NULL /\ result' = At(ptr) /\ key' = key /\ pc = "find"
  BY AnswerIsFound DEF Insert, Found, Finish
<1>2. key[call.handle] = call.key /\ call.handle \notin Members
  BY <1>1 DEF IInv, SearchOK
<1>3. MapsKeys /\ MapsKeys'
  BY ContentsMapKeys, ContentsMapKeysNext DEF IInv
<1> DEFINE C == Contents  D == Contents'  e == call.handle  o == At(ptr)  k0 == call.key
<1>4. /\ C \in [Keys -> Members \cup {NULL}] /\ D \in [Keys -> Members' \cup {NULL}]
      /\ \A x \in Members : key[x] \in Keys /\ C[key[x]] = x
      /\ \A x \in Members' : D[key[x]] = x
      /\ \A k \in Keys : (\A x \in Members : key[x] # k) => C[k] = NULL
      /\ \A k \in Keys : (\A x \in Members' : key[x] # k) => D[k] = NULL
      /\ Members' = (Members \ {o}) \cup {e} /\ key[e] = k0 /\ o = C[k0] /\ k0 \in Keys
  BY <1>1, <1>2, <1>3 DEF MapsKeys
<1> HIDE DEF C, D, e, o, k0
<1>5. D[k0] = e
  BY <1>4
<1>6. ASSUME NEW k \in Keys, k # k0 PROVE D[k] = C[k]
  <2>1. CASE \E x \in Members : key[x] = k
    BY <1>4, <1>6, <2>1
  <2>2. CASE ~ \E x \in Members : key[x] = k
    BY <1>4, <1>6, <2>2
  <2> QED
    BY <2>1, <2>2
<1>7. D = [C EXCEPT ![k0] = e]
  BY <1>4, <1>5, <1>6
<1> QED
  BY <1>1, <1>7 DEF Table!Answer, C, D, e, o, k0

(* The last step of Remove is its answer.                                  *)
LEMMA RemoveMaps ==
  ASSUME IInv, IInv', Remove, Members' = Members \ {At(ptr)}
  PROVE  Table!Answer
<1>1. /\ At(ptr) = Contents[call.key] /\ call # NULL /\ call.key \in Keys /\ call.op = "Remove"
      /\ call' = NULL /\ result' = At(ptr) /\ key' = key /\ pc = "find"
  BY AnswerIsFound DEF Remove, Found, Finish
<1>3. MapsKeys /\ MapsKeys'
  BY ContentsMapKeys, ContentsMapKeysNext DEF IInv
<1> DEFINE C == Contents  D == Contents'  o == At(ptr)  k0 == call.key
<1>4. /\ C \in [Keys -> Members \cup {NULL}] /\ D \in [Keys -> Members' \cup {NULL}]
      /\ \A x \in Members : key[x] \in Keys /\ C[key[x]] = x
      /\ \A x \in Members' : D[key[x]] = x
      /\ \A k \in Keys : (\A x \in Members : key[x] # k) => C[k] = NULL
      /\ \A k \in Keys : (\A x \in Members' : key[x] # k) => D[k] = NULL
      /\ Members' = Members \ {o} /\ o = C[k0] /\ k0 \in Keys
  BY <1>1, <1>3 DEF MapsKeys
<1> HIDE DEF C, D, o, k0
<1>5. D[k0] = NULL
  BY <1>4
<1>6. ASSUME NEW k \in Keys, k # k0 PROVE D[k] = C[k]
  <2>1. CASE \E x \in Members : key[x] = k
    BY <1>4, <1>6, <2>1
  <2>2. CASE ~ \E x \in Members : key[x] = k
    BY <1>4, <1>6, <2>2
  <2> QED
    BY <2>1, <2>2
<1>7. D = [C EXCEPT ![k0] = NULL]
  BY <1>4, <1>5, <1>6
<1> QED
  BY <1>1, <1>7 DEF Table!Answer, C, D, o, k0

(* What Resize and the rounds of a search leave as it is.                  *)
LEMMA StepsBetween ==
  ASSUME IInv, IInv', Members' = Members, UNCHANGED <<key, call, result>>
  PROVE  UNCHANGED Table!vars
BY SameContents DEF Table!vars

(* Every step is a step of the map or changes nothing of it.               *)
LEMMA StepMaps == IInv /\ IInv' /\ [Next]_vars => [Table!Next]_Table!vars
<1> SUFFICES ASSUME IInv, IInv', [Next]_vars PROVE [Table!Next]_Table!vars
  OBVIOUS
<1>0. Table!Calls = Calls
  BY DEF Table!Calls, Calls
<1>1. ASSUME NEW k \in Keys, LookupStart(k) PROVE Table!Next
  <2> DEFINE c == [op |-> "Lookup", key |-> k, handle |-> NULL]
  <2>1. c \in Calls /\ c.op # "Insert"
    BY DEF Calls
  <2>2. FindStart(c) /\ Members' = Members /\ \A e \in Members : key'[e] = key[e]
    BY <1>1, LookupStartKeeps DEF LookupStart, entries
  <2> HIDE DEF c
  <2> QED
    BY <2>1, <2>2, <1>0, StartMaps DEF Table!Next
<1>2. ASSUME NEW k \in Keys, RemoveStart(k) PROVE Table!Next
  <2> DEFINE c == [op |-> "Remove", key |-> k, handle |-> NULL]
  <2>1. c \in Calls /\ c.op # "Insert"
    BY DEF Calls
  <2>2. FindStart(c) /\ Members' = Members /\ \A e \in Members : key'[e] = key[e]
    BY <1>2, RemoveStartKeeps DEF RemoveStart, entries
  <2> HIDE DEF c
  <2> QED
    BY <2>1, <2>2, <1>0, StartMaps DEF Table!Next
<1>3. ASSUME NEW k \in Keys, NEW x \in Handles, InsertStart(k, x) PROVE Table!Next
  <2> DEFINE c == [op |-> "Insert", key |-> k, handle |-> x]
  <2>1. c \in Calls /\ c.handle = x
    BY DEF Calls
  <2>2. FindStart(c) /\ Members' = Members /\ x \in Handles \ Members
    BY <1>3, InsertStartKeeps DEF InsertStart
  <2>3. \A e \in Members : key'[e] = key[e]
    BY <1>3, <2>2, MembersAreHandles DEF InsertStart, IInv, TypeOK
  <2> HIDE DEF c
  <2> QED
    BY <2>1, <2>2, <2>3, <1>0, StartMaps DEF Table!Next
<1>4. CASE FindNext
  BY <1>4, FindNextKeeps, StepsBetween DEF FindNext, entries
<1>5. CASE Lookup
  BY <1>5, LookupKeeps, LookupMaps DEF Table!Next
<1>6. CASE Insert
  BY <1>6, InsertKeeps, InsertMaps DEF Table!Next
<1>7. CASE Remove
  BY <1>7, RemoveKeeps, RemoveMaps DEF Table!Next
<1>8. CASE Resize
  <2>1. Members' = Members
    BY <1>8, ResizeStartKeeps, ResizeBucketKeeps, ResizeMoveKeeps, ResizeChainEndKeeps,
       ResizeFinishKeeps DEF Resize
  <2>2. UNCHANGED <<key, call, result>>
    BY <1>8 DEF Resize, ResizeStart, ResizeBucket, ResizeMove, ResizeChainEnd, ResizeFinish, entries
  <2> QED
    BY <2>1, <2>2, StepsBetween
<1>9. CASE UNCHANGED vars
  <2>1. Members' = Members /\ UNCHANGED <<key, call, result>>
    BY <1>9, StutterKeeps DEF vars, entries
  <2> QED
    BY <2>1, StepsBetween
<1> QED
  BY <1>1, <1>2, <1>3, <1>4, <1>5, <1>6, <1>7, <1>8, <1>9 DEF Next, Continue

(* The table implements a map from keys to entries: Lookup, Insert and     *)
(* Remove answer with the entry of the key, and Resize is no step of it.   *)
THEOREM TableIsKeyMap == Spec => IsKeyMap
BY InitMaps, StepMaps, InvariantHolds, PTL DEF Spec, IsKeyMap, Table!Spec

===============================================================================
