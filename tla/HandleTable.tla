----------------------------- MODULE HandleTable ------------------------------
(***************************************************************************)
(* class HandleTable of src/util/cache.cc: an array of singly linked       *)
(* chains, with the pointers as the code has them.  The shard's mutex lets *)
(* one call in at a time; its loops run step by step.                      *)
(*                                                                         *)
(* A slot, what the code points to with an LRUHandle**, is <<"list", i>>   *)
(* for a cell of list_ or <<"next", h>> for the next_hash field of h.      *)
(***************************************************************************)
EXTENDS Integers, FiniteSets, FiniteSetsExt

CONSTANTS
  Keys,        \* the keys of the shard
  Handles,     \* the addresses of entries
  HashValues,  \* the values the hash function may take on the keys
  MinLength,   \* the least length Resize starts from (4 in the code)
  NULL         \* nullptr

(* The calls of the table; a handle is passed to Insert only. *)
Calls == [op : {"Lookup", "Insert", "Remove"}, key : Keys,
          handle : Handles \cup {NULL}]

ASSUME HandleTableAssumption ==
  /\ NULL \notin Keys \cup Handles \cup Calls
  /\ IsFiniteSet(Keys) /\ IsFiniteSet(Handles)
  /\ HashValues \subseteq Nat
  /\ MinLength \in Nat /\ \E d \in 0 .. MinLength : MinLength = 2^d

(* Arithmetic, for the provers: they do not know exponentiation. *)
ASSUME PowersOfTwo ==
  \A c \in 0 .. MinLength, d \in 0 .. Cardinality(Handles) :
    /\ {2^c, 2^d, 2^(c + d)} \subseteq Nat
    /\ c + d < 2^(c + d) /\ d < 2^d
    /\ 2^(c + d) = 2^c * 2^d

VARIABLES
  hash,        \* h->hash of an entry under each key; any function
  key,         \* the key of the entry at each address
  next_hash,   \* LRUHandle::next_hash
  list,        \* list_
  length,      \* length_
  elems,       \* elems_
  pc,          \* where the running call is
  call,        \* the running call and its arguments
  ptr,         \* local ptr of FindPointer
  result,      \* what the last call returned
  new_list,    \* locals of Resize
  i, h, count

entries == <<key, next_hash>>
array == <<list, length, elems>>
resizing == <<new_list, i, h, count>>
vars == <<hash, entries, array, pc, call, ptr, result, resizing>>

(* hash & (length - 1).  The two agree for powers of two only, which is    *)
(* what ArraySized is for.                                                 *)
Bucket(k, len) == hash[k] % len

EmptyList(len) == [b \in 0 .. len - 1 |-> NULL]

(* Fault: the length follows the number of entries exactly. *)
NewLengthTight == IF elems > MinLength THEN elems ELSE MinLength

(* 4, doubled while it is less than elems_. *)
NewLength == Min({m \in {MinLength * 2^d : d \in 0 .. elems} : m >= elems})

ResizeStart ==
  /\ pc = "resize"
  /\ new_list' = EmptyList(NewLength)
  /\ i' = 0 /\ h' = NULL /\ count' = 0
  /\ pc' = "bucket"
  /\ UNCHANGED <<hash, entries, array, call, ptr, result>>

(* The outer loop takes the next chain. *)
ResizeBucket ==
  /\ pc = "bucket" /\ i < length
  /\ h' = list[i]
  /\ pc' = "chain"
  /\ UNCHANGED <<hash, entries, array, call, ptr, result, new_list, i, count>>

(* Faults: h keeps its link into the old chain; h stays in its bucket. *)
PushKeepsLink(b) ==
  /\ new_list' = [new_list EXCEPT ![b] = h]
  /\ UNCHANGED next_hash

SameBucket == i

(* h becomes the first of the new chain b. *)
Push(b) ==
  /\ next_hash' = [next_hash EXCEPT ![h] = new_list[b]]
  /\ new_list' = [new_list EXCEPT ![b] = h]

NewBucket == Bucket(key[h], Cardinality(DOMAIN new_list))

(* The inner loop moves one entry. *)
ResizeMove ==
  /\ pc = "chain" /\ h # NULL
  /\ Push(NewBucket)
  /\ h' = next_hash[h]
  /\ count' = count + 1
  /\ UNCHANGED <<hash, key, array, pc, call, ptr, result, i>>

ResizeChainEnd ==
  /\ pc = "chain" /\ h = NULL
  /\ i' = i + 1
  /\ pc' = "bucket"
  /\ UNCHANGED <<hash, entries, array, call, ptr, result, new_list, h, count>>

ResizeFinish ==
  /\ pc = "bucket" /\ i = length
  /\ list' = new_list
  /\ length' = Cardinality(DOMAIN new_list)
  /\ new_list' = EmptyList(0) /\ i' = 0 /\ count' = 0
  /\ pc' = "idle"
  /\ UNCHANGED <<hash, entries, elems, call, ptr, result, h>>

(* The constructor is about to call Resize. *)
Init ==
  /\ hash \in [Keys -> HashValues]
  /\ key = [e \in Handles |-> NULL]
  /\ next_hash = [e \in Handles |-> NULL]
  /\ list = EmptyList(0) /\ length = 0 /\ elems = 0
  /\ pc = "resize" /\ call = NULL /\ ptr = NULL /\ result = NULL
  /\ new_list = EmptyList(0) /\ i = 0 /\ h = NULL /\ count = 0

-----------------------------------------------------------------------------
(* FindPointer.                                                            *)

At(p) == IF p[1] = "list" THEN list[p[2]] ELSE next_hash[p[2]]

(* Fault: the keys are not compared. *)
StopsAtHash(k, p) == At(p) # NULL => hash[key[At(p)]] = hash[k]

(* FindPointer stops at the slot p. *)
StopsAt(k, p) == At(p) # NULL => hash[key[At(p)]] = hash[k] /\ key[At(p)] = k

FindStart(c) ==
  /\ pc = "idle"
  /\ call' = c
  /\ ptr' = <<"list", Bucket(c.key, length)>>
  /\ result' = NULL
  /\ pc' = "find"

(* Fault: the search does not advance. *)
FindNextStays == pc = "find" /\ ~StopsAt(call.key, ptr) /\ UNCHANGED vars

FindNext ==
  /\ pc = "find" /\ ~StopsAt(call.key, ptr)
  /\ ptr' = <<"next", At(ptr)>>
  /\ UNCHANGED <<hash, entries, array, pc, call, result, resizing>>

(* FindPointer has returned to op. *)
Found(op) == pc = "find" /\ StopsAt(call.key, ptr) /\ call.op = op

Finish(answer) ==
  /\ result' = answer
  /\ call' = NULL /\ ptr' = NULL

-----------------------------------------------------------------------------
(* *ptr = e, with the next_hash fields otherwise as in nexts. *)
Assign(e, nexts) ==
  IF ptr[1] = "list"
  THEN list' = [list EXCEPT ![ptr[2]] = e] /\ next_hash' = nexts
  ELSE next_hash' = [nexts EXCEPT ![ptr[2]] = e] /\ UNCHANGED list

LookupStart(k) ==
  /\ FindStart([op |-> "Lookup", key |-> k, handle |-> NULL])
  /\ UNCHANGED <<hash, entries, array, resizing>>

Lookup ==
  /\ Found("Lookup")
  /\ Finish(At(ptr))
  /\ pc' = "idle"
  /\ UNCHANGED <<hash, entries, array, resizing>>

(* The entries linked from p: the least set that holds p and, with each    *)
(* entry, the next one.                                                    *)
Chain(nexts, p) ==
  LET closed == {S \in SUBSET Handles :
                   /\ p \in S \cup {NULL}
                   /\ \A e \in S : nexts[e] \in S \cup {NULL}}
  IN  {e \in Handles : \A S \in closed : e \in S}

ReachableFrom(p) == Chain(next_hash, p)

(* The chains Resize has not taken apart yet, with the rest of the one it  *)
(* is taking apart.                                                        *)
OldBuckets == i .. length - 1

OldHead(b) == IF pc = "chain" /\ b = i THEN h ELSE list[b]

OldEntries == UNION {ReachableFrom(OldHead(b)) : b \in OldBuckets}

NewEntries == UNION {ReachableFrom(new_list[b]) : b \in DOMAIN new_list}

Members == OldEntries \cup NewEntries

(* Insert is given a newly allocated entry. *)
InsertStart(k, e) ==
  /\ e \notin Members
  /\ FindStart([op |-> "Insert", key |-> k, handle |-> e])
  /\ key' = [key EXCEPT ![e] = k]
  /\ UNCHANGED <<hash, next_hash, array, resizing>>

(* The entry takes the place of the one with its key, or the trailing slot. *)
Insert ==
  /\ Found("Insert")
  /\ LET old == At(ptr)
     IN  /\ Assign(call.handle, [next_hash EXCEPT ![call.handle] =
                                   IF old = NULL THEN NULL ELSE next_hash[old]])
         /\ elems' = elems + (IF old = NULL THEN 1 ELSE 0)
         /\ pc' = IF old = NULL /\ elems' > length THEN "resize" ELSE "idle"
         /\ Finish(old)
  /\ UNCHANGED <<hash, key, length, resizing>>

RemoveStart(k) ==
  /\ FindStart([op |-> "Remove", key |-> k, handle |-> NULL])
  /\ UNCHANGED <<hash, entries, array, resizing>>

(* Fault: the count goes down when nothing was found. *)
RemoveCountsAll ==
  /\ Found("Remove")
  /\ IF At(ptr) = NULL
     THEN UNCHANGED <<next_hash, list>>
     ELSE Assign(next_hash[At(ptr)], next_hash)
  /\ elems' = elems - 1
  /\ Finish(At(ptr))
  /\ pc' = "idle"
  /\ UNCHANGED <<hash, key, length, resizing>>

(* The next_hash field of the entry removed keeps its value. *)
Remove ==
  /\ Found("Remove")
  /\ IF At(ptr) = NULL
     THEN UNCHANGED <<next_hash, list, elems>>
     ELSE Assign(next_hash[At(ptr)], next_hash) /\ elems' = elems - 1
  /\ Finish(At(ptr))
  /\ pc' = "idle"
  /\ UNCHANGED <<hash, key, length, resizing>>

-----------------------------------------------------------------------------
Resize ==
  \/ ResizeStart \/ ResizeBucket \/ ResizeMove \/ ResizeChainEnd \/ ResizeFinish

(* What the running call does next. *)
Continue == FindNext \/ Lookup \/ Insert \/ Remove \/ Resize

Next ==
  \/ \E k \in Keys :
       LookupStart(k) \/ RemoveStart(k) \/ \E e \in Handles : InsertStart(k, e)
  \/ Continue

Spec == Init /\ [][Next]_vars

-----------------------------------------------------------------------------
(* Properties.                                                             *)

Slots == ({"list"} \X Nat) \cup ({"next"} \X Handles)

(* Every variable keeps its type. *)
TypeOK ==
  /\ hash \in [Keys -> HashValues]
  /\ key \in [Handles -> Keys \cup {NULL}]
  /\ next_hash \in [Handles -> Handles \cup {NULL}]
  /\ list \in [0 .. length - 1 -> Handles \cup {NULL}]
  /\ length \in Nat /\ elems \in Nat
  /\ pc \in {"idle", "find", "resize", "bucket", "chain"}
  /\ call \in Calls \cup {NULL}
  /\ pc = "find" <=> call # NULL
  /\ call # NULL => ptr \in Slots
  /\ result \in Handles \cup {NULL}
  /\ new_list \in [DOMAIN new_list -> Handles \cup {NULL}]
  /\ i \in 0 .. length /\ h \in Handles \cup {NULL} /\ count \in Nat

(* An entry is only ever in the bucket FindPointer would search for it, in *)
(* the old array and, during Resize, in the new one.                       *)
InBucket ==
  /\ \A b \in OldBuckets : \A e \in ReachableFrom(OldHead(b)) :
       Bucket(key[e], length) = b
  /\ \A b \in DOMAIN new_list : \A e \in ReachableFrom(new_list[b]) :
       Bucket(key[e], Cardinality(DOMAIN new_list)) = b

(* The places that point to e: heads of old and new chains, and entries.   *)
SlotsHolding(e) ==
  ({"old"} \X {b \in OldBuckets : OldHead(b) = e})
    \cup ({"new"} \X {b \in DOMAIN new_list : new_list[b] = e})
    \cup ({"next"} \X {x \in Members : next_hash[x] = e})

(* Each entry of the table is pointed to from exactly one place, so no     *)
(* chain has a loop and no two chains share a tail, not even halfway       *)
(* through Resize, which relinks the chain it is walking.                  *)
OneSlotEach == \A e \in Members : Cardinality(SlotsHolding(e)) = 1

(* elems_ counts the entries, and the assertion that ends Resize holds:    *)
(* it has met each of them once.                                           *)
ElemsExact ==
  /\ elems = Cardinality(Members)
  /\ pc \in {"bucket", "chain"} => count = Cardinality(NewEntries)
  /\ pc = "bucket" /\ i = length => elems = count

(* The mask hash & (length_ - 1) is the remainder by length_, and between  *)
(* calls there are no more entries than buckets.                           *)
ArraySized ==
  /\ length # 0 => \E d \in 0 .. length : length = 2^d
  /\ pc = "idle" => elems <= length

(* The map the table stands for. *)
Contents ==
  LET members == Members
  IN  [k \in Keys |-> IF \E e \in members : key[e] = k
                      THEN CHOOSE e \in members : key[e] = k
                      ELSE NULL]

Table == INSTANCE KeyMap WITH map <- Contents

(* The table answers as a map does, with every hash function, and Resize   *)
(* neither loses nor adds an entry at any step.                            *)
IsKeyMap == Table!Spec
===============================================================================
