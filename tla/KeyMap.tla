-------------------------------- MODULE KeyMap --------------------------------
(***************************************************************************)
(* What LRUCache expects of its hash table: a map from keys to entries     *)
(* that answers each call with the entry found under the key of the call.  *)
(***************************************************************************)
CONSTANTS Keys, Handles, NULL

VARIABLES
  map,      \* the entry under each key, or NULL
  call,     \* the call to answer, or NULL
  result    \* the last answer; NULL while a call is to be answered

vars == <<map, call, result>>

Calls == [op : {"Lookup", "Insert", "Remove"}, key : Keys,
          handle : Handles \cup {NULL}]

Init == map = [k \in Keys |-> NULL] /\ call = NULL /\ result = NULL

(* An entry that is inserted is not in the map yet. *)
Request(c) ==
  /\ call = NULL
  /\ call' = c /\ result' = NULL
  /\ c.op = "Insert" => \A k \in Keys : map[k] # c.handle
  /\ UNCHANGED map

Answer ==
  /\ call # NULL
  /\ result' = map[call.key]
  /\ call' = NULL
  /\ map' = CASE call.op = "Lookup" -> map
              [] call.op = "Insert" -> [map EXCEPT ![call.key] = call.handle]
              [] call.op = "Remove" -> [map EXCEPT ![call.key] = NULL]

Next == (\E c \in Calls : Request(c)) \/ Answer

Spec == Init /\ [][Next]_vars
===============================================================================
