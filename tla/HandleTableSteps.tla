--------------------------- MODULE HandleTableSteps ---------------------------
(***************************************************************************)
(* HandleTable with a history variable, for how long a call can take: the  *)
(* shard's mutex is held all the while.                                    *)
(***************************************************************************)
EXTENDS MCHandleTable

VARIABLE steps   \* rounds of loops and statements the running call has made

StepsInit == Init /\ steps = 0

StepsNext ==
  /\ Next
  /\ steps' = IF pc # "idle" /\ pc' # "idle" THEN steps + 1 ELSE 0

StepsSpec == StepsInit /\ [][StepsNext]_<<vars, steps>>

(* The loops of FindPointer and Resize end, and soon: a search meets each  *)
(* entry at most once, and Resize passes each bucket and each entry once,  *)
(* although it relinks the chains it walks.                                *)
CallsBounded ==
  /\ pc = "find" => steps <= elems
  /\ pc = "resize" => steps <= elems
  /\ pc \in {"bucket", "chain"} => steps <= elems + 1 + 2 * i + 1 + count
===============================================================================
