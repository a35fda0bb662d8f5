----------------------------- MODULE BufferPool -----------------------------
(***************************************************************************)
(* What a pool of byte arrays promises the threads that share it: an array *)
(* is lent to one thread at a time, and is not pooled meanwhile.            *)
(***************************************************************************)
CONSTANTS Thread, Buffer

VARIABLES pooled,    \* the arrays in the pool
          lent       \* lent[t]: the arrays thread t has

vars == <<pooled, lent>>

Used == pooled \cup UNION { lent[t] : t \in Thread }

Init == pooled = {} /\ lent = [t \in Thread |-> {}]

(* getBA() answers an array of the pool, or a new one. *)
Take(t, b) == /\ b \in pooled
              /\ pooled' = pooled \ {b}
              /\ lent' = [lent EXCEPT ![t] = @ \cup {b}]

Alloc(t, b) == /\ b \notin Used
               /\ lent' = [lent EXCEPT ![t] = @ \cup {b}]
               /\ UNCHANGED pooled

(* returnBA() puts an array back, or leaves it to the garbage collector. *)
Give(t, b) == /\ b \in lent[t]
              /\ pooled' \in {pooled, pooled \cup {b}}
              /\ lent' = [lent EXCEPT ![t] = @ \ {b}]

Next == \E t \in Thread, b \in Buffer : Take(t, b) \/ Alloc(t, b) \/ Give(t, b)

Spec == Init /\ [][Next]_vars
=============================================================================
