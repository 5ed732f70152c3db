-------------------------- MODULE IdempotencyKeys --------------------------
(***************************************************************************)
(* What order creation promises about Idempotency-Keys: a key is bound at   *)
(* most once, to one new order and one payload hash, and stays bound to     *)
(* them whatever retries, conflicts, faults and restarts follow.            *)
(***************************************************************************)
CONSTANTS RequestIds, OrderIds, PayloadHashes

VARIABLE bound      \* for each key, the set of what it is bound to

Init == bound = [key \in RequestIds |-> {}]

(* No key is bound to the order yet. *)
Unclaimed(o) == \A key \in RequestIds : \A b \in bound[key] : b.order # o

Bind(key, o, hash) ==
    /\ bound[key] = {}
    /\ Unclaimed(o)
    /\ bound' = [bound EXCEPT ![key] = {[order |-> o, hash |-> hash]}]

Next == \E key \in RequestIds, o \in OrderIds, hash \in PayloadHashes :
            Bind(key, o, hash)

Spec == Init /\ [][Next]_bound
=============================================================================
