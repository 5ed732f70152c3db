--------------------------- MODULE ShipmentLedger ---------------------------
(***************************************************************************)
(* What shipping an order comes to, whatever is retried, requeued, timed    *)
(* out or restarted: Delivery makes shipments for orders, each under an id   *)
(* of its own, and the order records one that was made for it.  When         *)
(* Delivery honours the Idempotency-Key an order has a single shipment, and  *)
(* so a single record, for ever.                                             *)
(***************************************************************************)
CONSTANTS OrderIds, ShipmentIds, NoShipment

VARIABLES
    single,     \* whether Delivery honours the key
    made,       \* the shipments made for each order
    recorded    \* the shipment each order records

Init ==
    /\ single \in BOOLEAN
    /\ made = [o \in OrderIds |-> {}]
    /\ recorded = [o \in OrderIds |-> NoShipment]

(* Delivery makes a shipment. *)
Make(o, s) ==
    /\ \A p \in OrderIds : s \notin made[p]
    /\ single => made[o] = {}
    /\ made' = [made EXCEPT ![o] = made[o] \cup {s}]
    /\ UNCHANGED <<single, recorded>>

(* The order records it. *)
Record(o, s) ==
    /\ s \in made[o]
    /\ recorded' = [recorded EXCEPT ![o] = s]
    /\ UNCHANGED <<single, made>>

Next == \E o \in OrderIds, s \in ShipmentIds : Make(o, s) \/ Record(o, s)

Spec == Init /\ [][Next]_<<single, made, recorded>>
=============================================================================
