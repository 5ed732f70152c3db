--------------------------- MODULE OrderLifecycle ---------------------------
(***************************************************************************)
(* What the Sales service promises about the status of an order, whatever   *)
(* the queues, workers and callbacks do: an order that comes into being is  *)
(* PENDING_SHIPMENT, and every later change appends the next status of the  *)
(* lifecycle to its history.  It never skips, repeats or undoes a step.     *)
(***************************************************************************)
EXTENDS Naturals, Sequences

CONSTANT OrderIds

VARIABLE history    \* for each order, the statuses it has had, oldest first

(* The forward transitions, as the path they form. *)
Lifecycle == <<"PENDING_SHIPMENT", "SHIPPED", "DELIVERED">>

Init == history = [o \in OrderIds |-> << >>]

(* An order exists from its first status on. *)
Create(o) ==
    /\ history[o] = << >>
    /\ history' = [history EXCEPT ![o] = << Lifecycle[1] >>]

(* The next status of the lifecycle is reached. *)
Advance(o) ==
    /\ Len(history[o]) \in 1 .. Len(Lifecycle) - 1
    /\ history' = [history EXCEPT ![o] = Append(@, Lifecycle[Len(@) + 1])]

Next == \E o \in OrderIds : Create(o) \/ Advance(o)

Spec == Init /\ [][Next]_history
=============================================================================
