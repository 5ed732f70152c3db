----------------------------- MODULE MCShipment -----------------------------
(* A small instance of Shipment for TLC: two keys, so at most two of the three
   order ids are ever taken, one of the three refused by Delivery. *)
EXTENDS Shipment

CONSTANTS o1, o2, o3, k1, k2

MCRequestIds == {k1, k2}
MCOrderIds == {o1, o2, o3}
MCUndeliverable == {o3}
MCEventIds == {CreatedEventId(k1), CreatedEventId(k2)}
============================================================================
