-------------------------- MODULE MCStatusUpdates --------------------------
(* A small instance of StatusUpdates for TLC: one key, so at most one of the
   two order ids is ever taken; callbacks may carry the created-event id. *)
EXTENDS StatusUpdates

CONSTANTS e1, e2, k1

MCRequestIds == {k1}
MCEventIds == {e1, e2, CreatedEventId(k1)}
============================================================================
