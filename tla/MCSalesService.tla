--------------------------- MODULE MCSalesService ---------------------------
(* A small instance of SalesService for TLC. *)
EXTENDS SalesService

CONSTANTS k1, e1

MCRequestIds == {k1}
MCEventIds == {e1, CreatedEventId(k1)}

Body == [content |-> "a", quantities |-> <<1>>, fieldOrder |-> 1]
MCPayloads == {Body}
MCPayloadHashes == {[content |-> Body.content, quantities |-> Body.quantities]}
============================================================================
