-------------------------- MODULE MCOrderCreation --------------------------
(* A small instance of OrderCreation for TLC.  The bodies: one request at the
   availability limit, written in two property orders, and the same request with
   one item more, over the limit. *)
EXTENDS OrderCreation

CONSTANTS alice, k1, k2

Body(quantities, fieldOrder) ==
    [content |-> alice, quantities |-> quantities, fieldOrder |-> fieldOrder]

MCPayloads == {Body(<<1, 10>>, 1), Body(<<1, 10>>, 2), Body(<<1, 11>>, 1)}
MCPayloadHashes == {HashPayload(p) : p \in MCPayloads}
MCRequestIds == {k1, k2}
MCEventIds == {CreatedEventId(key) : key \in MCRequestIds}

----------------------------------------------------------------------------
(* HashPayload against the text that is really hashed *)

MCCollation ==
    [a |-> 1, customerId |-> 2, e |-> 3, f |-> 3, items |-> 4, qty |-> 5]

Text == INSTANCE MCPayloadHash
            WITH Collation <- MCCollation, Bodies <- {}, MaxReplays <- 0,
                 stored <- None, answers <- << >>

(* A payload as the JSON that is sent. *)
Json(p) ==
    LET customer == Text!Entry("customerId", Text!Text(p.content))
        items == Text!Entry("items",
                     Text!Array([i \in 1..Len(p.quantities) |->
                         Text!Object(<<Text!Entry("qty", Text!Number(p.quantities[i]))>>)]))
    IN  Text!Object(IF p.fieldOrder = 1 THEN <<customer, items>> ELSE <<items, customer>>)

(* HashPayload tells payloads apart exactly where stableSerialize does. *)
ASSUME HashIsOfText ==
    \A p, q \in MCPayloads :
        HashPayload(p) = HashPayload(q)
            <=> Text!Serialize(Json(p)) = Text!Serialize(Json(q))

(* And stableSerialize decides right between regular bodies, nested ones included. *)
ASSUME TextsTellRegularBodiesApart == Text!RegularAreToldApart(Text!MCBodies)
============================================================================
