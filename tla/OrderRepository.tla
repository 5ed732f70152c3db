-------------------------- MODULE OrderRepository --------------------------
(***************************************************************************)
(* The MongoDB "orders" collection as repositories/order-repository.ts      *)
(* uses it.  Every call of the repository is one MongoDB command on one     *)
(* document, so each of them is one atomic operator over the collection;    *)
(* the services interleave between two calls, never inside one.             *)
(*                                                                          *)
(* A document keeps the fields the Sales service branches on.  Customer,    *)
(* items, amounts and timestamps are written once or only displayed, and    *)
(* are left out; the payload is represented by its hash.                    *)
(***************************************************************************)
EXTENDS Naturals, Sequences, FiniteSets

CONSTANTS
    OrderIds,       \* public order ids (randomUUID() draws from them)
    RequestIds,     \* Idempotency-Keys of order creation
    PayloadHashes,  \* digests hashPayload can return
    EventIds,       \* event ids: Idempotency-Keys of callbacks, and created-event ids
    ShipmentIds,    \* shipment ids Delivery can return
    NoDocument,     \* findOne found nothing
    NoShipment      \* the optional "shipment" field is absent

VARIABLE orders     \* the collection, by its unique index on "id"

----------------------------------------------------------------------------
(* Documents *)

OrderStatus == {"PENDING_SHIPMENT", "SHIPPED", "DELIVERED"}

StatusEvent == [eventId : EventIds, status : OrderStatus]

OrderDocument ==
    [requestId : RequestIds, payloadHash : PayloadHashes,
     status : OrderStatus, version : Nat, statusHistory : Seq(StatusEvent),
     shipment : ShipmentIds \cup {NoShipment}]

ASSUME NoDocumentAssumption == NoDocument \notin OrderDocument

Collection == [OrderIds -> OrderDocument \cup {NoDocument}]

(* The event id the service itself gives to the first history entry. *)
CreatedEventId(key) == <<"order-created", key>>

(* Those ids are ordinary strings, which a callback may carry too. *)
ASSUME CreatedEventIdAssumption ==
    \A key \in RequestIds : CreatedEventId(key) \in EventIds

(* The document createOrder builds before it is stored. *)
NewOrder(key, hash) ==
    [requestId |-> key, payloadHash |-> hash, status |-> "PENDING_SHIPMENT",
     version |-> 1,
     statusHistory |-> << [eventId |-> CreatedEventId(key),
                           status |-> "PENDING_SHIPMENT"] >>,
     shipment |-> NoShipment]

Stored(o) == orders[o] # NoDocument

(* Faulty variant: only the latest entry is compared. *)
LastIsEvent(doc, id) == doc.statusHistory[Len(doc.statusHistory)].eventId = id

(* statusHistory.some(e => e.eventId === id): also what Mongo's $ne matches on. *)
HasEvent(doc, id) ==
    \E i \in 1..Len(doc.statusHistory) : doc.statusHistory[i].eventId = id

----------------------------------------------------------------------------
(* Commands *)

(* findOne({ requestId }): the orders that carry the key, at most one of
   them as long as the unique index does its work. *)
FindByRequestId(key) == {o \in OrderIds : Stored(o) /\ orders[o].requestId = key}

(* Faulty variant: init() builds the unique index on "id" only. *)
OnlyIdIndexAccepts(o, doc) == ~Stored(o)

(* The unique indexes created by init() reject a document whose id or
   requestId is already present. *)
UniqueIndexesAccept(o, doc) ==
    /\ ~Stored(o)
    /\ FindByRequestId(doc.requestId) = {}

(* insertOne of a document the indexes accept. *)
InsertOne(o, doc) == orders' = [orders EXCEPT ![o] = doc]

(* Faulty variant: the filter names the order only. *)
AppendFilterOnId(o, event, expectedVersion) == Stored(o)

(* The findOneAndUpdate filter: id, optimistic version, event not yet there. *)
AppendFilterMatches(o, event, expectedVersion) ==
    /\ Stored(o)
    /\ orders[o].version = expectedVersion
    /\ ~HasEvent(orders[o], event.eventId)

(* Faulty variant: the $inc is forgotten. *)
AppendedSameVersion(doc, event) ==
    [doc EXCEPT !.status = event.status,
                !.statusHistory = Append(doc.statusHistory, event)]

(* The update of a matching document: $set status, $push history, $inc version. *)
Appended(doc, event) ==
    [doc EXCEPT !.status = event.status,
                !.statusHistory = Append(doc.statusHistory, event),
                !.version = doc.version + 1]

AppendStatusEvent(o, event) ==
    orders' = [orders EXCEPT ![o] = Appended(orders[o], event)]

(* Faulty variant: the order as it was announced is written back whole. *)
ReplaceByAnnounced(o, shipment) ==
    orders' = [p \in OrderIds |->
                  IF p = o /\ Stored(p)
                  THEN [NewOrder(orders[p].requestId, orders[p].payloadHash)
                            EXCEPT !.shipment = shipment]
                  ELSE orders[p]]

(* updateOne({ id }): $set shipment, whatever version the order has by now. *)
UpdateShipmentMetadata(o, shipment) ==
    orders' = [p \in OrderIds |->
                  IF p = o /\ Stored(p) THEN [orders[p] EXCEPT !.shipment = shipment]
                  ELSE orders[p]]
============================================================================
