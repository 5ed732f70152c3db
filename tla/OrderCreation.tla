--------------------------- MODULE OrderCreation ---------------------------
(***************************************************************************)
(* POST /orders: OrderService.createOrder with the route around it, as      *)
(* concurrent requests run it against the orders collection, up to the      *)
(* event it publishes.                                                      *)
(*                                                                          *)
(* A request waits at two MongoDB commands, the lookup of its key and the   *)
(* insert; what follows an await is the next step of the request, so other  *)
(* requests, faults and restarts come between.                              *)
(***************************************************************************)
EXTENDS OrderRepository, SequencesExt

CONSTANTS
    Requests,       \* create requests (a client's retry is a request of its own)
    Payloads,       \* bodies that pass createOrderBodySchema
    None,           \* what a request does not know (yet)
    MaxFaults       \* bound on restarts and failed MongoDB commands

VARIABLES
    create,         \* progress of each request, or its reply
    requestKey,     \* its Idempotency-Key
    requestBody,    \* its payload
    requestOrder,   \* the order it builds or replays
    announced,      \* every order id ever published on the order-created queue,
                    \* in order (module Shipment has the queue and its workers)
    strayInserts,   \* inserts whose issuer no longer waits for the answer
    faults          \* faults so far

requestVars == <<create, requestKey, requestBody, requestOrder>>
vars == <<orders, requestVars, announced, strayInserts, faults>>

----------------------------------------------------------------------------
(* Payloads *)

(* A payload is what it says about the customer and the amount ("content"),
   the quantities of its items, and the order its properties are written in. *)
ASSUME PayloadsAssumption ==
    \A p \in Payloads :
        /\ p = [content |-> p.content, quantities |-> p.quantities,
                fieldOrder |-> p.fieldOrder]
        /\ p.quantities \in Seq(Nat)

ASSUME NoneAssumption ==
    None \notin RequestIds /\ None \notin Payloads /\ None \notin OrderIds
ASSUME MaxFaultsAssumption == MaxFaults \in Nat

(* hashPayload: stableSerialize sorts the properties, so only their values
   count; SHA-256 is taken to be free of collisions. *)
HashPayload(p) == [content |-> p.content, quantities |-> p.quantities]

ASSUME PayloadHashesAssumption ==
    \A p \in Payloads : HashPayload(p) \in PayloadHashes

MaxPerItem == 10

(* checkAvailability: the payload has no item above the limit. *)
Available(p) == \A i \in 1..Len(p.quantities) : p.quantities[i] <= MaxPerItem

----------------------------------------------------------------------------
(* States *)

Replies == {"200", "201", "400", "429", "mismatch", "unavailable", "500", "dropped"}

(* The requests that hold an order id. *)
Holding == {"insert", "publish", "200", "201"}

Insert == [order : OrderIds, doc : OrderDocument]

TypeOK ==
    /\ orders \in Collection
    /\ create \in [Requests -> {"new", "insert", "publish"} \cup Replies]
    /\ requestKey \in [Requests -> RequestIds \cup {None}]
    /\ requestBody \in [Requests -> Payloads \cup {None}]
    /\ requestOrder \in [Requests -> OrderIds \cup {None}]
    /\ \A r \in Requests :
          create[r] \in Holding => /\ requestKey[r] \in RequestIds
                                   /\ requestBody[r] \in Payloads
                                   /\ requestOrder[r] \in OrderIds
    /\ announced \in Seq(OrderIds)
    /\ strayInserts \in SUBSET Insert
    /\ faults \in 0..MaxFaults

Init ==
    /\ orders = [o \in OrderIds |-> NoDocument]
    /\ create = [r \in Requests |-> "new"]
    /\ requestKey = [r \in Requests |-> None]
    /\ requestBody = [r \in Requests |-> None]
    /\ requestOrder = [r \in Requests |-> None]
    /\ announced = << >>
    /\ strayInserts = {}
    /\ faults = 0

----------------------------------------------------------------------------
(* The request *)

(* The ids randomUUID() can return: those nobody has drawn. *)
FreshIds ==
    {o \in OrderIds :
        /\ ~Stored(o)
        /\ \A r \in Requests : requestOrder[r] # o
        /\ \A w \in strayInserts : w.order # o}

CountFault ==
    /\ faults < MaxFaults
    /\ faults' = faults + 1

DocumentOf(r) == NewOrder(requestKey[r], HashPayload(requestBody[r]))

(* Refused by the rate limiter, the schema or for want of a key: nothing is
   read or written. *)
RefuseCreate(r) ==
    /\ create[r] = "new"
    /\ \E reply \in {"400", "429"} : create' = [create EXCEPT ![r] = reply]
    /\ UNCHANGED <<orders, requestKey, requestBody, requestOrder, announced,
                   strayInserts, faults>>

(* Faulty variant: a replay goes on to publish, as if it had just stored the
   order. *)
LookupAndRepublish(r, key, p) ==
    /\ create[r] = "new"
    /\ requestKey' = [requestKey EXCEPT ![r] = key]
    /\ requestBody' = [requestBody EXCEPT ![r] = p]
    /\ \/ \E o \in FindByRequestId(key) :
             /\ create' = [create EXCEPT ![r] = "publish"]
             /\ requestOrder' = [requestOrder EXCEPT ![r] = o]
       \/ /\ FindByRequestId(key) = {}
          /\ \E o \in FreshIds :
                /\ create' = [create EXCEPT ![r] = "insert"]
                /\ requestOrder' = [requestOrder EXCEPT ![r] = o]
    /\ UNCHANGED <<orders, announced, strayInserts, faults>>

(* Faulty variant: the hash is not compared. *)
ReplayUnchecked(r, p, o) ==
    /\ create' = [create EXCEPT ![r] = "200"]
    /\ requestOrder' = [requestOrder EXCEPT ![r] = o]

(* The order found for the key answers the request, unless its hash differs. *)
ReplayOrConflict(r, p, o) ==
    \/ /\ orders[o].payloadHash = HashPayload(p)
       /\ create' = [create EXCEPT ![r] = "200"]
       /\ requestOrder' = [requestOrder EXCEPT ![r] = o]
    \/ /\ orders[o].payloadHash # HashPayload(p)
       /\ create' = [create EXCEPT ![r] = "mismatch"]
       /\ UNCHANGED requestOrder

(* No order for the key: check availability and build one with a new id. *)
BuildOrder(r, p) ==
    \/ /\ ~Available(p)
       /\ create' = [create EXCEPT ![r] = "unavailable"]
       /\ UNCHANGED requestOrder
    \/ /\ Available(p)
       /\ create' = [create EXCEPT ![r] = "insert"]
       /\ \E o \in FreshIds : requestOrder' = [requestOrder EXCEPT ![r] = o]

(* createOrder up to the insert, decided by what findByRequestId returns. *)
LookupKey(r, key, p) ==
    /\ create[r] = "new"
    /\ requestKey' = [requestKey EXCEPT ![r] = key]
    /\ requestBody' = [requestBody EXCEPT ![r] = p]
    /\ \/ \E o \in FindByRequestId(key) : ReplayOrConflict(r, p, o)
       \/ FindByRequestId(key) = {} /\ BuildOrder(r, p)
    /\ UNCHANGED <<orders, announced, strayInserts, faults>>

(* Faulty variant: the insert is an upsert by requestId, the last one wins. *)
UpsertOrder(r) ==
    /\ create[r] = "insert"
    /\ orders' = [o \in OrderIds |->
                     IF o = requestOrder[r] THEN DocumentOf(r)
                     ELSE IF o \in FindByRequestId(requestKey[r]) THEN NoDocument
                     ELSE orders[o]]
    /\ create' = [create EXCEPT ![r] = "publish"]
    /\ UNCHANGED <<requestKey, requestBody, requestOrder, announced,
                   strayInserts, faults>>

(* repository.create: a unique index may reject the document, and the
   driver's error is not one the route knows, so it becomes a 500. *)
InsertOrder(r) ==
    /\ create[r] = "insert"
    /\ \/ /\ UniqueIndexesAccept(requestOrder[r], DocumentOf(r))
          /\ InsertOne(requestOrder[r], DocumentOf(r))
          /\ create' = [create EXCEPT ![r] = "publish"]
          /\ UNCHANGED requestOrder
       \/ /\ ~UniqueIndexesAccept(requestOrder[r], DocumentOf(r))
          /\ create' = [create EXCEPT ![r] = "500"]
          /\ requestOrder' = [requestOrder EXCEPT ![r] = None]
          /\ UNCHANGED orders
    /\ UNCHANGED <<requestKey, requestBody, announced, strayInserts, faults>>

(* Faulty variant: the reply is sent and the event forgotten. *)
ReplyWithoutPublishing(r) ==
    /\ create[r] = "publish"
    /\ create' = [create EXCEPT ![r] = "201"]
    /\ UNCHANGED <<orders, requestKey, requestBody, requestOrder, announced,
                   strayInserts, faults>>

(* Faulty variant: the event is built after the order is given up. *)
PublishCleared(r) ==
    /\ create[r] = "publish"
    /\ announced' = Append(announced, None)
    /\ create' = [create EXCEPT ![r] = "201"]
    /\ UNCHANGED <<orders, requestKey, requestBody, requestOrder,
                   strayInserts, faults>>

(* publishOrderCreated and the 201. *)
PublishOrder(r) ==
    /\ create[r] = "publish"
    /\ announced' = Append(announced, requestOrder[r])
    /\ create' = [create EXCEPT ![r] = "201"]
    /\ UNCHANGED <<orders, requestKey, requestBody, requestOrder,
                   strayInserts, faults>>

----------------------------------------------------------------------------
(* Faults *)

InsertOf(r) == [order |-> requestOrder[r], doc |-> DocumentOf(r)]

(* The lookup or the insert fails with a driver error: a 500.  A failed insert
   may still be applied later. *)
CreateFault(r) ==
    /\ CountFault
    /\ create[r] \in {"new", "insert"}
    /\ strayInserts' = IF create[r] = "insert" THEN strayInserts \cup {InsertOf(r)}
                                               ELSE strayInserts
    /\ create' = [create EXCEPT ![r] = "500"]
    /\ requestOrder' = [requestOrder EXCEPT ![r] = None]
    /\ UNCHANGED <<orders, requestKey, requestBody, announced>>

(* The process dies and a new one starts: the requests under way are
   gone, an insert already sent is not. *)
Restart ==
    /\ CountFault
    /\ strayInserts' = strayInserts \cup
                       {InsertOf(r) : r \in {q \in Requests : create[q] = "insert"}}
    /\ create' = [r \in Requests |->
                     IF create[r] \in {"insert", "publish"} THEN "dropped" ELSE create[r]]
    /\ requestOrder' = [r \in Requests |->
                     IF create[r] \in {"insert", "publish"} THEN None ELSE requestOrder[r]]
    /\ UNCHANGED <<orders, requestKey, requestBody, announced>>

(* A stray insert reaches MongoDB after all, or never. *)
StrayInsertLands(w) ==
    /\ strayInserts' = strayInserts \ {w}
    /\ \/ UniqueIndexesAccept(w.order, w.doc) /\ InsertOne(w.order, w.doc)
       \/ ~UniqueIndexesAccept(w.order, w.doc) /\ UNCHANGED orders
    /\ UNCHANGED <<requestVars, announced, faults>>

StrayInsertIsLost(w) ==
    /\ strayInserts' = strayInserts \ {w}
    /\ UNCHANGED <<orders, requestVars, announced, faults>>

----------------------------------------------------------------------------
(* The specification *)

Next ==
    \/ \E r \in Requests :
          \/ RefuseCreate(r)
          \/ \E key \in RequestIds, p \in Payloads : LookupKey(r, key, p)
          \/ InsertOrder(r)
          \/ PublishOrder(r)
          \/ CreateFault(r)
    \/ \E w \in strayInserts : StrayInsertLands(w) \/ StrayInsertIsLost(w)
    \/ Restart

Spec == Init /\ [][Next]_vars

(* MongoDB answers, so a request under way goes on; nobody has to send one. *)
Fairness == \A r \in Requests : WF_vars(InsertOrder(r) \/ PublishOrder(r))

FairSpec == Spec /\ Fairness

----------------------------------------------------------------------------
(* Properties *)

(* The bodies two requests carry are the same request, however written. *)
SameBody(p, q) == p.content = q.content /\ p.quantities = q.quantities

Answered(r) == create[r] \in {"200", "201"}

(* All requests of one key that are answered with an order, or hold a stored
   one, have the same order; only one of them created it. *)
OneOrderPerKey ==
    \A q, r \in Requests :
        (/\ create[q] \in {"200", "201", "publish"}
         /\ create[r] \in {"200", "201", "publish"}
         /\ requestKey[q] = requestKey[r])
        => /\ requestOrder[q] = requestOrder[r]
           /\ create[q] # "200" /\ create[r] # "200" => q = r

(* A key is never reused for another body without a 409, nor does the same
   body, in whatever property order, get one: among the requests of a key, those
   answered with the order have one body, those answered "mismatch" another. *)
ConflictExactlyOnMismatch ==
    \A q, r \in Requests :
        (Answered(q) /\ requestKey[q] = requestKey[r]) =>
            /\ Answered(r) => SameBody(requestBody[q], requestBody[r])
            /\ create[r] = "mismatch" => ~SameBody(requestBody[q], requestBody[r])

(* No order is announced twice, whatever is replayed, retried or restarted,
   and none is announced before it is stored. *)
AnnouncedOnce ==
    /\ \A i, j \in 1..Len(announced) : announced[i] = announced[j] => i = j
    /\ \A i \in 1..Len(announced) : Stored(announced[i])

(* The store is a write-once register per key: whichever insert comes first,
   late stray ones included, binds the key, and nothing unbinds it. *)
Bound(key) == {[order |-> o, hash |-> orders[o].payloadHash] : o \in FindByRequestId(key)}

Abstract == INSTANCE IdempotencyKeys
                WITH bound <- [key \in RequestIds |-> Bound(key)]

ImplementsIdempotencyKeys == Abstract!Spec

(* Without a fault every stored order is announced in the end, whichever of
   the requests racing for its key won. *)
StoredIsAnnounced ==
    \A o \in OrderIds :
        Stored(o) ~> faults > 0 \/ o \in ToSet(announced)

(* What DESIGN.md promises to every client whose request is let in and meets no
   failure of MongoDB: 201, 200 or 409, never an internal error. *)
DocumentedReplies == \A r \in Requests : create[r] = "500" => faults > 0

(* What DESIGN.md says becomes of every stored order: a worker consumes its
   event, so the event has to be published. *)
NoStrandedOrder == \A o \in OrderIds : Stored(o) ~> o \in ToSet(announced)
============================================================================
