------------------------------ MODULE Shipment ------------------------------
(***************************************************************************)
(* From the order-created event to the shipment metadata on the order: the  *)
(* order-created queue, the drains that take events from it (iterations of   *)
(* the polling timer and runs of POST /queues/order-created/process, which   *)
(* overlap), the POST to Delivery with its timeout and its retries, and the  *)
(* metadata write.                                                           *)
(*                                                                           *)
(* A drain waits at the lookup of the order, at each POST (and at the delay  *)
(* after a failed one, which reads nothing), and at the write.  What follows  *)
(* an await is the next step of the drain.  Delivery itself is the           *)
(* environment: the client expects it to deduplicate by Idempotency-Key,     *)
(* the mock does not, and both kinds are covered.                            *)
(***************************************************************************)
EXTENDS OrderRepository, SequencesExt

CONSTANTS
    Workers,        \* drains of the order-created queue under way at once
    NoOrder,        \* what an idle drain holds
    Undeliverable,  \* orders that Delivery answers with a final 4xx
    MaxRetries,     \* DELIVERY_MAX_RETRIES
    MaxFaults       \* bound on restarts, failed commands and failed POSTs

VARIABLES
    createdQueue,   \* the order-created queue, oldest first, as order ids
    announced,      \* every order id ever published there, in order
    workerPc,       \* what each drain does next
    workerOrder,    \* the order of the event it has dequeued
    attempt,        \* how many POSTs of this event have failed
    workerShipment, \* the shipment Delivery answered with
    shipments,      \* Delivery: the shipments it made
    keepsContract,  \* Delivery: whether it honours the Idempotency-Key
    strayPosts,     \* POSTs whose issuer no longer waits for the answer
    strayMetadata,  \* metadata writes whose issuer no longer waits
    due,            \* history: orders announced and not discarded since
    faults          \* faults so far

workerVars == <<workerPc, workerOrder, attempt, workerShipment>>
queueVars == <<createdQueue, announced, due>>
deliveryVars == <<shipments, keepsContract, strayPosts>>
vars == <<orders, workerVars, queueVars, deliveryVars, strayMetadata, faults>>

----------------------------------------------------------------------------
(* States *)

ASSUME NoOrderAssumption == NoOrder \notin OrderIds
ASSUME NoShipmentAssumption == NoShipment \notin ShipmentIds
ASSUME MaxRetriesAssumption == MaxRetries \in Nat
ASSUME MaxFaultsAssumption == MaxFaults \in Nat

ShipmentRecord == [id : ShipmentIds, key : RequestIds, order : OrderIds]

(* A POST left behind, told from others by the fault that left it. *)
StrayPost == [order : OrderIds, since : 0..MaxFaults]

MetadataWrite == [order : OrderIds, id : ShipmentIds]

TypeOK ==
    /\ orders \in Collection
    /\ createdQueue \in Seq(OrderIds)
    /\ announced \in Seq(OrderIds)
    /\ workerPc \in [Workers -> {"idle", "lookup", "post", "save"}]
    /\ workerOrder \in [Workers -> OrderIds \cup {NoOrder}]
    /\ \A w \in Workers : workerPc[w] = "idle" <=> workerOrder[w] = NoOrder
    /\ attempt \in [Workers -> 0..MaxRetries]
    /\ workerShipment \in [Workers -> ShipmentIds \cup {NoShipment}]
    /\ \A w \in Workers : workerPc[w] = "save" <=> workerShipment[w] # NoShipment
    /\ shipments \in SUBSET ShipmentRecord
    /\ keepsContract \in BOOLEAN
    /\ strayPosts \in SUBSET StrayPost
    /\ strayMetadata \in SUBSET MetadataWrite
    /\ due \in SUBSET OrderIds
    /\ faults \in 0..MaxFaults

Init ==
    /\ orders = [o \in OrderIds |-> NoDocument]
    /\ createdQueue = << >>
    /\ announced = << >>
    /\ workerPc = [w \in Workers |-> "idle"]
    /\ workerOrder = [w \in Workers |-> NoOrder]
    /\ attempt = [w \in Workers |-> 0]
    /\ workerShipment = [w \in Workers |-> NoShipment]
    /\ shipments = {}
    /\ keepsContract \in BOOLEAN
    /\ strayPosts = {}
    /\ strayMetadata = {}
    /\ due = {}
    /\ faults = 0

----------------------------------------------------------------------------
(* Orders come into being and are announced once (module OrderCreation) *)

CreateOrder(o, key, hash) ==
    /\ UniqueIndexesAccept(o, NewOrder(key, hash))
    /\ InsertOne(o, NewOrder(key, hash))
    /\ UNCHANGED <<workerVars, queueVars, deliveryVars, strayMetadata, faults>>

(* publishOrderCreated *)
EnqueueCreated(o) ==
    /\ createdQueue' = Append(createdQueue, o)
    /\ announced' = Append(announced, o)
    /\ due' = due \cup {o}

Announce(o) ==
    /\ Stored(o)
    /\ o \notin ToSet(announced)
    /\ EnqueueCreated(o)
    /\ UNCHANGED <<orders, workerVars, deliveryVars, strayMetadata, faults>>

----------------------------------------------------------------------------
(* Delivery *)

(* An id Delivery has not used yet: ids are never interpreted, so it does not
   matter which. *)
UnusedIds == {s \in ShipmentIds : \A r \in shipments : r.id # s}

(* Delivery handles a POST and answers with id: when it keeps the contract and
   knows the key, the shipment it made for the key, else a new one. *)
Handle(key, o, id) ==
    \/ /\ keepsContract
       /\ \E r \in shipments : r.key = key /\ r.id = id
       /\ UNCHANGED shipments
    \/ /\ keepsContract => \A r \in shipments : r.key # key
       /\ UnusedIds # {}
       /\ id = CHOOSE s \in UnusedIds : TRUE
       /\ shipments' = shipments \cup {[id |-> id, key |-> key, order |-> o]}

----------------------------------------------------------------------------
(* The drains *)

Shipped(o) == Stored(o) /\ orders[o].shipment # NoShipment

(* Faulty variant: the event is read but stays in the queue. *)
PeekOrder(w) ==
    /\ workerPc[w] = "idle"
    /\ createdQueue # << >>
    /\ workerPc' = [workerPc EXCEPT ![w] = "lookup"]
    /\ workerOrder' = [workerOrder EXCEPT ![w] = Head(createdQueue)]
    /\ UNCHANGED <<orders, attempt, workerShipment, queueVars, deliveryVars,
                   strayMetadata, faults>>

(* consumeOne takes the oldest event and hands it to handleOrderCreatedEvent. *)
TakeOrder(w) ==
    /\ workerPc[w] = "idle"
    /\ createdQueue # << >>
    /\ createdQueue' = Tail(createdQueue)
    /\ workerPc' = [workerPc EXCEPT ![w] = "lookup"]
    /\ workerOrder' = [workerOrder EXCEPT ![w] = Head(createdQueue)]
    /\ UNCHANGED <<orders, attempt, workerShipment, announced, due, deliveryVars,
                   strayMetadata, faults>>

Idle(w) ==
    /\ workerPc' = [workerPc EXCEPT ![w] = "idle"]
    /\ workerOrder' = [workerOrder EXCEPT ![w] = NoOrder]
    /\ attempt' = [attempt EXCEPT ![w] = 0]
    /\ workerShipment' = [workerShipment EXCEPT ![w] = NoShipment]

(* The handler returned: the loop goes on. *)
Finish(w) == Idle(w) /\ UNCHANGED queueVars

(* Faulty variant: the failed event is dropped. *)
FailAndDrop(w) == Idle(w) /\ UNCHANGED queueVars

(* Faulty variant: the failed event goes back to the front. *)
FailToFront(w) ==
    /\ Idle(w)
    /\ createdQueue' = <<workerOrder[w]>> \o createdQueue
    /\ UNCHANGED <<announced, due>>

(* Faulty variant: the failed event is published anew as well. *)
FailAndRepublish(w) ==
    /\ Idle(w)
    /\ createdQueue' = Append(createdQueue, workerOrder[w])
    /\ announced' = Append(announced, workerOrder[w])
    /\ UNCHANGED due

(* The handler threw: consumeOne puts the event at the back, this drain ends. *)
Fail(w) ==
    /\ Idle(w)
    /\ createdQueue' = Append(createdQueue, workerOrder[w])
    /\ UNCHANGED <<announced, due>>

(* findById: an order that is missing or has its metadata is left alone. *)
LookUp(w) ==
    LET o == workerOrder[w]
    IN  /\ workerPc[w] = "lookup"
        /\ \/ /\ Stored(o) /\ ~Shipped(o)
              /\ workerPc' = [workerPc EXCEPT ![w] = "post"]
              /\ UNCHANGED <<workerOrder, attempt, workerShipment, queueVars>>
           \/ ~(Stored(o) /\ ~Shipped(o)) /\ Finish(w)
        /\ UNCHANGED <<orders, deliveryVars, strayMetadata, faults>>

(* Faulty variant: the key is drawn for the attempt. *)
KeyOfAttempt(w) == CHOOSE key \in RequestIds : key # orders[workerOrder[w]].requestId

(* The Idempotency-Key of a POST is the key the order was created with. *)
PostKey(w) == orders[workerOrder[w]].requestId

(* createShipment is answered: with a shipment, or a 4xx that no retry can mend. *)
Post(w) ==
    LET o == workerOrder[w]
    IN  /\ workerPc[w] = "post"
        /\ \/ /\ o \notin Undeliverable
              /\ \E id \in ShipmentIds :
                    /\ Handle(PostKey(w), o, id)
                    /\ workerShipment' = [workerShipment EXCEPT ![w] = id]
              /\ workerPc' = [workerPc EXCEPT ![w] = "save"]
              /\ attempt' = [attempt EXCEPT ![w] = 0]
              /\ UNCHANGED <<workerOrder, queueVars>>
           \/ o \in Undeliverable /\ Fail(w) /\ UNCHANGED shipments
        /\ UNCHANGED <<orders, keepsContract, strayPosts, strayMetadata, faults>>

(* updateShipmentMetadata with what Delivery answered. *)
SaveMetadata(w) ==
    /\ workerPc[w] = "save"
    /\ UpdateShipmentMetadata(workerOrder[w], workerShipment[w])
    /\ Finish(w)
    /\ UNCHANGED <<deliveryVars, strayMetadata, faults>>

----------------------------------------------------------------------------
(* Faults and operations from outside *)

CountFault ==
    /\ faults < MaxFaults
    /\ faults' = faults + 1

PostOf(w) == [order |-> workerOrder[w], since |-> faults]
MetadataOf(w) == [order |-> workerOrder[w], id |-> workerShipment[w]]

(* Faulty variant: the retries are counted from one. *)
PostFaultRetriedOnceMore(w) ==
    /\ CountFault
    /\ workerPc[w] = "post"
    /\ strayPosts' \in {strayPosts, strayPosts \cup {PostOf(w)}}
    /\ attempt[w] <= MaxRetries
    /\ attempt' = [attempt EXCEPT ![w] = attempt[w] + 1]
    /\ UNCHANGED <<orders, workerPc, workerOrder, workerShipment, queueVars,
                   shipments, keepsContract, strayMetadata>>

(* A POST fails with a 5xx, a 429, a transport error or the timeout; Delivery may
   have handled it, or handle it yet.  It is retried until MaxRetries is used up,
   then the event is put back. *)
PostFault(w) ==
    /\ CountFault
    /\ workerPc[w] = "post"
    /\ strayPosts' \in {strayPosts, strayPosts \cup {PostOf(w)}}
    /\ \/ /\ attempt[w] < MaxRetries
          /\ attempt' = [attempt EXCEPT ![w] = attempt[w] + 1]
          /\ UNCHANGED <<workerPc, workerOrder, workerShipment, queueVars>>
       \/ attempt[w] = MaxRetries /\ Fail(w)
    /\ UNCHANGED <<orders, shipments, keepsContract, strayMetadata>>

(* A MongoDB command of the drain fails.  A failed write may be applied later. *)
WorkerFault(w) ==
    /\ CountFault
    /\ workerPc[w] \in {"lookup", "save"}
    /\ strayMetadata' = IF workerPc[w] = "save" THEN strayMetadata \cup {MetadataOf(w)}
                                                ELSE strayMetadata
    /\ Fail(w)
    /\ UNCHANGED <<orders, deliveryVars>>

(* The process dies and a new one starts: the queue and the drains are gone; a
   POST or a write already sent is not. *)
Restart ==
    /\ CountFault
    /\ createdQueue' = << >>
    /\ due' = {}
    /\ strayPosts' = strayPosts \cup
                     {PostOf(w) : w \in {v \in Workers : workerPc[v] = "post"}}
    /\ strayMetadata' = strayMetadata \cup
                     {MetadataOf(w) : w \in {v \in Workers : workerPc[v] = "save"}}
    /\ workerPc' = [w \in Workers |-> "idle"]
    /\ workerOrder' = [w \in Workers |-> NoOrder]
    /\ attempt' = [w \in Workers |-> 0]
    /\ workerShipment' = [w \in Workers |-> NoShipment]
    /\ UNCHANGED <<orders, announced, shipments, keepsContract>>

(* Delivery handles a POST nobody waits for, or never gets it (or refuses it). *)
StrayPostLands(p) ==
    /\ p.order \notin Undeliverable
    /\ \E id \in ShipmentIds : Handle(orders[p.order].requestId, p.order, id)
    /\ strayPosts' = strayPosts \ {p}
    /\ UNCHANGED <<orders, workerVars, queueVars, keepsContract, strayMetadata, faults>>

StrayPostIsLost(p) ==
    /\ strayPosts' = strayPosts \ {p}
    /\ UNCHANGED <<orders, workerVars, queueVars, shipments, keepsContract,
                   strayMetadata, faults>>

(* A stray metadata write reaches MongoDB after all, or never. *)
StrayMetadataLands(m) ==
    /\ UpdateShipmentMetadata(m.order, m.id)
    /\ strayMetadata' = strayMetadata \ {m}
    /\ UNCHANGED <<workerVars, queueVars, deliveryVars, faults>>

StrayMetadataIsLost(m) ==
    /\ strayMetadata' = strayMetadata \ {m}
    /\ UNCHANGED <<orders, workerVars, queueVars, deliveryVars, faults>>

(* DELETE /queues/order-created. *)
ClearCreatedQueue ==
    /\ createdQueue # << >>
    /\ createdQueue' = << >>
    /\ due' = due \ ToSet(createdQueue)
    /\ UNCHANGED <<orders, workerVars, announced, deliveryVars, strayMetadata, faults>>

----------------------------------------------------------------------------
(* The specification *)

WorkerStep(w) == TakeOrder(w) \/ LookUp(w) \/ Post(w) \/ SaveMetadata(w)

Next ==
    \/ \E o \in OrderIds, key \in RequestIds, hash \in PayloadHashes :
          CreateOrder(o, key, hash)
    \/ \E o \in OrderIds : Announce(o)
    \/ \E w \in Workers : WorkerStep(w) \/ PostFault(w) \/ WorkerFault(w)
    \/ \E p \in strayPosts : StrayPostLands(p) \/ StrayPostIsLost(p)
    \/ \E m \in strayMetadata : StrayMetadataLands(m) \/ StrayMetadataIsLost(m)
    \/ Restart
    \/ ClearCreatedQueue

Spec == Init /\ [][Next]_vars

(* The poll timer keeps firing, and Delivery and MongoDB answer in the end. *)
Fairness == \A w \in Workers : WF_vars(WorkerStep(w))

FairSpec == Spec /\ Fairness

----------------------------------------------------------------------------
(* Properties *)

InHand == {workerOrder[w] : w \in {v \in Workers : workerPc[v] # "idle"}}

(* However often an event fails and is put back, one party has it: it is once in
   the queue, or in the hands of one drain.  That is what makes "find no
   metadata, then POST" safe without any lock. *)
SoleHandler ==
    /\ \A i, j \in 1..Len(createdQueue) : createdQueue[i] = createdQueue[j] => i = j
    /\ \A w \in Workers : workerPc[w] # "idle" => workerOrder[w] \notin ToSet(createdQueue)
    /\ \A v, w \in Workers :
          workerPc[v] # "idle" /\ workerOrder[v] = workerOrder[w] => v = w

(* An order announced and not discarded is shipped, queued or in hand: no
   timeout, refusal or failed write loses it. *)
DueIsHandled ==
    \A o \in due : Shipped(o) \/ o \in ToSet(createdQueue) \/ o \in InHand

(* The shipments made for an order. *)
Made(o) == {r.id : r \in {s \in shipments : s.order = o}}

(* However many timeouts, retries, requeues and restarts come together, Delivery
   makes one shipment for an order when it honours the Idempotency-Key; when it
   does not, no more beside that one than there were faults: a fault costs one
   duplicate, never two, and nothing else costs any. *)
DuplicatesNeedFaults ==
    \A o \in OrderIds :
        Cardinality(Made(o)) <= IF keepsContract THEN 1 ELSE 1 + faults

(* What an order records is a shipment Delivery made for that order, and under
   the contract it is recorded once and for all. *)
Ledger ==
    INSTANCE ShipmentLedger WITH
        single   <- keepsContract,
        made     <- [o \in OrderIds |-> Made(o)],
        recorded <- [o \in OrderIds |->
                        IF Stored(o) THEN orders[o].shipment ELSE NoShipment]

ImplementsLedger == Ledger!Spec

(* Every announced order that Delivery does not refuse is shipped in the end,
   unless it is discarded: a refused order does not hold up the others. *)
DueIsShipped ==
    \A o \in OrderIds \ Undeliverable :
        o \in due ~> o \notin due \/ Shipped(o)
============================================================================
