--------------------------- MODULE ShipmentProofs ---------------------------
(***************************************************************************)
(* Theorems about Shipment for every set of orders, keys, shipment ids and  *)
(* drains, any number of retries and any number of faults.                  *)
(***************************************************************************)
EXTENDS Shipment, OrderRepositoryProofs, FiniteSetTheorems, TLAPS

----------------------------------------------------------------------------
(* Queues without repetition *)

NoneTwice(q) == \A i, j \in 1..Len(q) : q[i] = q[j] => i = j

LEMMA AppendNoneTwice ==
    ASSUME NEW S, NEW q \in Seq(S), NEW e \in S, NoneTwice(q), e \notin ToSet(q)
    PROVE  NoneTwice(Append(q, e))
<1> DEFINE a == Append(q, e)
<1>1. /\ Len(q) \in Nat /\ Len(a) = Len(q) + 1 /\ a[Len(q) + 1] = e
      /\ \A i \in 1..Len(q) : a[i] = q[i]
  OBVIOUS
<1>2. \A i \in 1..Len(q) : q[i] # e
  BY DEF ToSet
<1> HIDE DEF a
<1>3. ASSUME NEW i \in 1..Len(a), NEW j \in 1..Len(a), a[i] = a[j]
      PROVE  i = j
  <2>1. CASE i \in 1..Len(q) /\ j \in 1..Len(q)
    BY <2>1, <1>1, <1>3 DEF NoneTwice
  <2>2. CASE i = Len(q) + 1 \/ j = Len(q) + 1
    BY <2>2, <1>1, <1>2, <1>3
  <2> QED BY <2>1, <2>2, <1>1
<1> QED BY <1>3 DEF NoneTwice, a

LEMMA TailNoneTwice ==
    ASSUME NEW S, NEW q \in Seq(S), q # << >>, NoneTwice(q)
    PROVE  NoneTwice(Tail(q)) /\ Head(q) \notin ToSet(Tail(q))
<1> DEFINE t == Tail(q)
<1>1. /\ Len(q) \in Nat /\ Len(q) > 0 /\ t \in Seq(S) /\ Len(t) = Len(q) - 1
      /\ Head(q) = q[1]
  OBVIOUS
<1>2. \A i \in 1..Len(t) : t[i] = q[i + 1]
  BY <1>1
<1>3. DOMAIN t = 1..Len(t)
  BY <1>1
<1> HIDE DEF t
<1>4. ASSUME NEW i \in 1..Len(t), NEW j \in 1..Len(t), t[i] = t[j]
      PROVE  i = j
  <2>1. i + 1 \in 1..Len(q) /\ j + 1 \in 1..Len(q)
    BY <1>1
  <2>2. i + 1 = j + 1
    BY <2>1, <1>2, <1>4 DEF NoneTwice
  <2> QED BY <2>2
<1>5. ASSUME NEW i \in 1..Len(t) PROVE t[i] # Head(q)
  <2>1. i + 1 \in 1..Len(q) /\ 1 \in 1..Len(q) /\ i + 1 # 1
    BY <1>1
  <2> QED BY <2>1, <1>1, <1>2 DEF NoneTwice
<1> QED BY <1>3, <1>4, <1>5 DEF NoneTwice, ToSet, t

----------------------------------------------------------------------------
(* The collection *)

(* The metadata write changes the shipment of one order, and nothing else. *)
LEMMA MetadataWritten ==
    ASSUME NEW o \in OrderIds, NEW id \in ShipmentIds, orders \in Collection,
           UpdateShipmentMetadata(o, id)
    PROVE  /\ orders' \in Collection
           /\ \A p \in OrderIds : /\ Stored(p)' <=> Stored(p)
                                  /\ Stored(p) => orders'[p].requestId = orders[p].requestId
                                  /\ p # o => orders'[p] = orders[p]
           /\ Stored(o) => orders'[o].shipment = id
<1> DEFINE New(p) == [orders[p] EXCEPT !.shipment = id]
<1>1. ASSUME NEW p \in OrderIds, Stored(p)
      PROVE  /\ New(p) \in OrderDocument /\ New(p) # NoDocument
             /\ New(p).requestId = orders[p].requestId
             /\ New(p).shipment = id
  <2>1. orders[p] \in OrderDocument
    BY <1>1 DEF Collection, Stored
  <2>2. New(p) \in OrderDocument /\ New(p).requestId = orders[p].requestId
        /\ New(p).shipment = id
    BY <2>1 DEF OrderDocument
  <2> QED BY <2>2, NoDocumentAssumption
<1>2. orders' = [p \in OrderIds |-> IF p = o /\ Stored(p) THEN New(p) ELSE orders[p]]
  BY DEF UpdateShipmentMetadata
<1> HIDE DEF New
<1> QED BY <1>1, <1>2 DEF Collection, Stored

(* A creation adds a document that records no shipment, under a new key. *)
LEMMA DocumentCreated ==
    ASSUME NEW o \in OrderIds, NEW key \in RequestIds, NEW hash \in PayloadHashes,
           orders \in Collection, CreateOrder(o, key, hash)
    PROVE  /\ orders' \in Collection
           /\ ~Stored(o) /\ Stored(o)'
           /\ orders'[o].requestId = key /\ orders'[o].shipment = NoShipment
           /\ \A p \in OrderIds : Stored(p) => orders[p].requestId # key
           /\ \A p \in OrderIds \ {o} : orders'[p] = orders[p]
<1>1. /\ NewOrder(key, hash) \in OrderDocument
      /\ NewOrder(key, hash).requestId = key
  BY NewDocument
<1>2. NewOrder(key, hash).shipment = NoShipment
  BY DEF NewOrder
<1>3. NewOrder(key, hash) # NoDocument
  BY <1>1, NoDocumentAssumption
<1>4. /\ orders' = [orders EXCEPT ![o] = NewOrder(key, hash)]
      /\ ~Stored(o)
      /\ \A p \in OrderIds : Stored(p) => orders[p].requestId # key
  BY <1>1 DEF CreateOrder, InsertOne, UniqueIndexesAccept, FindByRequestId
<1> QED BY <1>1, <1>2, <1>3, <1>4 DEF Collection, Stored

----------------------------------------------------------------------------
(* Type correctness *)

(* What TypeOK says of the drains. *)
DrainsTyped ==
    /\ workerPc \in [Workers -> {"idle", "lookup", "post", "save"}]
    /\ workerOrder \in [Workers -> OrderIds \cup {NoOrder}]
    /\ \A w \in Workers : workerPc[w] = "idle" <=> workerOrder[w] = NoOrder
    /\ attempt \in [Workers -> 0..MaxRetries]
    /\ workerShipment \in [Workers -> ShipmentIds \cup {NoShipment}]
    /\ \A w \in Workers : workerPc[w] = "save" <=> workerShipment[w] # NoShipment

LEMMA IdleTyped ==
    ASSUME DrainsTyped, NEW w \in Workers, Idle(w)
    PROVE  DrainsTyped'
BY MaxRetriesAssumption DEF DrainsTyped, Idle

LEMMA HeldOrder ==
    ASSUME TypeOK, NEW w \in Workers, workerPc[w] # "idle"
    PROVE  workerOrder[w] \in OrderIds
BY DEF TypeOK

(* An event put back keeps the queue a queue of order ids. *)
LEMMA FailTyped ==
    ASSUME TypeOK, NEW w \in Workers, workerPc[w] # "idle", Fail(w)
    PROVE  /\ DrainsTyped'
           /\ createdQueue' \in Seq(OrderIds)
           /\ announced' = announced /\ due' = due
<1>1. DrainsTyped
  BY DEF TypeOK, DrainsTyped
<1> QED BY <1>1, IdleTyped, HeldOrder, AppendHolds DEF Fail, TypeOK

LEMMA HandleTyped ==
    ASSUME TypeOK, NEW o \in OrderIds, NEW key \in RequestIds, NEW id \in ShipmentIds,
           Handle(key, o, id)
    PROVE  shipments' \in SUBSET ShipmentRecord
BY DEF Handle, TypeOK, ShipmentRecord

LEMMA TypeInit == Init => TypeOK
BY NoOrderAssumption, NoShipmentAssumption, MaxRetriesAssumption, MaxFaultsAssumption
   DEF Init, TypeOK, Collection

(* The key of a stored order is a key; what is posted, is posted for one. *)
LEMMA KeyTyped ==
    ASSUME TypeOK, NEW o \in OrderIds, Stored(o)
    PROVE  orders[o].requestId \in RequestIds
BY DEF TypeOK, Collection, Stored, OrderDocument

(* Every event was announced for a stored order, wherever it is by now: without
   this the Idempotency-Key of a POST would not be a key. *)
HeldStored ==
    /\ \A o \in ToSet(announced) : Stored(o)
    /\ \A o \in ToSet(createdQueue) : o \in ToSet(announced)
    /\ \A w \in Workers : workerPc[w] # "idle" => workerOrder[w] \in ToSet(announced)
    /\ \A p \in strayPosts : Stored(p.order)

LEMMA TypeNext == TypeOK /\ HeldStored /\ [Next]_vars => TypeOK'
<1> SUFFICES ASSUME TypeOK, HeldStored, [Next]_vars PROVE TypeOK'
  OBVIOUS
<1> DrainsTyped
  BY DEF TypeOK, DrainsTyped
<1> USE MaxFaultsAssumption, MaxRetriesAssumption
<1>1. ASSUME NEW o \in OrderIds, NEW key \in RequestIds, NEW hash \in PayloadHashes,
             CreateOrder(o, key, hash)
      PROVE  TypeOK'
  <2>1. orders' \in Collection
    BY <1>1, DocumentCreated DEF TypeOK
  <2> QED BY <1>1, <2>1 DEF CreateOrder, TypeOK, workerVars, queueVars, deliveryVars
<1>2. ASSUME NEW o \in OrderIds, Announce(o)
      PROVE  TypeOK'
  <2>1. createdQueue' \in Seq(OrderIds) /\ announced' \in Seq(OrderIds)
    BY <1>2, AppendHolds DEF Announce, EnqueueCreated, TypeOK
  <2>2. due' \in SUBSET OrderIds
    BY <1>2 DEF Announce, EnqueueCreated, TypeOK
  <2> QED BY <1>2, <2>1, <2>2 DEF Announce, TypeOK, workerVars, deliveryVars
<1>3. ASSUME NEW w \in Workers, TakeOrder(w)
      PROVE  TypeOK'
  <2>1. Head(createdQueue) \in OrderIds /\ createdQueue' \in Seq(OrderIds)
    BY <1>3, HeadTailHold DEF TakeOrder, TypeOK
  <2>2. DrainsTyped'
    BY <1>3, <2>1, NoOrderAssumption DEF TakeOrder, DrainsTyped
  <2> QED BY <1>3, <2>1, <2>2 DEF TakeOrder, TypeOK, DrainsTyped, deliveryVars
<1>4. ASSUME NEW w \in Workers, LookUp(w)
      PROVE  TypeOK'
  <2>1. DrainsTyped'
    BY <1>4, IdleTyped DEF LookUp, Finish, DrainsTyped
  <2> QED BY <1>4, <2>1 DEF LookUp, Finish, TypeOK, DrainsTyped, queueVars, deliveryVars
<1>5. ASSUME NEW w \in Workers, Post(w)
      PROVE  TypeOK'
  <2> DEFINE o == workerOrder[w]
  <2>1. o \in OrderIds /\ workerPc[w] # "idle"
    BY <1>5, HeldOrder DEF Post
  <2>2. o \in ToSet(announced)
    BY <2>1 DEF HeldStored
  <2>3. PostKey(w) \in RequestIds
    BY <2>1, <2>2, KeyTyped DEF HeldStored, PostKey
  <2>4. ASSUME NEW id \in ShipmentIds, Handle(PostKey(w), o, id),
               workerShipment' = [workerShipment EXCEPT ![w] = id],
               workerPc' = [workerPc EXCEPT ![w] = "save"],
               attempt' = [attempt EXCEPT ![w] = 0],
               UNCHANGED <<workerOrder, queueVars>>
        PROVE  TypeOK'
    <3>1. shipments' \in SUBSET ShipmentRecord
      BY <2>1, <2>3, <2>4, HandleTyped
    <3>2. DrainsTyped'
      BY <1>5, <2>4, NoShipmentAssumption DEF Post, DrainsTyped
    <3> QED BY <1>5, <2>4, <3>1, <3>2 DEF Post, TypeOK, DrainsTyped, queueVars
  <2>5. ASSUME Fail(w), UNCHANGED shipments PROVE TypeOK'
    BY <1>5, <2>1, <2>5, FailTyped DEF Post, TypeOK, DrainsTyped
  <2> QED BY <1>5, <2>4, <2>5 DEF Post
<1>6. ASSUME NEW w \in Workers, SaveMetadata(w)
      PROVE  TypeOK'
  <2>1. workerOrder[w] \in OrderIds /\ workerShipment[w] \in ShipmentIds
    BY <1>6, HeldOrder DEF SaveMetadata, TypeOK
  <2>2. orders' \in Collection
    BY <1>6, <2>1, MetadataWritten DEF SaveMetadata, TypeOK
  <2>3. DrainsTyped'
    BY <1>6, IdleTyped DEF SaveMetadata, Finish
  <2> QED BY <1>6, <2>2, <2>3 DEF SaveMetadata, Finish, TypeOK, DrainsTyped,
                                  queueVars, deliveryVars
<1>7. ASSUME NEW w \in Workers, PostFault(w)
      PROVE  TypeOK'
  <2>1. workerPc[w] # "idle" /\ faults' \in 0..MaxFaults
    BY <1>7 DEF PostFault, CountFault, TypeOK
  <2>2. strayPosts' \in SUBSET StrayPost
    BY <1>7, <2>1, HeldOrder DEF PostFault, PostOf, StrayPost, TypeOK
  <2>3. CASE attempt[w] < MaxRetries
    <3>1. DrainsTyped' /\ UNCHANGED queueVars
      BY <1>7, <2>3 DEF PostFault, DrainsTyped
    <3> QED BY <1>7, <2>1, <2>2, <3>1 DEF PostFault, TypeOK, DrainsTyped, queueVars
  <2>4. CASE Fail(w)
    BY <1>7, <2>1, <2>2, <2>4, FailTyped DEF PostFault, TypeOK, DrainsTyped
  <2> QED BY <1>7, <2>3, <2>4 DEF PostFault
<1>8. ASSUME NEW w \in Workers, WorkerFault(w)
      PROVE  TypeOK'
  <2>1. workerPc[w] # "idle" /\ faults' \in 0..MaxFaults
    BY <1>8 DEF WorkerFault, CountFault, TypeOK
  <2>2. strayMetadata' \in SUBSET MetadataWrite
    BY <1>8, <2>1, HeldOrder DEF WorkerFault, MetadataOf, MetadataWrite, TypeOK
  <2> QED BY <1>8, <2>1, <2>2, FailTyped
          DEF WorkerFault, TypeOK, DrainsTyped, deliveryVars
<1>9. ASSUME NEW p \in strayPosts, StrayPostLands(p)
      PROVE  TypeOK'
  <2>1. p.order \in OrderIds /\ Stored(p.order)
    BY DEF TypeOK, StrayPost, HeldStored
  <2>2. shipments' \in SUBSET ShipmentRecord
    BY <1>9, <2>1, KeyTyped, HandleTyped DEF StrayPostLands
  <2> QED BY <1>9, <2>2 DEF StrayPostLands, TypeOK, workerVars, queueVars
<1>10. ASSUME NEW p \in strayPosts, StrayPostIsLost(p)
       PROVE  TypeOK'
  BY <1>10 DEF StrayPostIsLost, TypeOK, workerVars, queueVars
<1>11. ASSUME NEW m \in strayMetadata, StrayMetadataLands(m)
       PROVE  TypeOK'
  <2>1. m.order \in OrderIds /\ m.id \in ShipmentIds
    BY DEF TypeOK, MetadataWrite
  <2>2. orders' \in Collection
    BY <1>11, <2>1, MetadataWritten DEF StrayMetadataLands, TypeOK
  <2> QED BY <1>11, <2>2 DEF StrayMetadataLands, TypeOK, workerVars, queueVars, deliveryVars
<1>12. ASSUME NEW m \in strayMetadata, StrayMetadataIsLost(m)
       PROVE  TypeOK'
  BY <1>12 DEF StrayMetadataIsLost, TypeOK, workerVars, queueVars, deliveryVars
<1>13. CASE Restart
  <2>1. strayPosts' \in SUBSET StrayPost /\ strayMetadata' \in SUBSET MetadataWrite
    BY <1>13, HeldOrder DEF Restart, TypeOK, PostOf, MetadataOf, StrayPost, MetadataWrite
  <2> QED BY <1>13, <2>1 DEF Restart, CountFault, TypeOK
<1>14. CASE ClearCreatedQueue
  BY <1>14 DEF ClearCreatedQueue, TypeOK, workerVars, deliveryVars
<1>15. CASE UNCHANGED vars
  BY <1>15 DEF vars, TypeOK, workerVars, queueVars, deliveryVars
<1> QED
  BY <1>1, <1>2, <1>3, <1>4, <1>5, <1>6, <1>7, <1>8, <1>9, <1>10, <1>11, <1>12,
     <1>13, <1>14, <1>15 DEF Next, WorkerStep

----------------------------------------------------------------------------
(* What a step does to the collection *)

(* No step drops an order, changes its key or takes its shipment away. *)
OrdersKept ==
    \A o \in OrderIds : Stored(o) =>
        /\ Stored(o)'
        /\ orders'[o].requestId = orders[o].requestId
        /\ Shipped(o) => Shipped(o)'

LEMMA MetadataKeeps ==
    ASSUME TypeOK, NEW o \in OrderIds, NEW id \in ShipmentIds,
           UpdateShipmentMetadata(o, id)
    PROVE  OrdersKept /\ (Stored(o) => Shipped(o)')
<1>1. /\ \A p \in OrderIds : /\ Stored(p)' <=> Stored(p)
                             /\ Stored(p) => orders'[p].requestId = orders[p].requestId
                             /\ p # o => orders'[p] = orders[p]
      /\ Stored(o) => orders'[o].shipment = id
  BY MetadataWritten DEF TypeOK
<1>2. Stored(o) => Shipped(o)'
  BY <1>1, NoShipmentAssumption DEF Shipped
<1>3. \A p \in OrderIds \ {o} : Shipped(p) => Shipped(p)'
  BY <1>1 DEF Shipped
<1> QED BY <1>1, <1>2, <1>3 DEF OrdersKept

LEMMA OrdersAreKept ==
    ASSUME TypeOK, [Next]_vars
    PROVE  OrdersKept
<1>1. ASSUME NEW o \in OrderIds, NEW key \in RequestIds, NEW hash \in PayloadHashes,
             CreateOrder(o, key, hash)
      PROVE  OrdersKept
  <2>1. ~Stored(o) /\ \A p \in OrderIds \ {o} : orders'[p] = orders[p]
    BY <1>1, DocumentCreated DEF TypeOK
  <2> QED BY <2>1 DEF OrdersKept, Stored, Shipped
<1>2. ASSUME NEW w \in Workers, SaveMetadata(w)
      PROVE  OrdersKept
  <2>1. workerOrder[w] \in OrderIds /\ workerShipment[w] \in ShipmentIds
    BY <1>2, HeldOrder DEF SaveMetadata, TypeOK
  <2> QED BY <1>2, <2>1, MetadataKeeps DEF SaveMetadata
<1>3. ASSUME NEW m \in strayMetadata, StrayMetadataLands(m)
      PROVE  OrdersKept
  <2>1. m.order \in OrderIds /\ m.id \in ShipmentIds
    BY DEF TypeOK, MetadataWrite
  <2> QED BY <1>3, <2>1, MetadataKeeps DEF StrayMetadataLands
<1>4. ASSUME UNCHANGED orders PROVE OrdersKept
  BY <1>4 DEF OrdersKept, Stored, Shipped
<1> QED
  BY <1>1, <1>2, <1>3, <1>4
     DEF Next, vars, WorkerStep, Announce, TakeOrder, LookUp, Post, PostFault, WorkerFault,
         StrayPostLands, StrayPostIsLost, StrayMetadataIsLost, Restart, ClearCreatedQueue

----------------------------------------------------------------------------
(* What a step does to the events *)

EventsStay == UNCHANGED <<createdQueue, workerOrder, announced, due>>

EventAnnounced(o) ==
    /\ Stored(o) /\ o \notin ToSet(announced)
    /\ EnqueueCreated(o)
    /\ UNCHANGED workerOrder

EventTaken(w) ==
    /\ workerOrder[w] = NoOrder /\ createdQueue # << >>
    /\ createdQueue' = Tail(createdQueue)
    /\ workerOrder' = [workerOrder EXCEPT ![w] = Head(createdQueue)]
    /\ UNCHANGED <<announced, due>>

EventPutBack(w) ==
    /\ workerOrder[w] \in OrderIds
    /\ workerOrder' = [workerOrder EXCEPT ![w] = NoOrder]
    /\ createdQueue' = Append(createdQueue, workerOrder[w])
    /\ UNCHANGED <<announced, due>>

EventDone(w, o) ==
    /\ workerOrder[w] = o
    /\ workerOrder' = [workerOrder EXCEPT ![w] = NoOrder]
    /\ UNCHANGED <<createdQueue, announced, due>>
    /\ Shipped(o)'

EventsDiscarded ==
    /\ createdQueue' = << >>
    /\ \/ workerOrder' = [w \in Workers |-> NoOrder] /\ due' = {}
       \/ workerOrder' = workerOrder /\ due' = due \ ToSet(createdQueue)
    /\ UNCHANGED announced

EventStep ==
    \/ EventsStay
    \/ \E o \in OrderIds : EventAnnounced(o)
    \/ \E w \in Workers : EventTaken(w) \/ EventPutBack(w)
    \/ \E w \in Workers, o \in OrderIds : EventDone(w, o)
    \/ EventsDiscarded

LEMMA StepOnEvents ==
    ASSUME TypeOK, HeldStored, [Next]_vars
    PROVE  EventStep
<1>1. ASSUME NEW w \in Workers, workerPc[w] # "idle", Fail(w)
      PROVE  EventStep
  BY <1>1, HeldOrder DEF Fail, Idle, EventPutBack, EventStep
<1>2. ASSUME NEW w \in Workers, NEW o \in OrderIds, workerOrder[w] = o, Finish(w),
             Shipped(o)'
      PROVE  EventStep
  BY <1>2 DEF Finish, Idle, queueVars, EventDone, EventStep
<1>3. ASSUME NEW o \in OrderIds, Announce(o) PROVE EventStep
  BY <1>3 DEF Announce, workerVars, EventAnnounced, EventStep
<1>4. ASSUME NEW w \in Workers, TakeOrder(w) PROVE EventStep
  BY <1>4 DEF TakeOrder, TypeOK, EventTaken, EventStep
<1>5. ASSUME NEW w \in Workers, LookUp(w) PROVE EventStep
  <2>1. CASE UNCHANGED <<workerOrder, queueVars>>
    BY <2>1 DEF queueVars, EventsStay, EventStep
  <2>2. CASE ~(Stored(workerOrder[w]) /\ ~Shipped(workerOrder[w])) /\ Finish(w)
    <3>1. PICK o \in OrderIds : workerOrder[w] = o
      BY <1>5, HeldOrder DEF LookUp
    <3>2. Stored(o)
      BY <1>5, <3>1 DEF LookUp, HeldStored
    <3>3. Shipped(o)'
      BY <1>5, <2>2, <3>1, <3>2 DEF LookUp, Shipped, Stored
    <3> QED BY <1>2, <2>2, <3>1, <3>3
  <2> QED BY <1>5, <2>1, <2>2 DEF LookUp
<1>6. ASSUME NEW w \in Workers, Post(w) PROVE EventStep
  <2>1. workerPc[w] # "idle"
    BY <1>6 DEF Post
  <2>2. CASE UNCHANGED <<workerOrder, queueVars>>
    BY <2>2 DEF queueVars, EventsStay, EventStep
  <2> QED BY <1>1, <1>6, <2>1, <2>2 DEF Post
<1>7. ASSUME NEW w \in Workers, SaveMetadata(w) PROVE EventStep
  <2>1. PICK o \in OrderIds : workerOrder[w] = o
    BY <1>7, HeldOrder DEF SaveMetadata
  <2>2. Stored(o) /\ workerShipment[w] \in ShipmentIds
    BY <1>7, <2>1 DEF SaveMetadata, HeldStored, TypeOK
  <2>3. Shipped(o)'
    BY <1>7, <2>1, <2>2, MetadataKeeps DEF SaveMetadata
  <2> QED BY <1>2, <1>7, <2>1, <2>3 DEF SaveMetadata
<1>8. ASSUME NEW w \in Workers, PostFault(w) PROVE EventStep
  <2>1. CASE UNCHANGED <<workerOrder, queueVars>>
    BY <2>1 DEF queueVars, EventsStay, EventStep
  <2>2. workerPc[w] # "idle"
    BY <1>8 DEF PostFault
  <2> QED BY <1>1, <1>8, <2>1, <2>2 DEF PostFault
<1>9. ASSUME NEW w \in Workers, WorkerFault(w) PROVE EventStep
  BY <1>1, <1>9 DEF WorkerFault
<1>10. CASE Restart
  BY <1>10 DEF Restart, EventsDiscarded, EventStep
<1>11. CASE ClearCreatedQueue
  BY <1>11 DEF ClearCreatedQueue, workerVars, EventsDiscarded, EventStep
<1>12. ASSUME UNCHANGED workerOrder, UNCHANGED queueVars PROVE EventStep
  BY <1>12 DEF queueVars, EventsStay, EventStep
<1> QED
  BY <1>3, <1>4, <1>5, <1>6, <1>7, <1>8, <1>9, <1>10, <1>11, <1>12
     DEF Next, vars, workerVars, WorkerStep, CreateOrder, StrayPostLands, StrayPostIsLost,
         StrayMetadataLands, StrayMetadataIsLost

----------------------------------------------------------------------------
(* One party has each event, and no due order is forgotten *)

(* SoleHandler without the program counters. *)
Sole ==
    /\ NoneTwice(createdQueue)
    /\ \A w \in Workers : workerOrder[w] \notin ToSet(createdQueue)
    /\ \A v, w \in Workers :
          workerOrder[v] # NoOrder /\ workerOrder[v] = workerOrder[w] => v = w

LEMMA SoleIsSoleHandler ==
    ASSUME TypeOK
    PROVE  Sole <=> SoleHandler
<1>1. NoOrder \notin ToSet(createdQueue)
  BY ToSetElements, NoOrderAssumption DEF TypeOK
<1>2. \A w \in Workers : workerPc[w] = "idle" <=> workerOrder[w] = NoOrder
  BY DEF TypeOK
<1> QED BY <1>1, <1>2 DEF Sole, SoleHandler, NoneTwice

Handled(o) == o \in ToSet(createdQueue) \/ \E w \in Workers : workerOrder[w] = o

DueHandled == \A o \in due : Shipped(o) \/ Handled(o)

LEMMA DueHandledIsDueIsHandled ==
    ASSUME TypeOK
    PROVE  DueHandled <=> DueIsHandled
<1>1. \A o \in OrderIds : (\E w \in Workers : workerOrder[w] = o) <=> o \in InHand
  BY NoOrderAssumption DEF TypeOK, InHand
<1> QED BY <1>1 DEF DueHandled, DueIsHandled, Handled, TypeOK

(* The events, in the queue or in hand, were announced. *)
HeldAnnounced ==
    /\ \A o \in ToSet(createdQueue) : o \in ToSet(announced)
    /\ \A w \in Workers : workerOrder[w] # NoOrder => workerOrder[w] \in ToSet(announced)

LEMMA EventInvariants ==
    ASSUME TypeOK, TypeOK', OrdersKept, EventStep, HeldAnnounced, Sole, DueHandled
    PROVE  /\ HeldAnnounced' /\ Sole' /\ DueHandled'
           /\ \A o \in ToSet(announced)' : o \in ToSet(announced) \/ Stored(o)
<1> DEFINE Goal == /\ HeldAnnounced' /\ Sole' /\ DueHandled'
                   /\ \A o \in ToSet(announced)' : o \in ToSet(announced) \/ Stored(o)
<1>q. createdQueue \in Seq(OrderIds) /\ announced \in Seq(OrderIds)
      /\ workerOrder \in [Workers -> OrderIds \cup {NoOrder}]
      /\ due \in SUBSET OrderIds
  BY DEF TypeOK
<1>n. NoOrder \notin ToSet(createdQueue) /\ NoOrder \notin OrderIds
  BY <1>q, ToSetElements, NoOrderAssumption
<1>s. \A o \in OrderIds : Shipped(o) => Shipped(o)'
  BY DEF OrdersKept, Shipped
<1> HIDE DEF Goal
<1>1. CASE EventsStay
  BY <1>1, <1>s, <1>q DEF EventsStay, HeldAnnounced, Sole, DueHandled, Handled, Goal
<1>2. ASSUME NEW o \in OrderIds, EventAnnounced(o)
      PROVE  Goal
  <2>1. /\ createdQueue' = Append(createdQueue, o)
        /\ announced' = Append(announced, o)
        /\ workerOrder' = workerOrder /\ due' = due \cup {o}
        /\ Stored(o) /\ o \notin ToSet(announced)
    BY <1>2 DEF EventAnnounced, EnqueueCreated
  <2>2. /\ ToSet(createdQueue') = ToSet(createdQueue) \cup {o}
        /\ ToSet(announced') = ToSet(announced) \cup {o}
    BY <2>1, <1>q, AppendHolds
  <2>3. NoneTwice(createdQueue')
    BY <2>1, <1>q, AppendNoneTwice DEF HeldAnnounced, Sole
  <2>4. Sole'
    BY <2>1, <2>2, <2>3, <1>n DEF HeldAnnounced, Sole, NoneTwice
  <2>5. HeldAnnounced'
    BY <2>1, <2>2 DEF HeldAnnounced
  <2>6. DueHandled'
    BY <2>1, <2>2, <1>q, <1>s DEF DueHandled, Handled
  <2> QED BY <2>1, <2>2, <2>4, <2>5, <2>6 DEF Goal
<1>3. ASSUME NEW w \in Workers, EventTaken(w)
      PROVE  Goal
  <2> DEFINE o == Head(createdQueue)
  <2>1. /\ createdQueue' = Tail(createdQueue) /\ createdQueue # << >>
        /\ announced' = announced /\ due' = due
        /\ workerOrder' = [workerOrder EXCEPT ![w] = o]
        /\ workerOrder[w] = NoOrder
    BY <1>3 DEF EventTaken
  <2>2. o \in OrderIds /\ ToSet(createdQueue) = {o} \cup ToSet(createdQueue')
    BY <2>1, <1>q, HeadTailHold
  <2>3. NoneTwice(createdQueue') /\ o \notin ToSet(createdQueue')
    BY <2>1, <1>q, TailNoneTwice DEF Sole
  <2>4. workerOrder'[w] = o /\ \A v \in Workers \ {w} : workerOrder'[v] = workerOrder[v]
    BY <2>1, <1>q
  <2> HIDE DEF o
  <2>5. Sole'
    BY <2>2, <2>3, <2>4 DEF Sole, NoneTwice
  <2>6. HeldAnnounced'
    BY <2>1, <2>2, <2>4 DEF HeldAnnounced
  <2>7. DueHandled'
    <3>1. ASSUME NEW p \in due, Handled(p) PROVE Handled(p)'
      BY <3>1, <2>1, <2>2, <2>4, <1>q, <1>n DEF Handled
    <3> QED BY <3>1, <2>1, <1>q, <1>s DEF DueHandled
  <2> QED BY <2>1, <2>5, <2>6, <2>7 DEF Goal
<1>4. ASSUME NEW w \in Workers, EventPutBack(w)
      PROVE  Goal
  <2> DEFINE o == workerOrder[w]
  <2>1. /\ createdQueue' = Append(createdQueue, o) /\ o \in OrderIds
        /\ announced' = announced /\ due' = due
        /\ workerOrder' = [workerOrder EXCEPT ![w] = NoOrder]
    BY <1>4 DEF EventPutBack
  <2>2. ToSet(createdQueue') = ToSet(createdQueue) \cup {o}
    BY <2>1, <1>q, AppendHolds
  <2>3. NoneTwice(createdQueue')
    BY <2>1, <1>q, AppendNoneTwice DEF Sole
  <2>4. workerOrder'[w] = NoOrder
        /\ \A v \in Workers \ {w} : workerOrder'[v] = workerOrder[v] /\ workerOrder[v] # o
    BY <2>1, <1>q, <1>n DEF Sole
  <2>5. Sole'
    BY <2>1, <2>2, <2>3, <2>4, <1>n DEF Sole, NoneTwice
  <2>6. HeldAnnounced'
    BY <2>1, <2>2, <2>4, <1>n DEF HeldAnnounced
  <2>7. DueHandled'
    <3>1. ASSUME NEW p \in due, Handled(p) PROVE Handled(p)'
      BY <3>1, <2>2, <2>4 DEF Handled
    <3> QED BY <3>1, <2>1, <1>q, <1>s DEF DueHandled
  <2> QED BY <2>1, <2>5, <2>6, <2>7 DEF Goal
<1>5. ASSUME NEW w \in Workers, NEW o \in OrderIds, EventDone(w, o)
      PROVE  Goal
  <2>1. /\ createdQueue' = createdQueue /\ announced' = announced /\ due' = due
        /\ workerOrder[w] = o /\ workerOrder'[w] = NoOrder /\ Shipped(o)'
        /\ \A v \in Workers \ {w} : workerOrder'[v] = workerOrder[v]
    BY <1>5, <1>q DEF EventDone
  <2>2. Sole'
    BY <2>1, <1>n DEF Sole
  <2>3. HeldAnnounced'
    BY <2>1 DEF HeldAnnounced
  <2>4. DueHandled'
    <3>1. ASSUME NEW p \in due, Handled(p), p # o PROVE Handled(p)'
      BY <3>1, <2>1 DEF Handled
    <3> QED BY <3>1, <2>1, <1>q, <1>s DEF DueHandled
  <2> QED BY <2>1, <2>2, <2>3, <2>4 DEF Goal
<1>6. CASE EventsDiscarded
  <2>1. ToSet(createdQueue') = {} /\ NoneTwice(createdQueue') /\ announced' = announced
    BY <1>6 DEF EventsDiscarded, ToSet, NoneTwice
  <2>2. CASE workerOrder' = [w \in Workers |-> NoOrder] /\ due' = {}
    BY <2>1, <2>2 DEF Sole, HeldAnnounced, DueHandled, NoneTwice, Goal
  <2>3. CASE workerOrder' = workerOrder /\ due' = due \ ToSet(createdQueue)
    BY <2>1, <2>3, <1>q, <1>s DEF Sole, HeldAnnounced, DueHandled, Handled, NoneTwice, Goal
  <2> QED BY <1>6, <2>2, <2>3 DEF EventsDiscarded
<1> QED BY <1>1, <1>2, <1>3, <1>4, <1>5, <1>6 DEF EventStep, Goal

(* A POST is left behind by the drain that held its event. *)
StrayPostsFromDrains ==
    \A p \in strayPosts' : p \in strayPosts \/ \E w \in Workers :
                                 workerPc[w] # "idle" /\ p.order = workerOrder[w]

LEMMA StrayPostsStep ==
    ASSUME TypeOK, [Next]_vars
    PROVE  StrayPostsFromDrains
<1>1. ASSUME NEW w \in Workers, PostFault(w) PROVE StrayPostsFromDrains
  BY <1>1 DEF PostFault, PostOf, StrayPostsFromDrains
<1>2. CASE Restart
  BY <1>2 DEF Restart, PostOf, StrayPostsFromDrains
<1>3. ASSUME strayPosts' \subseteq strayPosts PROVE StrayPostsFromDrains
  BY <1>3 DEF StrayPostsFromDrains
<1> QED
  BY <1>1, <1>2, <1>3
     DEF Next, vars, deliveryVars, WorkerStep, CreateOrder, Announce, TakeOrder, LookUp, Post,
         SaveMetadata, WorkerFault, StrayPostLands, StrayPostIsLost, StrayMetadataLands,
         StrayMetadataIsLost, ClearCreatedQueue

EventInv == TypeOK /\ HeldStored /\ Sole /\ DueHandled

LEMMA EventInvInit == Init => EventInv
<1> SUFFICES ASSUME Init PROVE EventInv
  OBVIOUS
<1>1. TypeOK
  BY TypeInit
<1>2. ToSet(createdQueue) = {} /\ ToSet(announced) = {} /\ NoneTwice(createdQueue)
  BY DEF Init, ToSet, NoneTwice
<1> QED BY <1>1, <1>2 DEF Init, EventInv, HeldStored, Sole, DueHandled

LEMMA EventInvNext == EventInv /\ [Next]_vars => EventInv'
<1> SUFFICES ASSUME EventInv, [Next]_vars PROVE EventInv'
  OBVIOUS
<1>1. TypeOK /\ HeldStored /\ Sole /\ DueHandled
  BY DEF EventInv
<1>2. TypeOK' /\ OrdersKept /\ EventStep /\ StrayPostsFromDrains
  BY <1>1, TypeNext, OrdersAreKept, StepOnEvents, StrayPostsStep
<1>3. HeldAnnounced
  BY <1>1 DEF HeldAnnounced, HeldStored, TypeOK
<1>4. /\ HeldAnnounced' /\ Sole' /\ DueHandled'
      /\ \A o \in ToSet(announced)' : o \in ToSet(announced) \/ Stored(o)
  BY <1>1, <1>2, <1>3, EventInvariants
<1>5. HeldStored'
  <2>1. \A o \in ToSet(announced)' : Stored(o)'
    <3>1. \A o \in ToSet(announced)' : Stored(o) /\ o \in OrderIds
      BY <1>1, <1>2, <1>4, ToSetElements DEF HeldStored, TypeOK
    <3> QED BY <3>1, <1>2 DEF OrdersKept
  <2>2. \A w \in Workers : (workerPc[w] # "idle" => workerOrder[w] \in ToSet(announced))'
    BY <1>2, <1>4 DEF HeldAnnounced, TypeOK
  <2>3. \A p \in strayPosts' : Stored(p.order)'
    <3>1. \A p \in strayPosts' : p.order \in OrderIds
      BY <1>2 DEF TypeOK, StrayPost
    <3>2. \A p \in strayPosts' : Stored(p.order)
      BY <1>1, <1>2 DEF StrayPostsFromDrains, HeldStored
    <3> QED BY <3>1, <3>2, <1>2 DEF OrdersKept
  <2> QED BY <2>1, <2>2, <2>3, <1>4 DEF HeldStored, HeldAnnounced
<1> QED BY <1>2, <1>4, <1>5 DEF EventInv

(* The variables keep their types: in particular a drain that waits for
   Delivery or for the write has an order, and retries at most MaxRetries times. *)
THEOREM TypeCorrect == Spec => []TypeOK
<1>1. EventInv => TypeOK
  BY DEF EventInv
<1> QED BY <1>1, EventInvInit, EventInvNext, PTL DEF Spec

(* However many drains there are and however often events fail and go back, each
   event is once in the queue or in one drain's hands. *)
THEOREM EventsHaveOneHandler == Spec => []SoleHandler
<1>1. EventInv => SoleHandler
  BY SoleIsSoleHandler DEF EventInv
<1> QED BY <1>1, EventInvInit, EventInvNext, PTL DEF Spec

(* No order that was announced and not discarded is forgotten. *)
THEOREM DueOrdersAreHandled == Spec => []DueIsHandled
<1>1. EventInv => DueIsHandled
  BY DueHandledIsDueIsHandled DEF EventInv
<1> QED BY <1>1, EventInvInit, EventInvNext, PTL DEF Spec

----------------------------------------------------------------------------
(* What a step does to Delivery, and to what is recorded of it *)

UniqueKeys ==
    \A o, p \in OrderIds :
        Stored(o) /\ Stored(p) /\ orders[o].requestId = orders[p].requestId => o = p

(* A shipment carries the key its order was created with. *)
MadeForOrders ==
    \A r \in shipments : Stored(r.order) /\ orders[r.order].requestId = r.key

IdsOnce == \A r, s \in shipments : r.id = s.id => r = s

OnePerKey == keepsContract => \A r, s \in shipments : r.key = s.key => r = s

MadeFor(o, id) == \E r \in shipments : r.id = id /\ r.order = o

(* Wherever a shipment id is by now, it is one Delivery made for that order. *)
IdsMadeFor ==
    /\ \A w \in Workers : workerPc[w] = "save" => MadeFor(workerOrder[w], workerShipment[w])
    /\ \A m \in strayMetadata : MadeFor(m.order, m.id)
    /\ \A o \in OrderIds : Shipped(o) => MadeFor(o, orders[o].shipment)

DeliveryInv == UniqueKeys /\ MadeForOrders /\ IdsOnce /\ OnePerKey /\ IdsMadeFor

(* Delivery makes a shipment for an order. *)
ShipmentMade(o, id) ==
    /\ \A r \in shipments : r.id # id
    /\ keepsContract => \A r \in shipments : r.key # orders[o].requestId
    /\ shipments' = shipments \cup {[id |-> id, key |-> orders[o].requestId, order |-> o]}

LEMMA HandleStep ==
    ASSUME TypeOK, UniqueKeys, MadeForOrders, NEW o \in OrderIds, Stored(o),
           NEW id \in ShipmentIds, Handle(orders[o].requestId, o, id)
    PROVE  /\ UNCHANGED shipments \/ ShipmentMade(o, id)
           /\ MadeFor(o, id)'
<1>1. CASE (\E r \in shipments : r.key = orders[o].requestId /\ r.id = id) /\ UNCHANGED shipments
  <2>1. PICK r \in shipments : r.key = orders[o].requestId /\ r.id = id
    BY <1>1
  <2>2. r.order = o
    BY <2>1 DEF TypeOK, ShipmentRecord, UniqueKeys, MadeForOrders
  <2> QED BY <1>1, <2>1, <2>2 DEF MadeFor
<1>2. ASSUME keepsContract => \A r \in shipments : r.key # orders[o].requestId,
             UnusedIds # {}, id = CHOOSE s \in UnusedIds : TRUE,
             shipments' = shipments \cup {[id |-> id, key |-> orders[o].requestId, order |-> o]}
      PROVE  ShipmentMade(o, id) /\ MadeFor(o, id)'
  <2>1. id \in UnusedIds
    BY <1>2
  <2>2. \A r \in shipments : r.id # id
    BY <2>1 DEF UnusedIds
  <2>3. ShipmentMade(o, id)
    BY <1>2, <2>2 DEF ShipmentMade
  <2>4. MadeFor(o, id)'
    <3>1. [id |-> id, key |-> orders[o].requestId, order |-> o] \in shipments'
      BY <1>2
    <3> QED BY <3>1 DEF MadeFor
  <2> QED BY <2>3, <2>4
<1> QED BY <1>1, <1>2 DEF Handle

DeliveryStep ==
    \/ UNCHANGED shipments
    \/ \E o \in OrderIds, id \in ShipmentIds :
          Stored(o) /\ ShipmentMade(o, id) /\ UNCHANGED orders

(* A drain that is answered goes on with a shipment made for its order. *)
LEMMA PostStep ==
    ASSUME TypeOK, HeldStored, UniqueKeys, MadeForOrders, NEW w \in Workers, Post(w)
    PROVE  \/ /\ Fail(w) /\ UNCHANGED shipments
           \/ \E o \in OrderIds, id \in ShipmentIds :
                /\ workerOrder[w] = o /\ Stored(o)
                /\ UNCHANGED shipments \/ ShipmentMade(o, id)
                /\ MadeFor(o, id)'
                /\ workerShipment' = [workerShipment EXCEPT ![w] = id]
                /\ workerPc' = [workerPc EXCEPT ![w] = "save"]
                /\ UNCHANGED <<workerOrder, queueVars>>
<1>1. PICK o \in OrderIds : workerOrder[w] = o
  BY HeldOrder DEF Post
<1>2. Stored(o)
  BY <1>1 DEF Post, HeldStored
<1>3. PostKey(w) = orders[o].requestId
  BY <1>1 DEF PostKey
<1> QED BY <1>1, <1>2, <1>3, HandleStep DEF Post

LEMMA StrayPostStep ==
    ASSUME TypeOK, HeldStored, UniqueKeys, MadeForOrders, NEW p \in strayPosts,
           StrayPostLands(p)
    PROVE  DeliveryStep
<1>1. p.order \in OrderIds /\ Stored(p.order)
  BY DEF TypeOK, StrayPost, HeldStored
<1> QED BY <1>1, HandleStep DEF StrayPostLands, DeliveryStep

LEMMA StepOnDelivery ==
    ASSUME TypeOK, HeldStored, UniqueKeys, MadeForOrders, [Next]_vars
    PROVE  DeliveryStep
<1>1. ASSUME NEW w \in Workers, Post(w) PROVE DeliveryStep
  <2>1. UNCHANGED orders
    BY <1>1 DEF Post
  <2> QED BY <1>1, <2>1, PostStep DEF DeliveryStep
<1>2. ASSUME UNCHANGED shipments PROVE DeliveryStep
  BY <1>2 DEF DeliveryStep
<1> QED
  BY <1>1, <1>2, StrayPostStep
     DEF Next, vars, deliveryVars, WorkerStep, CreateOrder, Announce, TakeOrder, LookUp,
         SaveMetadata, PostFault, WorkerFault, StrayPostIsLost, StrayMetadataLands,
         StrayMetadataIsLost, Restart, ClearCreatedQueue

LEMMA ContractStays == ASSUME [Next]_vars PROVE keepsContract' = keepsContract
BY DEF Next, vars, deliveryVars, WorkerStep, CreateOrder, Announce, TakeOrder, LookUp, Post,
       SaveMetadata, PostFault, WorkerFault, StrayPostLands, StrayPostIsLost,
       StrayMetadataLands, StrayMetadataIsLost, Restart, ClearCreatedQueue

(* Only a creation stores an order; only a write that comes from a drain, itself or
   late, records a shipment. *)
DocumentsStep ==
    \/ UNCHANGED orders
    \/ \E o \in OrderIds, key \in RequestIds, hash \in PayloadHashes : CreateOrder(o, key, hash)
    \/ \E o \in OrderIds, id \in ShipmentIds :
          /\ UpdateShipmentMetadata(o, id)
          /\ MadeFor(o, id) /\ Stored(o)
          /\ UNCHANGED <<shipments, keepsContract>>

LEMMA StepOnDocuments ==
    ASSUME TypeOK, HeldStored, MadeForOrders, IdsMadeFor, [Next]_vars
    PROVE  DocumentsStep
<1>1. ASSUME NEW w \in Workers, SaveMetadata(w) PROVE DocumentsStep
  <2>1. workerOrder[w] \in OrderIds /\ workerShipment[w] \in ShipmentIds
    BY <1>1, HeldOrder DEF SaveMetadata, TypeOK
  <2>2. MadeFor(workerOrder[w], workerShipment[w]) /\ Stored(workerOrder[w])
    BY <1>1 DEF SaveMetadata, IdsMadeFor, MadeFor, MadeForOrders
  <2> QED BY <1>1, <2>1, <2>2 DEF SaveMetadata, deliveryVars, DocumentsStep
<1>2. ASSUME NEW m \in strayMetadata, StrayMetadataLands(m) PROVE DocumentsStep
  <2>1. m.order \in OrderIds /\ m.id \in ShipmentIds
    BY DEF TypeOK, MetadataWrite
  <2>2. MadeFor(m.order, m.id) /\ Stored(m.order)
    BY DEF IdsMadeFor, MadeFor, MadeForOrders
  <2> QED BY <1>2, <2>1, <2>2 DEF StrayMetadataLands, deliveryVars, DocumentsStep
<1>3. ASSUME NEW o \in OrderIds, NEW key \in RequestIds, NEW hash \in PayloadHashes,
             CreateOrder(o, key, hash)
      PROVE  DocumentsStep
  BY <1>3 DEF DocumentsStep
<1>4. ASSUME UNCHANGED orders PROVE DocumentsStep
  BY <1>4 DEF DocumentsStep
<1> QED
  BY <1>1, <1>2, <1>3, <1>4
     DEF Next, vars, WorkerStep, Announce, TakeOrder, LookUp, Post, PostFault, WorkerFault,
         StrayPostLands, StrayPostIsLost, StrayMetadataIsLost, Restart, ClearCreatedQueue

LEMMA UniqueKeysNext ==
    ASSUME TypeOK, UniqueKeys, DocumentsStep
    PROVE  UniqueKeys'
<1>1. CASE UNCHANGED orders
  BY <1>1 DEF UniqueKeys, Stored
<1>2. ASSUME NEW o \in OrderIds, NEW key \in RequestIds, NEW hash \in PayloadHashes,
             CreateOrder(o, key, hash)
      PROVE  UniqueKeys'
  <2>1. /\ orders'[o].requestId = key
        /\ \A p \in OrderIds : Stored(p) => orders[p].requestId # key
        /\ \A p \in OrderIds \ {o} : orders'[p] = orders[p]
    BY <1>2, DocumentCreated DEF TypeOK
  <2> QED BY <2>1 DEF UniqueKeys, Stored
<1>3. ASSUME NEW o \in OrderIds, NEW id \in ShipmentIds, UpdateShipmentMetadata(o, id)
      PROVE  UniqueKeys'
  <2>1. \A p \in OrderIds : /\ Stored(p)' <=> Stored(p)
                            /\ Stored(p) => orders'[p].requestId = orders[p].requestId
    BY <1>3, MetadataWritten DEF TypeOK
  <2> QED BY <2>1 DEF UniqueKeys
<1> QED BY <1>1, <1>2, <1>3 DEF DocumentsStep

LEMMA ShipmentsNext ==
    ASSUME TypeOK, MadeForOrders, IdsOnce, OnePerKey, OrdersKept, DeliveryStep,
           keepsContract' = keepsContract
    PROVE  /\ MadeForOrders' /\ IdsOnce' /\ OnePerKey'
           /\ shipments \subseteq shipments'
<1>1. CASE UNCHANGED shipments
  <2>1. MadeForOrders'
    BY <1>1 DEF MadeForOrders, OrdersKept, TypeOK, ShipmentRecord
  <2> QED BY <1>1, <2>1 DEF IdsOnce, OnePerKey
<1>2. ASSUME NEW o \in OrderIds, NEW id \in ShipmentIds, Stored(o), ShipmentMade(o, id),
             UNCHANGED orders
      PROVE  /\ MadeForOrders' /\ IdsOnce' /\ OnePerKey'
             /\ shipments \subseteq shipments'
  <2> DEFINE new == [id |-> id, key |-> orders[o].requestId, order |-> o]
  <2>1. /\ \A r \in shipments : r.id # id
        /\ keepsContract => \A r \in shipments : r.key # new.key
        /\ shipments' = shipments \cup {new}
        /\ new.id = id /\ new.order = o /\ new.key = orders[o].requestId
    BY <1>2 DEF ShipmentMade
  <2> HIDE DEF new
  <2>2. MadeForOrders'
    BY <1>2, <2>1 DEF MadeForOrders, Stored
  <2>3. IdsOnce' /\ OnePerKey'
    BY <2>1 DEF IdsOnce, OnePerKey
  <2> QED BY <2>1, <2>2, <2>3
<1> QED BY <1>1, <1>2 DEF DeliveryStep

(* A drain gets its shipment id from Delivery, a late write from its drain. *)
LEMMA IdsNext ==
    ASSUME TypeOK, TypeOK', HeldStored, DeliveryInv, [Next]_vars,
           shipments \subseteq shipments'
    PROVE  IdsMadeFor'
<1> UniqueKeys /\ MadeForOrders /\ IdsMadeFor
  BY DEF DeliveryInv
<1>1. ASSUME NEW w \in Workers, workerPc'[w] = "save"
      PROVE  MadeFor(workerOrder[w], workerShipment[w])'
  <2> DEFINE Goal == MadeFor(workerOrder[w], workerShipment[w])'
  <2>1. ASSUME NEW v \in Workers, Post(v), v = w
        PROVE  Goal
    <3>1. ~Fail(w)
      BY <1>1 DEF Fail, Idle, TypeOK
    <3>2. PICK o \in OrderIds, id \in ShipmentIds :
             /\ workerOrder[w] = o /\ MadeFor(o, id)'
             /\ workerShipment' = [workerShipment EXCEPT ![w] = id]
             /\ UNCHANGED workerOrder
      BY <2>1, <3>1, PostStep
    <3>3. workerOrder'[w] = o /\ workerShipment'[w] = id
      BY <3>2 DEF TypeOK
    <3> QED BY <3>2, <3>3 DEF MadeFor
  <2>2. ASSUME workerPc[w] = "save", workerOrder'[w] = workerOrder[w],
               workerShipment'[w] = workerShipment[w]
        PROVE  Goal
    BY <2>2 DEF IdsMadeFor, MadeFor
  <2>3. ASSUME NEW v \in Workers, Fail(v) \/ Finish(v)
        PROVE  Goal
    BY <1>1, <2>2, <2>3 DEF Fail, Finish, Idle, TypeOK
  <2>4. ASSUME NEW v \in Workers, WorkerStep(v) \/ PostFault(v) \/ WorkerFault(v)
        PROVE  Goal
    <3>1. CASE TakeOrder(v)
      BY <1>1, <2>2, <3>1 DEF TakeOrder, TypeOK
    <3>2. CASE LookUp(v)
      BY <1>1, <2>2, <2>3, <3>2 DEF LookUp, TypeOK
    <3>3. CASE Post(v)
      BY <1>1, <2>1, <2>2, <2>3, <3>3 DEF Post, TypeOK
    <3>4. CASE SaveMetadata(v)
      BY <2>3, <3>4 DEF SaveMetadata
    <3>5. CASE PostFault(v)
      BY <1>1, <2>2, <2>3, <3>5 DEF PostFault, TypeOK
    <3>6. CASE WorkerFault(v)
      BY <2>3, <3>6 DEF WorkerFault
    <3> QED BY <2>4, <3>1, <3>2, <3>3, <3>4, <3>5, <3>6 DEF WorkerStep
  <2>5. CASE Restart
    BY <1>1, <2>5 DEF Restart
  <2>6. CASE UNCHANGED workerVars
    BY <1>1, <2>2, <2>6 DEF workerVars
  <2> QED
    BY <2>4, <2>5, <2>6
       DEF Next, vars, CreateOrder, Announce, StrayPostLands, StrayPostIsLost,
           StrayMetadataLands, StrayMetadataIsLost, ClearCreatedQueue
<1>2. ASSUME NEW m \in strayMetadata'
      PROVE  MadeFor(m.order, m.id)'
  <2>1. m \in strayMetadata \/ \E w \in Workers : workerPc[w] = "save" /\ m = MetadataOf(w)
    <3>1. CASE strayMetadata' \subseteq strayMetadata
      BY <3>1
    <3>2. ASSUME NEW w \in Workers, WorkerFault(w)
          PROVE  <2>1
      BY <3>2 DEF WorkerFault
    <3>3. CASE Restart
      BY <3>3 DEF Restart
    <3> QED
      BY <3>1, <3>2, <3>3
         DEF Next, vars, WorkerStep, CreateOrder, Announce, TakeOrder, LookUp, Post,
             SaveMetadata, PostFault, StrayPostLands, StrayPostIsLost, StrayMetadataLands,
             StrayMetadataIsLost, ClearCreatedQueue
  <2>2. MadeFor(m.order, m.id)
    BY <2>1 DEF IdsMadeFor, MetadataOf
  <2> QED BY <2>2 DEF MadeFor
<1>3. ASSUME NEW o \in OrderIds, Shipped(o)'
      PROVE  MadeFor(o, orders[o].shipment)'
  <2>1. DocumentsStep
    BY StepOnDocuments
  <2>2. CASE UNCHANGED orders
    BY <1>3, <2>2 DEF IdsMadeFor, MadeFor, Shipped, Stored
  <2>3. ASSUME NEW p \in OrderIds, NEW key \in RequestIds, NEW hash \in PayloadHashes,
               CreateOrder(p, key, hash)
        PROVE  MadeFor(o, orders[o].shipment)'
    <3>1. /\ orders'[p].shipment = NoShipment
          /\ \A q \in OrderIds \ {p} : orders'[q] = orders[q]
      BY <2>3, DocumentCreated DEF TypeOK
    <3>2. orders'[o] = orders[o]
      BY <1>3, <3>1 DEF Shipped
    <3>3. MadeFor(o, orders[o].shipment)
      BY <1>3, <3>2 DEF IdsMadeFor, Shipped, Stored
    <3> QED BY <3>2, <3>3 DEF MadeFor
  <2>4. ASSUME NEW p \in OrderIds, NEW id \in ShipmentIds,
               UpdateShipmentMetadata(p, id), MadeFor(p, id), Stored(p)
        PROVE  MadeFor(o, orders[o].shipment)'
    <3>1. /\ orders'[p].shipment = id
          /\ \A q \in OrderIds : q # p => orders'[q] = orders[q]
      BY <2>4, MetadataWritten DEF TypeOK
    <3>2. CASE o = p
      BY <2>4, <3>1, <3>2 DEF MadeFor
    <3>3. CASE o # p
      <4>1. orders'[o] = orders[o]
        BY <3>1, <3>3
      <4>2. MadeFor(o, orders[o].shipment)
        BY <1>3, <4>1 DEF IdsMadeFor, Shipped, Stored
      <4> QED BY <4>1, <4>2 DEF MadeFor
    <3> QED BY <3>2, <3>3
  <2> QED BY <2>1, <2>2, <2>3, <2>4 DEF DocumentsStep
<1> QED BY <1>1, <1>2, <1>3 DEF IdsMadeFor

----------------------------------------------------------------------------
(* Every duplicate has a fault of its own *)

LEMMA AtMostOneMore ==
    ASSUME NEW S, IsFiniteSet(S), NEW T, NEW x, T \subseteq S \cup {x}
    PROVE  /\ IsFiniteSet(T)
           /\ Cardinality(T) \in Nat /\ Cardinality(S) \in Nat
           /\ Cardinality(T) <= Cardinality(S) + 1
<1>1. /\ IsFiniteSet(S \cup {x})
      /\ Cardinality(S \cup {x}) <= Cardinality(S) + 1
      /\ Cardinality(S) \in Nat
  BY FS_AddElement, FS_CardinalityType
<1>2. IsFiniteSet(T) /\ Cardinality(T) <= Cardinality(S \cup {x})
  BY <1>1, FS_Subset
<1>3. Cardinality(T) \in Nat /\ Cardinality(S \cup {x}) \in Nat
  BY <1>1, <1>2, FS_CardinalityType
<1> QED BY <1>1, <1>2, <1>3

LEMMA NoMore ==
    ASSUME NEW S, IsFiniteSet(S), NEW T, T \subseteq S
    PROVE  /\ IsFiniteSet(T)
           /\ Cardinality(T) \in Nat /\ Cardinality(S) \in Nat
           /\ Cardinality(T) <= Cardinality(S)
BY FS_Subset, FS_CardinalityType

PostsOf(o) == {p \in strayPosts : p.order = o}

(* An order is still to be posted: its event is to come, queued, or in the hands
   of a drain that has no answer yet. *)
ToBePosted(o) ==
    \/ o \notin ToSet(announced)
    \/ o \in ToSet(createdQueue)
    \/ \E w \in Workers : workerOrder[w] = o /\ workerPc[w] # "save"

(* The shipments there are, those a POST left behind may make, and the one that
   is to be posted are no more than the faults account for. *)
Account(o) ==
    /\ IsFiniteSet(Made(o)) /\ IsFiniteSet(PostsOf(o))
    /\ Cardinality(Made(o)) + Cardinality(PostsOf(o)) + (IF ToBePosted(o) THEN 1 ELSE 0)
         <= 1 + faults

FaultsAccount == ~keepsContract => \A o \in OrderIds : Account(o)

(* What a step does to the account of an order: nothing, or it is a fault, which
   leaves one POST behind or lets the order be posted anew, or a shipment. *)
AccountStays(o) ==
    /\ UNCHANGED faults
    /\ Made(o)' \subseteq Made(o) /\ PostsOf(o)' \subseteq PostsOf(o)
    /\ ToBePosted(o)' => ToBePosted(o)

FaultCounted(o) ==
    /\ faults' = faults + 1
    /\ Made(o)' \subseteq Made(o)
    /\ \/ PostsOf(o)' \subseteq PostsOf(o)
       \/ ToBePosted(o) /\ \E p : PostsOf(o)' \subseteq PostsOf(o) \cup {p}

ShipmentCounted(o) ==
    /\ UNCHANGED faults
    /\ \E id : Made(o)' \subseteq Made(o) \cup {id}
    /\ \/ /\ ToBePosted(o) /\ ~ToBePosted(o)'
          /\ PostsOf(o)' \subseteq PostsOf(o)
       \/ /\ ToBePosted(o)' => ToBePosted(o)
          /\ \E p \in PostsOf(o) : PostsOf(o)' = PostsOf(o) \ {p}

AccountStep(o) == AccountStays(o) \/ FaultCounted(o) \/ ShipmentCounted(o)

LEMMA AccountKept ==
    ASSUME NEW o, faults \in Nat, Account(o), AccountStep(o)
    PROVE  Account(o)'
<1> DEFINE m == Cardinality(Made(o))
           s == Cardinality(PostsOf(o))
           b == IF ToBePosted(o) THEN 1 ELSE 0
<1>1. /\ m \in Nat /\ s \in Nat /\ b \in 0..1 /\ m + s + b <= 1 + faults
      /\ b' \in 0..1 /\ (ToBePosted(o) => b = 1) /\ (~ToBePosted(o)' => b' = 0)
      /\ ((ToBePosted(o)' => ToBePosted(o)) => b' <= b)
  BY FS_CardinalityType DEF Account
<1>2. IsFiniteSet(Made(o)) /\ IsFiniteSet(PostsOf(o))
  BY DEF Account
<1>3. ASSUME /\ IsFiniteSet(Made(o)') /\ IsFiniteSet(PostsOf(o)')
             /\ m' + s' + b' <= 1 + faults'
      PROVE  Account(o)'
  BY <1>3 DEF Account
<1>4. CASE AccountStays(o)
  <2>1. /\ IsFiniteSet(Made(o)') /\ IsFiniteSet(PostsOf(o)')
        /\ m' \in Nat /\ m' <= m /\ s' \in Nat /\ s' <= s
    BY <1>2, <1>4, NoMore DEF AccountStays
  <2>2. faults' = faults /\ b' <= b
    BY <1>1, <1>4 DEF AccountStays
  <2> QED BY <1>1, <1>3, <2>1, <2>2
<1>5. CASE FaultCounted(o)
  <2>1. IsFiniteSet(Made(o)') /\ m' \in Nat /\ m' <= m /\ faults' = faults + 1
    BY <1>2, <1>5, NoMore DEF FaultCounted
  <2>2. CASE PostsOf(o)' \subseteq PostsOf(o)
    <3>1. IsFiniteSet(PostsOf(o)') /\ s' \in Nat /\ s' <= s
      BY <1>2, <2>2, NoMore
    <3> QED BY <1>1, <1>3, <2>1, <3>1
  <2>3. ASSUME ToBePosted(o), NEW p, PostsOf(o)' \subseteq PostsOf(o) \cup {p}
        PROVE  Account(o)'
    <3>1. IsFiniteSet(PostsOf(o)') /\ s' \in Nat /\ s' <= s + 1
      BY <1>2, <2>3, AtMostOneMore
    <3>2. b = 1
      BY <1>1, <2>3
    <3> QED BY <1>1, <1>3, <2>1, <3>1, <3>2
  <2> QED BY <1>5, <2>2, <2>3 DEF FaultCounted
<1>6. CASE ShipmentCounted(o)
  <2>1. PICK id : Made(o)' \subseteq Made(o) \cup {id}
    BY <1>6 DEF ShipmentCounted
  <2>2. IsFiniteSet(Made(o)') /\ m' \in Nat /\ m' <= m + 1
    BY <1>2, <2>1, AtMostOneMore
  <2>5. faults' = faults
    BY <1>6 DEF ShipmentCounted
  <2>3. CASE ToBePosted(o) /\ ~ToBePosted(o)' /\ PostsOf(o)' \subseteq PostsOf(o)
    <3>1. IsFiniteSet(PostsOf(o)') /\ s' \in Nat /\ s' <= s
      BY <1>2, <2>3, NoMore
    <3>2. b = 1 /\ b' = 0
      BY <1>1, <2>3
    <3> QED BY <1>1, <1>3, <2>2, <2>5, <3>1, <3>2
  <2>4. ASSUME ToBePosted(o)' => ToBePosted(o), NEW p \in PostsOf(o),
               PostsOf(o)' = PostsOf(o) \ {p}
        PROVE  Account(o)'
    <3>1. IsFiniteSet(PostsOf(o)') /\ s' = s - 1
      BY <1>2, <2>4, FS_RemoveElement
    <3>2. b' <= b
      BY <1>1, <2>4
    <3> QED BY <1>1, <1>3, <2>2, <2>5, <3>1, <3>2
  <2> QED BY <1>6, <2>3, <2>4 DEF ShipmentCounted
<1> QED BY <1>4, <1>5, <1>6 DEF AccountStep

(* The parts of the account follow the variables. *)
LEMMA SamePostsAndShipments ==
    ASSUME NEW o
    PROVE  /\ UNCHANGED shipments => Made(o)' = Made(o)
           /\ strayPosts' \subseteq strayPosts => PostsOf(o)' \subseteq PostsOf(o)
BY DEF Made, PostsOf

LEMMA ShipmentsOfOthers ==
    ASSUME NEW o, NEW p, NEW id, UNCHANGED shipments \/ ShipmentMade(p, id)
    PROVE  /\ Made(o)' \subseteq Made(o) \cup {id}
           /\ p # o => Made(o)' \subseteq Made(o)
<1>1. CASE UNCHANGED shipments
  BY <1>1, SamePostsAndShipments
<1>2. CASE ShipmentMade(p, id)
  <2> DEFINE new == [id |-> id, key |-> orders[p].requestId, order |-> p]
  <2>1. shipments' = shipments \cup {new} /\ new.order = p /\ new.id = id
    BY <1>2 DEF ShipmentMade
  <2> HIDE DEF new
  <2> QED BY <2>1 DEF Made
<1> QED BY <1>1, <1>2

(* The handler returns or throws, and the drain goes idle. *)
LEMMA EventGivenUp ==
    ASSUME TypeOK, NEW w \in Workers, workerPc[w] # "idle", NEW o \in OrderIds,
           \/ Fail(w) /\ workerPc[w] # "save"
           \/ Finish(w)
    PROVE  ToBePosted(o)' => ToBePosted(o)
<1>1. /\ workerOrder'[w] = NoOrder
      /\ \A v \in Workers \ {w} : workerOrder'[v] = workerOrder[v] /\ workerPc'[v] = workerPc[v]
      /\ announced' = announced
  BY DEF Fail, Finish, Idle, queueVars, TypeOK
<1>2. o # NoOrder /\ workerOrder[w] \in OrderIds /\ createdQueue \in Seq(OrderIds)
  BY NoOrderAssumption DEF TypeOK
<1>3. CASE Finish(w)
  BY <1>1, <1>2, <1>3 DEF ToBePosted, Finish, queueVars
<1>4. CASE Fail(w) /\ workerPc[w] # "save"
  <2>1. ToSet(createdQueue') = ToSet(createdQueue) \cup {workerOrder[w]}
    BY <1>2, <1>4, AppendHolds DEF Fail
  <2> QED BY <1>1, <1>2, <1>4, <2>1 DEF ToBePosted
<1> QED BY <1>3, <1>4

LEMMA WorkerAccount ==
    ASSUME TypeOK, HeldStored, Sole, UniqueKeys, MadeForOrders,
           NEW w \in Workers, WorkerStep(w), NEW o \in OrderIds
    PROVE  AccountStep(o)
<1>1. UNCHANGED <<faults, strayPosts>>
  BY DEF WorkerStep, TakeOrder, LookUp, Post, SaveMetadata, deliveryVars
<1>2. PostsOf(o)' \subseteq PostsOf(o)
  BY <1>1, SamePostsAndShipments
<1>3. ASSUME UNCHANGED shipments, ToBePosted(o)' => ToBePosted(o)
      PROVE  AccountStep(o)
  BY <1>1, <1>2, <1>3, SamePostsAndShipments DEF AccountStep, AccountStays
<1>4. CASE TakeOrder(w)
  <2>1. ToSet(createdQueue) = {Head(createdQueue)} \cup ToSet(createdQueue')
    BY <1>4, HeadTailHold DEF TakeOrder, TypeOK
  <2>2. /\ workerOrder'[w] = Head(createdQueue)
        /\ \A v \in Workers \ {w} : workerOrder'[v] = workerOrder[v] /\ workerPc'[v] = workerPc[v]
        /\ announced' = announced /\ UNCHANGED shipments
    BY <1>4 DEF TakeOrder, TypeOK, deliveryVars
  <2> QED BY <1>3, <2>1, <2>2 DEF ToBePosted
<1>5. CASE LookUp(w)
  <2>1. UNCHANGED shipments /\ workerPc[w] = "lookup"
    BY <1>5 DEF LookUp, deliveryVars
  <2>2. CASE Finish(w)
    BY <1>3, <2>1, <2>2, EventGivenUp
  <2>3. CASE /\ workerPc' = [workerPc EXCEPT ![w] = "post"]
             /\ UNCHANGED <<workerOrder, queueVars>>
    BY <1>3, <2>1, <2>3 DEF ToBePosted, queueVars, TypeOK
  <2> QED BY <1>5, <2>2, <2>3 DEF LookUp
<1>6. CASE Post(w)
  <2>1. workerPc[w] = "post"
    BY <1>6 DEF Post
  <2>2. CASE Fail(w) /\ UNCHANGED shipments
    BY <1>3, <2>1, <2>2, EventGivenUp
  <2>3. ASSUME NEW p \in OrderIds, NEW id \in ShipmentIds,
               workerOrder[w] = p, UNCHANGED shipments \/ ShipmentMade(p, id),
               workerPc' = [workerPc EXCEPT ![w] = "save"],
               UNCHANGED <<workerOrder, queueVars>>
        PROVE  AccountStep(o)
    <3>1. /\ workerPc'[w] = "save"
          /\ \A v \in Workers \ {w} : workerPc'[v] = workerPc[v]
          /\ workerOrder' = workerOrder /\ createdQueue' = createdQueue /\ announced' = announced
      BY <2>3 DEF TypeOK, queueVars
    <3>2. ToBePosted(o)' => ToBePosted(o)
      BY <2>1, <3>1 DEF ToBePosted
    <3>3. CASE p # o
      <4>1. Made(o)' \subseteq Made(o)
        BY <2>3, <3>3, ShipmentsOfOthers
      <4> QED BY <1>1, <1>2, <3>2, <4>1 DEF AccountStep, AccountStays
    <3>4. CASE p = o
      <4>1. ToBePosted(o)
        BY <2>1, <2>3, <3>4 DEF ToBePosted
      <4>2. ~ToBePosted(o)'
        <5>1. o \in ToSet(announced) /\ o \notin ToSet(createdQueue)
          BY <2>1, <2>3, <3>4 DEF HeldStored, Sole
        <5>2. \A v \in Workers : workerOrder[v] = o => v = w
          BY <2>3, <3>4, NoOrderAssumption DEF Sole
        <5> QED BY <3>1, <5>1, <5>2 DEF ToBePosted
      <4>3. Made(o)' \subseteq Made(o) \cup {id}
        BY <2>3, <3>4, ShipmentsOfOthers
      <4> QED BY <1>1, <1>2, <4>1, <4>2, <4>3 DEF AccountStep, ShipmentCounted
    <3> QED BY <3>3, <3>4
  <2> QED BY <1>6, <2>2, <2>3, PostStep
<1>7. CASE SaveMetadata(w)
  BY <1>3, <1>7, EventGivenUp DEF SaveMetadata, deliveryVars
<1> QED BY <1>4, <1>5, <1>6, <1>7 DEF WorkerStep

LEMMA FaultAccount ==
    ASSUME TypeOK, Sole, NEW o \in OrderIds,
           Restart \/ \E w \in Workers : PostFault(w) \/ WorkerFault(w)
    PROVE  AccountStep(o)
<1>1. faults' = faults + 1 /\ UNCHANGED shipments
  BY DEF Restart, PostFault, WorkerFault, CountFault, deliveryVars
<1>2. Made(o)' \subseteq Made(o)
  BY <1>1, SamePostsAndShipments
<1>3. ASSUME \/ PostsOf(o)' \subseteq PostsOf(o)
             \/ ToBePosted(o) /\ \E p : PostsOf(o)' \subseteq PostsOf(o) \cup {p}
      PROVE  AccountStep(o)
  BY <1>1, <1>2, <1>3 DEF AccountStep, FaultCounted
<1>4. ASSUME NEW w \in Workers, workerPc[w] = "post", workerOrder[w] = o,
             strayPosts' \subseteq strayPosts \cup {PostOf(v) : v \in Workers},
             \A p \in strayPosts' : p \in strayPosts \/ p.order # o \/ p = PostOf(w)
      PROVE  AccountStep(o)
  <2>1. ToBePosted(o)
    BY <1>4 DEF ToBePosted
  <2>2. PostsOf(o)' \subseteq PostsOf(o) \cup {PostOf(w)}
    BY <1>4 DEF PostsOf
  <2> QED BY <1>3, <2>1, <2>2
<1>5. \A v : PostOf(v).order = workerOrder[v]
  BY DEF PostOf
<1>6. ASSUME \A p \in strayPosts' : p \in strayPosts \/ p.order # o
      PROVE  AccountStep(o)
  <2>1. PostsOf(o)' \subseteq PostsOf(o)
    BY <1>6 DEF PostsOf
  <2> QED BY <1>3, <2>1
<1>7. ASSUME NEW w \in Workers, PostFault(w) PROVE AccountStep(o)
  <2>1. workerPc[w] = "post" /\ strayPosts' \subseteq strayPosts \cup {PostOf(w)}
    BY <1>7 DEF PostFault
  <2>2. CASE workerOrder[w] = o
    BY <1>4, <2>1, <2>2
  <2>3. CASE workerOrder[w] # o
    BY <1>5, <1>6, <2>1, <2>3
  <2> QED BY <2>2, <2>3
<1>8. ASSUME NEW w \in Workers, WorkerFault(w) PROVE AccountStep(o)
  BY <1>6, <1>8 DEF WorkerFault, deliveryVars
<1>9. CASE Restart
  <2>1. strayPosts' = strayPosts \cup {PostOf(w) : w \in {v \in Workers : workerPc[v] = "post"}}
    BY <1>9 DEF Restart
  <2>2. CASE \E w \in Workers : workerPc[w] = "post" /\ workerOrder[w] = o
    <3>1. PICK w \in Workers : workerPc[w] = "post" /\ workerOrder[w] = o
      BY <2>2
    <3>2. \A v \in Workers : workerOrder[v] = o => v = w
      BY <3>1, NoOrderAssumption DEF Sole
    <3> QED BY <1>4, <1>5, <2>1, <3>1, <3>2
  <2>3. CASE ~ \E w \in Workers : workerPc[w] = "post" /\ workerOrder[w] = o
    BY <1>5, <1>6, <2>1, <2>3
  <2> QED BY <2>2, <2>3
<1> QED BY <1>7, <1>8, <1>9

LEMMA StepOnAccounts ==
    ASSUME TypeOK, HeldStored, Sole, UniqueKeys, MadeForOrders, [Next]_vars,
           NEW o \in OrderIds
    PROVE  AccountStep(o)
<1>1. ASSUME UNCHANGED <<faults, shipments>>, strayPosts' \subseteq strayPosts,
             ToBePosted(o)' => ToBePosted(o)
      PROVE  AccountStep(o)
  BY <1>1, SamePostsAndShipments DEF AccountStep, AccountStays
<1>2. UNCHANGED <<announced, createdQueue, workerOrder, workerPc>>
        => ToBePosted(o)' = ToBePosted(o)
  BY DEF ToBePosted
<1>3. ASSUME NEW p \in OrderIds, Announce(p) PROVE AccountStep(o)
  <2>1. /\ ToSet(announced') = ToSet(announced) \cup {p}
        /\ ToSet(createdQueue') = ToSet(createdQueue) \cup {p}
    BY <1>3, AppendHolds DEF Announce, EnqueueCreated, TypeOK
  <2>2. ToBePosted(o)' => ToBePosted(o)
    BY <1>3, <2>1 DEF ToBePosted, Announce, workerVars
  <2> QED BY <1>1, <1>3, <2>2 DEF Announce, deliveryVars
<1>4. CASE ClearCreatedQueue
  <2>1. ToSet(createdQueue') = {}
    BY <1>4 DEF ClearCreatedQueue, ToSet
  <2>2. ToBePosted(o)' => ToBePosted(o)
    BY <1>4, <2>1 DEF ToBePosted, ClearCreatedQueue, workerVars
  <2> QED BY <1>1, <1>4, <2>2 DEF ClearCreatedQueue, deliveryVars
<1>5. ASSUME NEW p \in strayPosts, StrayPostLands(p) PROVE AccountStep(o)
  <2>1. /\ UNCHANGED <<faults, announced, createdQueue, workerOrder, workerPc>>
        /\ strayPosts' = strayPosts \ {p}
    BY <1>5 DEF StrayPostLands, workerVars, queueVars
  <2>2. p.order \in OrderIds /\ Stored(p.order)
    BY DEF TypeOK, StrayPost, HeldStored
  <2>3. PICK id \in ShipmentIds : UNCHANGED shipments \/ ShipmentMade(p.order, id)
    BY <1>5, <2>2, HandleStep DEF StrayPostLands
  <2>4. CASE p.order = o
    <3>1. p \in PostsOf(o) /\ PostsOf(o)' = PostsOf(o) \ {p}
      BY <2>1, <2>4 DEF PostsOf
    <3>2. Made(o)' \subseteq Made(o) \cup {id}
      BY <2>3, ShipmentsOfOthers
    <3> QED BY <1>2, <2>1, <3>1, <3>2 DEF AccountStep, ShipmentCounted
  <2>5. CASE p.order # o
    <3>1. Made(o)' \subseteq Made(o) /\ PostsOf(o)' \subseteq PostsOf(o)
      BY <2>1, <2>3, <2>5, ShipmentsOfOthers, SamePostsAndShipments
    <3> QED BY <1>2, <2>1, <3>1 DEF AccountStep, AccountStays
  <2> QED BY <2>4, <2>5
<1>6. ASSUME UNCHANGED <<faults, shipments, workerVars, queueVars>>,
             strayPosts' \subseteq strayPosts
      PROVE  AccountStep(o)
  BY <1>1, <1>2, <1>6 DEF workerVars, queueVars
<1> QED
  BY <1>3, <1>4, <1>5, <1>6, WorkerAccount, FaultAccount
     DEF Next, vars, deliveryVars, CreateOrder, StrayPostIsLost, StrayMetadataLands,
         StrayMetadataIsLost

LEMMA FaultsAccountNext ==
    ASSUME TypeOK, HeldStored, Sole, UniqueKeys, MadeForOrders, FaultsAccount, [Next]_vars
    PROVE  FaultsAccount'
<1> SUFFICES ASSUME ~keepsContract', NEW o \in OrderIds PROVE Account(o)'
  BY DEF FaultsAccount
<1>1. Account(o)
  BY ContractStays DEF FaultsAccount
<1>2. AccountStep(o)
  BY StepOnAccounts
<1>3. faults \in Nat
  BY MaxFaultsAssumption DEF TypeOK
<1> QED BY <1>1, <1>2, <1>3, AccountKept

----------------------------------------------------------------------------
(* One shipment per order, and one more per fault *)

IInv == EventInv /\ DeliveryInv /\ FaultsAccount

LEMMA IInvInit == Init => IInv
<1> SUFFICES ASSUME Init PROVE IInv
  OBVIOUS
<1>1. \A o \in OrderIds : ~Stored(o)
  BY DEF Init, Stored
<1>2. UniqueKeys /\ MadeForOrders /\ IdsOnce /\ OnePerKey /\ IdsMadeFor
  BY <1>1 DEF Init, UniqueKeys, MadeForOrders, IdsOnce, OnePerKey, IdsMadeFor, Shipped
<1>3. ASSUME NEW o \in OrderIds PROVE Account(o)
  <2>1. Made(o) = {} /\ PostsOf(o) = {} /\ faults = 0
    BY DEF Init, Made, PostsOf
  <2>2. IsFiniteSet({}) /\ Cardinality({}) = 0
    BY FS_EmptySet
  <2> QED BY <2>1, <2>2 DEF Account
<1> QED BY <1>2, <1>3, EventInvInit DEF IInv, DeliveryInv, FaultsAccount

LEMMA IInvNext == IInv /\ [Next]_vars => IInv'
<1> SUFFICES ASSUME IInv, [Next]_vars PROVE IInv'
  OBVIOUS
<1>1. /\ TypeOK /\ HeldStored /\ Sole
      /\ UniqueKeys /\ MadeForOrders /\ IdsOnce /\ OnePerKey /\ IdsMadeFor
  BY DEF IInv, EventInv, DeliveryInv
<1>2. EventInv' /\ TypeOK'
  BY EventInvNext DEF IInv, EventInv
<1>3. OrdersKept /\ DocumentsStep /\ DeliveryStep /\ keepsContract' = keepsContract
  BY <1>1, OrdersAreKept, StepOnDocuments, StepOnDelivery, ContractStays
<1>4. UniqueKeys'
  BY <1>1, <1>3, UniqueKeysNext
<1>5. MadeForOrders' /\ IdsOnce' /\ OnePerKey' /\ shipments \subseteq shipments'
  BY <1>1, <1>3, ShipmentsNext
<1>6. IdsMadeFor'
  BY <1>1, <1>2, <1>5, IdsNext DEF IInv
<1>7. FaultsAccount'
  BY <1>1, FaultsAccountNext DEF IInv
<1> QED BY <1>2, <1>4, <1>5, <1>6, <1>7 DEF IInv, DeliveryInv

LEMMA IInvariant == Spec => []IInv
BY IInvInit, IInvNext, PTL DEF Spec

(* Under Delivery's contract an order is shipped once, whatever is aborted,
   retried, requeued or late; without it, each duplicate has a fault of its own,
   so that there is none as long as nothing fails. *)
THEOREM EachDuplicateHasAFault == Spec => []DuplicatesNeedFaults
<1>1. IInv => DuplicatesNeedFaults
  <2> SUFFICES ASSUME IInv, NEW o \in OrderIds
               PROVE  Cardinality(Made(o)) <= IF keepsContract THEN 1 ELSE 1 + faults
    BY DEF DuplicatesNeedFaults
  <2>1. CASE keepsContract
    <3>1. \A r, s \in shipments : r.order = o /\ s.order = o => r = s
      BY <2>1 DEF IInv, DeliveryInv, MadeForOrders, OnePerKey
    <3>2. Made(o) = {} \/ \E id : Made(o) = {id}
      BY <3>1 DEF Made
    <3>3. Cardinality(Made(o)) \in {0, 1}
      BY <3>2, FS_EmptySet, FS_Singleton
    <3> QED BY <2>1, <3>3
  <2>2. CASE ~keepsContract
    <3>1. Account(o) /\ faults \in Nat
      BY <2>2, MaxFaultsAssumption DEF IInv, FaultsAccount, EventInv, TypeOK
    <3>2. Cardinality(Made(o)) \in Nat /\ Cardinality(PostsOf(o)) \in Nat
      BY <3>1, FS_CardinalityType DEF Account
    <3> QED BY <2>2, <3>1, <3>2 DEF Account
  <2> QED BY <2>1, <2>2
<1> QED BY <1>1, IInvariant, PTL

----------------------------------------------------------------------------
(* Nothing but an announcement leads to a shipment *)

(* Delivery makes shipments for announced orders only, however late it handles a
   POST that was aborted or outlived its process. *)
ShippedWasAnnounced == \A r \in shipments : r.order \in ToSet(announced)

PostsAreAnnounced == \A p \in strayPosts : p.order \in ToSet(announced)

(* A new shipment is for the order of a drain's event or of a POST left behind. *)
LEMMA ShipmentsFromEvents ==
    ASSUME [Next]_vars, NEW r \in shipments', r \notin shipments
    PROVE  \/ \E w \in Workers : workerPc[w] # "idle" /\ r.order = workerOrder[w]
           \/ \E p \in strayPosts : r.order = p.order
<1>1. ASSUME NEW w \in Workers, Post(w)
      PROVE  workerPc[w] # "idle" /\ r.order = workerOrder[w]
  BY <1>1 DEF Post, Handle
<1>2. ASSUME NEW p \in strayPosts, StrayPostLands(p)
      PROVE  r.order = p.order
  BY <1>2 DEF StrayPostLands, Handle
<1> QED
  BY <1>1, <1>2
     DEF Next, vars, deliveryVars, WorkerStep, CreateOrder, Announce, TakeOrder, LookUp,
         SaveMetadata, PostFault, WorkerFault, StrayPostIsLost, StrayMetadataLands,
         StrayMetadataIsLost, Restart, ClearCreatedQueue

LEMMA AnnouncementsStay ==
    ASSUME TypeOK, HeldStored, [Next]_vars
    PROVE  ToSet(announced) \subseteq ToSet(announced')
<1>1. EventStep /\ announced \in Seq(OrderIds)
  BY StepOnEvents DEF TypeOK
<1>2. ASSUME NEW o \in OrderIds, EventAnnounced(o)
      PROVE  ToSet(announced) \subseteq ToSet(announced')
  <2>1. announced' = Append(announced, o)
    BY <1>2 DEF EventAnnounced, EnqueueCreated
  <2> QED BY <1>1, <2>1, AppendHolds
<1>3. announced' = announced \/ \E o \in OrderIds : EventAnnounced(o)
  BY <1>1 DEF EventStep, EventsStay, EventTaken, EventPutBack, EventDone, EventsDiscarded
<1>4. announced' = announced => ToSet(announced') = ToSet(announced)
  OBVIOUS
<1> QED BY <1>2, <1>3, <1>4

(* handleOrderCreatedEvent posts for the orders of events only, and so do the
   POSTs that a timeout or a restart left behind. *)
THEOREM OnlyAnnouncedOrdersAreShipped == Spec => []ShippedWasAnnounced
<1> DEFINE Inv == ShippedWasAnnounced /\ PostsAreAnnounced
<1>1. Init => Inv
  BY DEF Init, ShippedWasAnnounced, PostsAreAnnounced
<1>2. EventInv /\ Inv /\ [Next]_vars => Inv'
  <2> SUFFICES ASSUME EventInv, Inv, [Next]_vars PROVE Inv'
    OBVIOUS
  <2>1. ToSet(announced) \subseteq ToSet(announced')
    BY AnnouncementsStay DEF EventInv
  <2>2. \A w \in Workers : workerPc[w] # "idle" => workerOrder[w] \in ToSet(announced)
    BY DEF EventInv, HeldStored
  <2>3. ShippedWasAnnounced'
    BY <2>1, <2>2, ShipmentsFromEvents DEF ShippedWasAnnounced, PostsAreAnnounced
  <2>4. PostsAreAnnounced'
    BY <2>1, <2>2, StrayPostsStep DEF PostsAreAnnounced, StrayPostsFromDrains, EventInv
  <2> QED BY <2>3, <2>4
<1>3. Inv => ShippedWasAnnounced
  OBVIOUS
<1> HIDE DEF Inv
<1> QED BY <1>1, <1>2, <1>3, EventInvInit, EventInvNext, PTL DEF Spec

----------------------------------------------------------------------------
(* Shipment implements ShipmentLedger *)

recordedOf == [o \in OrderIds |-> IF Stored(o) THEN orders[o].shipment ELSE NoShipment]
madeOf == [o \in OrderIds |-> Made(o)]

LEMMA MadeIsMadeFor == \A o, id : id \in Made(o) <=> MadeFor(o, id)
BY DEF Made, MadeFor

LEMMA LedgerInitially == Init => Ledger!Init
<1> SUFFICES ASSUME Init PROVE Ledger!Init
  OBVIOUS
<1>1. \A o \in OrderIds : ~Stored(o) /\ Made(o) = {}
  BY DEF Init, Stored, Made
<1> QED BY <1>1 DEF Init, Ledger!Init

LEMMA LedgerMake ==
    ASSUME IInv, NEW o \in OrderIds, NEW id \in ShipmentIds, ShipmentMade(o, id),
           Stored(o), UNCHANGED <<orders, keepsContract>>
    PROVE  Ledger!Make(o, id)
<1>1. /\ \A r \in shipments : r.id # id
      /\ keepsContract => \A r \in shipments : r.key # orders[o].requestId
      /\ shipments' = shipments \cup {[id |-> id, key |-> orders[o].requestId, order |-> o]}
  BY DEF ShipmentMade
<1>2. \A p \in OrderIds : id \notin Made(p)
  BY <1>1 DEF Made
<1>3. keepsContract => Made(o) = {}
  BY <1>1 DEF IInv, DeliveryInv, MadeForOrders, Made
<1>4. Made(o)' = Made(o) \cup {id} /\ \A p \in OrderIds \ {o} : Made(p)' = Made(p)
  <2> DEFINE new == [id |-> id, key |-> orders[o].requestId, order |-> o]
  <2>1. shipments' = shipments \cup {new} /\ new.id = id /\ new.order = o
    BY <1>1
  <2> HIDE DEF new
  <2>2. ASSUME NEW p \in OrderIds
        PROVE  Made(p)' = IF p = o THEN Made(p) \cup {id} ELSE Made(p)
    <3>1. \A i : (\E r \in shipments' : r.order = p /\ r.id = i)
                  <=> (\E r \in shipments : r.order = p /\ r.id = i) \/ (p = o /\ i = id)
      BY <2>1
    <3>2. \A i : i \in Made(p)' <=> \E r \in shipments' : r.order = p /\ r.id = i
      BY DEF Made
    <3>3. \A i : i \in Made(p) <=> \E r \in shipments : r.order = p /\ r.id = i
      BY DEF Made
    <3> QED BY <3>1, <3>2, <3>3
  <2> QED BY <2>2
<1>5. madeOf' = [madeOf EXCEPT ![o] = madeOf[o] \cup {id}]
  BY <1>4 DEF madeOf
<1>6. recordedOf' = recordedOf
  BY DEF recordedOf, Stored
<1> QED BY <1>2, <1>3, <1>5, <1>6 DEF Ledger!Make, madeOf, recordedOf

LEMMA LedgerRecord ==
    ASSUME IInv, NEW o \in OrderIds, NEW id \in ShipmentIds,
           UpdateShipmentMetadata(o, id), MadeFor(o, id), Stored(o),
           UNCHANGED <<shipments, keepsContract>>
    PROVE  Ledger!Record(o, id)
<1>1. /\ \A p \in OrderIds : /\ Stored(p)' <=> Stored(p)
                             /\ p # o => orders'[p] = orders[p]
      /\ orders'[o].shipment = id
  BY MetadataWritten DEF IInv, EventInv, TypeOK
<1>2. recordedOf' = [recordedOf EXCEPT ![o] = id]
  BY <1>1 DEF recordedOf
<1>3. id \in madeOf[o] /\ madeOf' = madeOf
  BY MadeIsMadeFor DEF madeOf, Made
<1> QED BY <1>2, <1>3 DEF Ledger!Record, madeOf, recordedOf

LEMMA LedgerSimulation ==
    IInv /\ [Next]_vars => [Ledger!Next]_<<keepsContract, madeOf, recordedOf>>
<1> SUFFICES ASSUME IInv, [Next]_vars
             PROVE  Ledger!Next \/ UNCHANGED <<keepsContract, madeOf, recordedOf>>
  OBVIOUS
<1>1. /\ TypeOK /\ HeldStored /\ UniqueKeys /\ MadeForOrders /\ IdsMadeFor
  BY DEF IInv, EventInv, DeliveryInv
<1>2. DocumentsStep /\ DeliveryStep /\ keepsContract' = keepsContract
  BY <1>1, StepOnDocuments, StepOnDelivery, ContractStays
<1>3. ASSUME NEW o \in OrderIds, NEW id \in ShipmentIds,
             Stored(o), ShipmentMade(o, id), UNCHANGED orders
      PROVE  Ledger!Next
  BY <1>2, <1>3, LedgerMake DEF Ledger!Next
<1>4. ASSUME NEW o \in OrderIds, NEW id \in ShipmentIds,
             UpdateShipmentMetadata(o, id), MadeFor(o, id), Stored(o),
             UNCHANGED <<shipments, keepsContract>>
      PROVE  Ledger!Next
  BY <1>4, LedgerRecord DEF Ledger!Next
<1>5. ASSUME UNCHANGED shipments, UNCHANGED orders
      PROVE  UNCHANGED <<keepsContract, madeOf, recordedOf>>
  BY <1>2, <1>5 DEF madeOf, recordedOf, Made, Stored
<1>6. ASSUME NEW o \in OrderIds, NEW key \in RequestIds, NEW hash \in PayloadHashes,
             CreateOrder(o, key, hash), UNCHANGED shipments
      PROVE  UNCHANGED <<keepsContract, madeOf, recordedOf>>
  <2>1. /\ ~Stored(o) /\ orders'[o].shipment = NoShipment
        /\ \A p \in OrderIds \ {o} : orders'[p] = orders[p]
    BY <1>1, <1>6, DocumentCreated DEF TypeOK
  <2>2. recordedOf' = recordedOf
    BY <2>1 DEF recordedOf, Stored
  <2> QED BY <1>2, <1>6, <2>2 DEF madeOf, Made
<1>7. ASSUME NEW o \in OrderIds, NEW key \in RequestIds, NEW hash \in PayloadHashes,
             CreateOrder(o, key, hash)
      PROVE  UNCHANGED shipments
  BY <1>7 DEF CreateOrder, deliveryVars
<1> QED BY <1>2, <1>3, <1>4, <1>5, <1>6, <1>7 DEF DocumentsStep, DeliveryStep

(* What an order records is a shipment Delivery made for it, under an id of no
   other order, and under the contract the only one: Shipment implements the
   ledger. *)
THEOREM LedgerImplemented == Spec => ImplementsLedger
<1>1. Init => Ledger!Init
  BY LedgerInitially
<1>2. IInv /\ [Next]_vars => [Ledger!Next]_<<keepsContract, madeOf, recordedOf>>
  BY LedgerSimulation
<1> QED BY <1>1, <1>2, IInvariant, PTL DEF Spec, ImplementsLedger, Ledger!Spec, madeOf, recordedOf
=============================================================================
