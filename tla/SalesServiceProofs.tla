-------------------------- MODULE SalesServiceProofs --------------------------
(***************************************************************************)
(* Theorems about SalesService: the whole service implements each part with *)
(* the environment it was modelled with, for every value of the constants;  *)
(* what the parts promise holds of the documents they share; and behind     *)
(* every shipment is a request that was answered 201.                       *)
(*                                                                          *)
(* Each part's module of proofs is instantiated with what the part sees of  *)
(* the collection, so that its invariants can be used about the service.    *)
(***************************************************************************)
EXTENDS SalesService, OrderRepositoryProofs, TLAPS

CP == INSTANCE OrderCreationProofs WITH orders <- CreationSees, faults <- createFaults
UP == INSTANCE StatusUpdatesProofs WITH orders <- UpdatesSee, faults <- updateFaults
SP == INSTANCE ShipmentProofs WITH orders <- ShippingSees, faults <- shipmentFaults

----------------------------------------------------------------------------
(* What the parts see of a document *)

LEMMA SeenDocuments ==
    ASSUME orders \in Collection, NEW o \in OrderIds
    PROVE  /\ CreationSees[o] = AsCreated(o)
           /\ UpdatesSee[o] = WithoutShipment(o)
           /\ ShippingSees[o] = WithoutUpdates(o)
BY DEF CreationSees, UpdatesSee, ShippingSees

LEMMA NewIsNew ==
    ASSUME NEW key \in RequestIds, NEW hash \in PayloadHashes,
           NEW doc, doc = NewOrder(key, hash)
    PROVE  /\ NewOrder(doc.requestId, doc.payloadHash) = doc
           /\ [doc EXCEPT !.shipment = NoShipment] = doc
           /\ doc.shipment = NoShipment
           /\ [doc EXCEPT !.shipment = doc.shipment] = doc
BY DEF NewOrder

LEMMA SeenStored ==
    ASSUME orders \in Collection, NEW o \in OrderIds, Stored(o)
    PROVE  /\ orders[o] \in OrderDocument
           /\ AsCreated(o) \in OrderDocument
           /\ AsCreated(o).requestId = orders[o].requestId
           /\ AsCreated(o).payloadHash = orders[o].payloadHash
           /\ WithoutShipment(o) \in OrderDocument
           /\ WithoutShipment(o) = [orders[o] EXCEPT !.shipment = NoShipment]
           /\ WithoutUpdates(o) \in OrderDocument
           /\ WithoutUpdates(o).requestId = orders[o].requestId
           /\ WithoutUpdates(o).shipment = orders[o].shipment
<1>1. orders[o] \in OrderDocument
  BY DEF Stored, Collection
<1>2. /\ orders[o].requestId \in RequestIds /\ orders[o].payloadHash \in PayloadHashes
      /\ orders[o].shipment \in ShipmentIds \cup {NoShipment}
  BY <1>1 DEF OrderDocument
<1>3. /\ AsCreated(o) \in OrderDocument
      /\ AsCreated(o).requestId = orders[o].requestId
      /\ AsCreated(o).payloadHash = orders[o].payloadHash
  BY <1>2, NewDocument DEF AsCreated
<1>4. WithoutShipment(o) = [orders[o] EXCEPT !.shipment = NoShipment]
  BY DEF WithoutShipment
<1>5. WithoutShipment(o) \in OrderDocument
  BY <1>1, <1>4 DEF OrderDocument
<1>6. WithoutUpdates(o) = [AsCreated(o) EXCEPT !.shipment = orders[o].shipment]
  BY DEF WithoutUpdates
<1>7. /\ WithoutUpdates(o) \in OrderDocument
      /\ WithoutUpdates(o).requestId = orders[o].requestId
      /\ WithoutUpdates(o).shipment = orders[o].shipment
  BY <1>2, <1>3, <1>6 DEF OrderDocument
<1> QED BY <1>1, <1>3, <1>4, <1>5, <1>7

LEMMA SeenAbsent ==
    ASSUME NEW o \in OrderIds, ~Stored(o)
    PROVE  /\ AsCreated(o) = NoDocument
           /\ WithoutShipment(o) = NoDocument
           /\ WithoutUpdates(o) = NoDocument
BY DEF AsCreated, WithoutShipment, WithoutUpdates

(* Every part sees a collection, and the same orders stored under the same keys. *)
LEMMA SeenCollections ==
    ASSUME orders \in Collection
    PROVE  /\ CreationSees \in Collection /\ UpdatesSee \in Collection
           /\ ShippingSees \in Collection
           /\ \A o \in OrderIds : /\ CP!Stored(o) <=> Stored(o)
                                  /\ UP!Stored(o) <=> Stored(o)
                                  /\ SP!Stored(o) <=> Stored(o)
           /\ \A key \in RequestIds :
                 /\ CP!FindByRequestId(key) = FindByRequestId(key)
                 /\ UP!FindByRequestId(key) = FindByRequestId(key)
                 /\ SP!FindByRequestId(key) = FindByRequestId(key)
<1>1. \A o \in OrderIds :
         /\ CreationSees[o] \in OrderDocument \cup {NoDocument}
         /\ UpdatesSee[o] \in OrderDocument \cup {NoDocument}
         /\ ShippingSees[o] \in OrderDocument \cup {NoDocument}
  BY SeenDocuments, SeenStored, SeenAbsent
<1>2. \A o \in OrderIds : /\ CP!Stored(o) <=> Stored(o)
                          /\ UP!Stored(o) <=> Stored(o)
                          /\ SP!Stored(o) <=> Stored(o)
  BY SeenDocuments, SeenStored, SeenAbsent, NoDocumentAssumption
     DEF CP!Stored, UP!Stored, SP!Stored
<1>3. \A o \in OrderIds : Stored(o) =>
         /\ CreationSees[o].requestId = orders[o].requestId
         /\ UpdatesSee[o].requestId = orders[o].requestId
         /\ ShippingSees[o].requestId = orders[o].requestId
  <2>1. ASSUME NEW o \in OrderIds, Stored(o)
        PROVE  WithoutShipment(o).requestId = orders[o].requestId
    BY <2>1, SeenStored DEF OrderDocument
  <2> QED BY <2>1, SeenDocuments, SeenStored
<1>4. CreationSees \in Collection /\ UpdatesSee \in Collection /\ ShippingSees \in Collection
  BY <1>1 DEF Collection, CreationSees, UpdatesSee, ShippingSees
<1>5. \A key \in RequestIds :
         /\ CP!FindByRequestId(key) = FindByRequestId(key)
         /\ UP!FindByRequestId(key) = FindByRequestId(key)
         /\ SP!FindByRequestId(key) = FindByRequestId(key)
  BY <1>2, <1>3 DEF CP!FindByRequestId, UP!FindByRequestId, SP!FindByRequestId,
     FindByRequestId
<1> QED BY <1>2, <1>4, <1>5

----------------------------------------------------------------------------
(* What the parts see of a command *)

Inserted ==
    \E o \in OrderIds, key \in RequestIds, hash \in PayloadHashes :
        /\ UniqueIndexesAccept(o, NewOrder(key, hash))
        /\ InsertOne(o, NewOrder(key, hash))

(* An insert is seen by every part as the insert of that document. *)
LEMMA InsertSeen ==
    ASSUME orders \in Collection, NEW o \in OrderIds, NEW key \in RequestIds,
           NEW hash \in PayloadHashes, InsertOne(o, NewOrder(key, hash))
    PROVE  /\ orders' \in Collection
           /\ CreationSees' = [CreationSees EXCEPT ![o] = NewOrder(key, hash)]
           /\ UpdatesSee' = [UpdatesSee EXCEPT ![o] = NewOrder(key, hash)]
           /\ ShippingSees' = [ShippingSees EXCEPT ![o] = NewOrder(key, hash)]
<1> DEFINE doc == NewOrder(key, hash)
<1>1. doc \in OrderDocument
  BY NewDocument
<1>2. /\ NewOrder(doc.requestId, doc.payloadHash) = doc
      /\ [doc EXCEPT !.shipment = NoShipment] = doc
      /\ [doc EXCEPT !.shipment = doc.shipment] = doc
  BY NewIsNew
<1> HIDE DEF doc
<1>3. /\ orders' = [orders EXCEPT ![o] = doc]
      /\ orders'[o] = doc /\ \A p \in OrderIds \ {o} : orders'[p] = orders[p]
  BY DEF InsertOne, Collection, doc
<1>4. Stored(o)'
  BY <1>1, <1>3, NoDocumentAssumption DEF Stored
<1>5. AsCreated(o)' = doc /\ WithoutShipment(o)' = doc /\ WithoutUpdates(o)' = doc
  BY <1>2, <1>3, <1>4 DEF AsCreated, WithoutShipment, WithoutUpdates
<1>6. \A p \in OrderIds \ {o} : /\ AsCreated(p)' = AsCreated(p)
                                /\ WithoutShipment(p)' = WithoutShipment(p)
                                /\ WithoutUpdates(p)' = WithoutUpdates(p)
  BY <1>3 DEF AsCreated, WithoutShipment, WithoutUpdates, Stored
<1>7. orders' \in Collection
  BY <1>1, <1>3 DEF Collection
<1> QED BY <1>5, <1>6, <1>7 DEF CreationSees, UpdatesSee, ShippingSees, doc

(* An append is seen by the status updates only. *)
LEMMA AppendSeen ==
    ASSUME orders \in Collection, NEW o \in OrderIds, NEW event \in StatusEvent,
           Stored(o), AppendStatusEvent(o, event)
    PROVE  /\ orders' \in Collection
           /\ UNCHANGED <<CreationSees, ShippingSees>>
           /\ UpdatesSee' = [UpdatesSee EXCEPT ![o] = Appended(UpdatesSee[o], event)]
<1> DEFINE doc == orders[o]
           new == Appended(doc, event)
<1>1. doc \in OrderDocument /\ UpdatesSee[o] = [doc EXCEPT !.shipment = NoShipment]
  BY SeenStored, SeenDocuments
<1>2. /\ orders' \in Collection /\ orders'[o] \in OrderDocument
      /\ \A p \in OrderIds \ {o} : orders'[p] = orders[p]
      /\ orders'[o].requestId = orders[o].requestId
      /\ orders'[o].payloadHash = orders[o].payloadHash
  BY AppendedDocument
<1>3. orders'[o] = new
  BY DEF AppendStatusEvent, Collection
<1>4. /\ new.shipment = doc.shipment
      /\ [new EXCEPT !.shipment = NoShipment] = Appended([doc EXCEPT !.shipment = NoShipment], event)
  BY <1>1 DEF Appended, OrderDocument
<1> HIDE DEF new, doc
<1>5. Stored(o)'
  BY <1>2, NoDocumentAssumption DEF Stored
<1>6. AsCreated(o)' = AsCreated(o) /\ WithoutUpdates(o)' = WithoutUpdates(o)
  BY <1>2, <1>3, <1>4, <1>5 DEF AsCreated, WithoutUpdates, doc
<1>7. WithoutShipment(o)' = Appended(UpdatesSee[o], event)
  BY <1>1, <1>3, <1>4, <1>5 DEF WithoutShipment
<1>8. \A p \in OrderIds \ {o} : /\ AsCreated(p)' = AsCreated(p)
                                /\ WithoutShipment(p)' = WithoutShipment(p)
                                /\ WithoutUpdates(p)' = WithoutUpdates(p)
  BY <1>2 DEF AsCreated, WithoutShipment, WithoutUpdates, Stored
<1>9. CreationSees' = CreationSees /\ ShippingSees' = ShippingSees
  BY <1>6, <1>8 DEF CreationSees, ShippingSees
<1>10. UpdatesSee' = [UpdatesSee EXCEPT ![o] = Appended(UpdatesSee[o], event)]
  BY <1>7, <1>8 DEF UpdatesSee
<1> QED BY <1>2, <1>9, <1>10

(* A metadata write is seen by shipment only. *)
LEMMA MetadataSeen ==
    ASSUME orders \in Collection, NEW o \in OrderIds, NEW id \in ShipmentIds,
           UpdateShipmentMetadata(o, id)
    PROVE  /\ orders' \in Collection
           /\ UNCHANGED <<CreationSees, UpdatesSee>>
           /\ SP!UpdateShipmentMetadata(o, id)
<1>1. \A p \in OrderIds : orders'[p] = IF p = o /\ Stored(p) THEN [orders[p] EXCEPT !.shipment = id] ELSE orders[p]
  BY DEF UpdateShipmentMetadata
<1>2. CASE ~Stored(o)
  <2>1. orders' = orders
    BY <1>2 DEF UpdateShipmentMetadata, Collection
  <2>2. CreationSees' = CreationSees /\ UpdatesSee' = UpdatesSee /\ ShippingSees' = ShippingSees
    BY <2>1 DEF CreationSees, UpdatesSee, ShippingSees, AsCreated, WithoutShipment, WithoutUpdates, Stored
  <2>3. ~SP!Stored(o)
    BY <1>2, SeenCollections
  <2>4. SP!UpdateShipmentMetadata(o, id)
    BY <2>2, <2>3, SeenCollections DEF SP!UpdateShipmentMetadata, Collection
  <2> QED BY <2>1, <2>2, <2>4
<1>3. CASE Stored(o)
  <2> DEFINE doc == orders[o]
             new == [doc EXCEPT !.shipment = id]
  <2>1. doc \in OrderDocument
    BY <1>3, SeenStored
  <2>2. /\ new \in OrderDocument /\ new.shipment = id
        /\ new.requestId = doc.requestId /\ new.payloadHash = doc.payloadHash
        /\ [new EXCEPT !.shipment = NoShipment] = [doc EXCEPT !.shipment = NoShipment]
    BY <2>1 DEF OrderDocument
  <2>3. orders'[o] = new /\ \A p \in OrderIds \ {o} : orders'[p] = orders[p]
    BY <1>1, <1>3
  <2> HIDE DEF new, doc
  <2>4. Stored(o)'
    BY <2>2, <2>3, NoDocumentAssumption DEF Stored
  <2>5. AsCreated(o)' = AsCreated(o) /\ WithoutShipment(o)' = WithoutShipment(o)
    BY <1>3, <2>2, <2>3, <2>4 DEF AsCreated, WithoutShipment, doc
  <2>6. WithoutUpdates(o)' = [AsCreated(o) EXCEPT !.shipment = id]
    BY <2>2, <2>3, <2>4, <2>5 DEF WithoutUpdates
  <2>7. WithoutUpdates(o) = [AsCreated(o) EXCEPT !.shipment = orders[o].shipment]
    BY <1>3 DEF WithoutUpdates
  <2>8. WithoutUpdates(o)' = [WithoutUpdates(o) EXCEPT !.shipment = id]
    BY <2>6, <2>7, <1>3, SeenStored DEF OrderDocument
  <2>9. \A p \in OrderIds \ {o} : /\ AsCreated(p)' = AsCreated(p)
                                  /\ WithoutShipment(p)' = WithoutShipment(p)
                                  /\ WithoutUpdates(p)' = WithoutUpdates(p)
    BY <2>3 DEF AsCreated, WithoutShipment, WithoutUpdates, Stored
  <2>10. CreationSees' = CreationSees /\ UpdatesSee' = UpdatesSee
    BY <2>5, <2>9 DEF CreationSees, UpdatesSee
  <2>11. SP!UpdateShipmentMetadata(o, id)
    <3>1. \A p \in OrderIds : ShippingSees'[p] =
             IF p = o /\ SP!Stored(p) THEN [ShippingSees[p] EXCEPT !.shipment = id]
             ELSE ShippingSees[p]
      BY <1>3, <2>8, <2>9, SeenCollections DEF ShippingSees
    <3>2. ShippingSees' = [p \in OrderIds |-> ShippingSees'[p]]
      BY DEF ShippingSees
    <3> QED BY <3>1, <3>2 DEF SP!UpdateShipmentMetadata
  <2>12. orders' \in Collection
    <3>1. \A p \in OrderIds : orders'[p] \in OrderDocument \cup {NoDocument}
      BY <2>2, <2>3 DEF Collection
    <3>2. orders' = [p \in OrderIds |-> orders'[p]]
      BY DEF UpdateShipmentMetadata
    <3> QED BY <3>1, <3>2 DEF Collection
  <2> QED BY <2>10, <2>11, <2>12
<1> QED BY <1>2, <1>3

LEMMA NothingSeen ==
    ASSUME UNCHANGED orders
    PROVE  UNCHANGED <<CreationSees, UpdatesSee, ShippingSees>>
BY DEF CreationSees, UpdatesSee, ShippingSees, AsCreated, WithoutShipment,
       WithoutUpdates, Stored

----------------------------------------------------------------------------
(* The invariant *)

StraysAreNew ==
    \A w \in strayInserts :
        \E key \in RequestIds, hash \in PayloadHashes : w.doc = NewOrder(key, hash)

(* What a step of one part has to know of the others. *)
SInv ==
    /\ orders \in Collection
    /\ StraysAreNew
    /\ CP!IInv
    /\ UP!TypeOK
    /\ SP!EventInv

LEMMA CreationKeepsIInv == CP!IInv /\ [CP!Next]_CP!vars => CP!IInv'
BY CP!IInvNext, NoDocumentAssumption, CreatedEventIdAssumption, PayloadsAssumption,
   AbsenceAssumption, BoundsAssumption
   DEF OrderDocument, CP!OrderDocument, StatusEvent, CP!StatusEvent, OrderStatus,
       CP!OrderStatus, CreatedEventId, CP!CreatedEventId, CP!HashPayload,
       Creation!HashPayload

LEMMA UpdatesKeepTypes == UP!TypeOK /\ [UP!Next]_UP!vars => UP!TypeOK'
BY UP!TypeNext, NoDocumentAssumption, CreatedEventIdAssumption, ActorsAssumption,
   AbsenceAssumption, BoundsAssumption
   DEF OrderDocument, UP!OrderDocument, StatusEvent, UP!StatusEvent, OrderStatus,
       UP!OrderStatus, CreatedEventId, UP!CreatedEventId, UP!Message, Updates!Message,
       UP!CallbackStatus, Updates!CallbackStatus, IsFiniteSet, UP!IsFiniteSet

LEMMA ShippingKeepsEventInv == SP!EventInv /\ [SP!Next]_SP!vars => SP!EventInv'
BY SP!EventInvNext, NoDocumentAssumption, CreatedEventIdAssumption, AbsenceAssumption,
   BoundsAssumption
   DEF OrderDocument, SP!OrderDocument, StatusEvent, SP!StatusEvent, OrderStatus,
       SP!OrderStatus, CreatedEventId, SP!CreatedEventId

----------------------------------------------------------------------------
(* Creation steps *)

LEMMA RequestTyped ==
    ASSUME SInv, NEW r \in Requests, create[r] \in {"insert", "publish"}
    PROVE  /\ requestOrder[r] \in OrderIds /\ requestKey[r] \in RequestIds
           /\ requestBody[r] \in Payloads
           /\ Creation!HashPayload(requestBody[r]) \in PayloadHashes
           /\ Creation!DocumentOf(r) = NewOrder(requestKey[r], Creation!HashPayload(requestBody[r]))
           /\ CP!DocumentOf(r) = Creation!DocumentOf(r)
<1>1. /\ requestOrder[r] \in OrderIds /\ requestKey[r] \in RequestIds
      /\ requestBody[r] \in Payloads
  BY DEF SInv, CP!IInv, CP!TypeOK, CP!Holding
<1>2. Creation!HashPayload(requestBody[r]) \in PayloadHashes
  BY <1>1, PayloadsAssumption
<1>3. /\ Creation!DocumentOf(r) = NewOrder(requestKey[r], Creation!HashPayload(requestBody[r]))
      /\ CP!DocumentOf(r) = Creation!DocumentOf(r)
  BY DEF Creation!DocumentOf, CP!DocumentOf, Creation!NewOrder, CP!NewOrder, NewOrder,
         Creation!CreatedEventId, CP!CreatedEventId, CreatedEventId,
         Creation!HashPayload, CP!HashPayload
<1> QED BY <1>1, <1>2, <1>3

LEMMA StrayTyped ==
    ASSUME SInv, NEW w \in strayInserts
    PROVE  /\ w.order \in OrderIds /\ w.doc \in OrderDocument
           /\ \E key \in RequestIds, hash \in PayloadHashes : w.doc = NewOrder(key, hash)
BY NewDocument DEF SInv, StraysAreNew, CP!IInv, CP!TypeOK, CP!Insert

(* The parts agree on what the unique indexes accept. *)
LEMMA IndexesSeen ==
    ASSUME orders \in Collection, NEW o \in OrderIds, NEW key \in RequestIds,
           NEW hash \in PayloadHashes, NEW doc, doc = NewOrder(key, hash)
    PROVE  /\ CP!UniqueIndexesAccept(o, doc) <=> UniqueIndexesAccept(o, doc)
           /\ UP!UniqueIndexesAccept(o, doc) <=> UniqueIndexesAccept(o, doc)
           /\ SP!UniqueIndexesAccept(o, doc) <=> UniqueIndexesAccept(o, doc)
           /\ Creation!UniqueIndexesAccept(o, doc) <=> UniqueIndexesAccept(o, doc)
           /\ Creation!InsertOne(o, doc) <=> InsertOne(o, doc)
<1>1. doc.requestId = key
  BY NewDocument
<1> QED
  BY <1>1, SeenCollections
     DEF CP!UniqueIndexesAccept, UP!UniqueIndexesAccept, SP!UniqueIndexesAccept,
         UniqueIndexesAccept, Creation!UniqueIndexesAccept, Creation!Stored, Stored,
         Creation!FindByRequestId, FindByRequestId, Creation!InsertOne, InsertOne

(* An insert changes the collection for every part alike. *)
LEMMA InsertedForAll ==
    ASSUME orders \in Collection, NEW o \in OrderIds, NEW key \in RequestIds,
           NEW hash \in PayloadHashes, NEW doc, doc = NewOrder(key, hash),
           Creation!UniqueIndexesAccept(o, doc), Creation!InsertOne(o, doc)
    PROVE  /\ Inserted
           /\ CP!UniqueIndexesAccept(o, doc) /\ CP!InsertOne(o, doc)
<1>1. UniqueIndexesAccept(o, doc) /\ InsertOne(o, doc) /\ CP!UniqueIndexesAccept(o, doc)
  BY IndexesSeen
<1>2. CP!InsertOne(o, doc)
  BY <1>1, InsertSeen DEF CP!InsertOne
<1> QED BY <1>1, <1>2 DEF Inserted

LEMMA LookupSeen ==
    ASSUME SInv, NEW r \in Requests, NEW key \in RequestIds, NEW p \in Payloads,
           Creation!LookupKey(r, key, p)
    PROVE  CP!LookupKey(r, key, p) /\ UNCHANGED orders
<1>1. orders \in Collection /\ UNCHANGED orders
  BY DEF SInv, Creation!LookupKey
<1>2. CreationSees' = CreationSees
  BY <1>1, NothingSeen
<1>3. /\ Creation!FindByRequestId(key) = CP!FindByRequestId(key)
      /\ \A o \in OrderIds : CP!Stored(o) <=> Creation!Stored(o)
      /\ \A o \in Creation!FindByRequestId(key) :
            o \in OrderIds /\ CreationSees[o].payloadHash = orders[o].payloadHash
  <2>1. \A o \in OrderIds : Stored(o) => CreationSees[o].payloadHash = orders[o].payloadHash
    BY <1>1, SeenDocuments, SeenStored
  <2> QED BY <1>1, <2>1, SeenCollections
          DEF Creation!FindByRequestId, FindByRequestId, Creation!Stored, Stored
<1>4. CP!FreshIds = Creation!FreshIds
  BY <1>3 DEF CP!FreshIds, Creation!FreshIds
<1>5. ASSUME NEW o \in Creation!FindByRequestId(key), Creation!ReplayOrConflict(r, p, o)
      PROVE  CP!ReplayOrConflict(r, p, o)
  BY <1>3, <1>5 DEF Creation!ReplayOrConflict, CP!ReplayOrConflict, Creation!HashPayload,
                    CP!HashPayload
<1>6. Creation!BuildOrder(r, p) => CP!BuildOrder(r, p)
  BY <1>4 DEF Creation!BuildOrder, CP!BuildOrder, Creation!Available, CP!Available,
              Creation!MaxPerItem, CP!MaxPerItem
<1> QED BY <1>1, <1>2, <1>3, <1>5, <1>6 DEF Creation!LookupKey, CP!LookupKey

LEMMA InsertOrderSeen ==
    ASSUME SInv, NEW r \in Requests, Creation!InsertOrder(r)
    PROVE  CP!InsertOrder(r) /\ (Inserted \/ UNCHANGED orders)
<1> DEFINE o == requestOrder[r]
           doc == Creation!DocumentOf(r)
<1>1. /\ o \in OrderIds
      /\ \E key \in RequestIds, hash \in PayloadHashes : doc = NewOrder(key, hash)
      /\ CP!DocumentOf(r) = doc
  BY RequestTyped DEF Creation!InsertOrder
<1>2. orders \in Collection
  BY DEF SInv
<1>3. Creation!UniqueIndexesAccept(o, doc) <=> CP!UniqueIndexesAccept(o, doc)
  BY <1>1, <1>2, IndexesSeen
<1>4. ASSUME Creation!UniqueIndexesAccept(o, doc), Creation!InsertOne(o, doc)
      PROVE  Inserted /\ CP!InsertOne(o, doc)
  BY <1>1, <1>2, <1>4, InsertedForAll
<1>5. UNCHANGED orders => UNCHANGED CreationSees
  BY NothingSeen
<1> HIDE DEF o, doc
<1> QED BY <1>1, <1>3, <1>4, <1>5 DEF Creation!InsertOrder, CP!InsertOrder, o, doc

LEMMA StrayInsertSeen ==
    ASSUME SInv, NEW w \in strayInserts, Creation!StrayInsertLands(w)
    PROVE  CP!StrayInsertLands(w) /\ (Inserted \/ UNCHANGED orders)
<1>1. /\ w.order \in OrderIds
      /\ \E key \in RequestIds, hash \in PayloadHashes : w.doc = NewOrder(key, hash)
  BY StrayTyped
<1>2. orders \in Collection
  BY DEF SInv
<1>3. Creation!UniqueIndexesAccept(w.order, w.doc) <=> CP!UniqueIndexesAccept(w.order, w.doc)
  BY <1>1, <1>2, IndexesSeen
<1>4. ASSUME Creation!UniqueIndexesAccept(w.order, w.doc), Creation!InsertOne(w.order, w.doc)
      PROVE  Inserted /\ CP!InsertOne(w.order, w.doc)
  BY <1>1, <1>2, <1>4, InsertedForAll
<1>5. UNCHANGED orders => UNCHANGED CreationSees
  BY NothingSeen
<1> QED BY <1>3, <1>4, <1>5
        DEF Creation!StrayInsertLands, CP!StrayInsertLands, Creation!requestVars, CP!requestVars

(* A failed or abandoned insert is of a new document too. *)
LEMMA InsertOfSeen ==
    ASSUME SInv, NEW r \in Requests, create[r] = "insert"
    PROVE  /\ CP!InsertOf(r) = Creation!InsertOf(r)
           /\ \E key \in RequestIds, hash \in PayloadHashes :
                 Creation!InsertOf(r).doc = NewOrder(key, hash)
BY RequestTyped DEF CP!InsertOf, Creation!InsertOf

LEMMA CreationFaultSeen ==
    ASSUME SInv, NEW r \in Requests, Creation!CreateFault(r)
    PROVE  CP!CreateFault(r) /\ StraysAreNew' /\ UNCHANGED orders
<1>1. UNCHANGED orders
  BY DEF Creation!CreateFault
<1>2. StraysAreNew'
  BY InsertOfSeen DEF Creation!CreateFault, StraysAreNew, SInv
<1>3. CP!CreateFault(r)
  BY <1>1, NothingSeen, InsertOfSeen
     DEF Creation!CreateFault, CP!CreateFault, Creation!CountFault, CP!CountFault
<1> QED BY <1>1, <1>2, <1>3

LEMMA CreationRestartSeen ==
    ASSUME SInv, Creation!Restart
    PROVE  CP!Restart /\ StraysAreNew' /\ UNCHANGED orders
<1>1. UNCHANGED orders
  BY DEF Creation!Restart
<1> DEFINE Q == {q \in Requests : create[q] = "insert"}
<1>2. \A r \in Q : CP!InsertOf(r) = Creation!InsertOf(r)
  BY InsertOfSeen
<1>3. {Creation!InsertOf(r) : r \in Q} = {CP!InsertOf(r) : r \in Q}
  BY <1>2
<1>4. StraysAreNew'
  BY InsertOfSeen DEF Creation!Restart, StraysAreNew, SInv
<1>5. CP!Restart
  BY <1>1, <1>3, NothingSeen
     DEF Creation!Restart, CP!Restart, Creation!CountFault, CP!CountFault
<1> QED BY <1>1, <1>4, <1>5

(* A creation step is one of the abstract part, and at most inserts a document. *)
LEMMA CreationStepSeen ==
    ASSUME SInv, CreationStep
    PROVE  CP!Next /\ StraysAreNew' /\ (Inserted \/ UNCHANGED orders)
<1>1. ASSUME NEW r \in Requests, Creation!RefuseCreate(r)
      PROVE  CP!RefuseCreate(r) /\ UNCHANGED <<orders, strayInserts>>
  BY <1>1, NothingSeen DEF Creation!RefuseCreate, CP!RefuseCreate
<1>2. ASSUME NEW w \in strayInserts, Creation!StrayInsertIsLost(w)
      PROVE  CP!StrayInsertIsLost(w) /\ UNCHANGED orders
  BY <1>2, NothingSeen DEF Creation!StrayInsertIsLost, CP!StrayInsertIsLost,
                           Creation!requestVars, CP!requestVars
<1>3. strayInserts' \subseteq strayInserts => StraysAreNew'
  BY DEF SInv, StraysAreNew
<1>4. \A r \in Requests, key \in RequestIds, p \in Payloads :
         Creation!LookupKey(r, key, p) => strayInserts' = strayInserts
  BY DEF Creation!LookupKey
<1>5. /\ \A r \in Requests : Creation!InsertOrder(r) => strayInserts' = strayInserts
      /\ \A w \in strayInserts :
            Creation!StrayInsertLands(w) \/ Creation!StrayInsertIsLost(w)
              => strayInserts' \subseteq strayInserts
  BY DEF Creation!InsertOrder, Creation!StrayInsertLands, Creation!StrayInsertIsLost
<1> QED
  BY <1>1, <1>2, <1>3, <1>4, <1>5, LookupSeen, InsertOrderSeen, StrayInsertSeen,
     CreationFaultSeen
     DEF CreationStep, CP!Next

(* The other parts see an insert as an order that appears. *)
LEMMA InsertedSeen ==
    ASSUME orders \in Collection, Inserted
    PROVE  /\ orders' \in Collection
           /\ UNCHANGED updateVars => UP!Next
           /\ UNCHANGED <<announced, shipmentVars>> => SP!Next
<1>1. PICK o \in OrderIds, key \in RequestIds, hash \in PayloadHashes :
         UniqueIndexesAccept(o, NewOrder(key, hash)) /\ InsertOne(o, NewOrder(key, hash))
  BY DEF Inserted
<1> DEFINE doc == NewOrder(key, hash)
<1>2. /\ orders' \in Collection
      /\ UpdatesSee' = [UpdatesSee EXCEPT ![o] = doc]
      /\ ShippingSees' = [ShippingSees EXCEPT ![o] = doc]
  BY <1>1, InsertSeen
<1>3. UP!UniqueIndexesAccept(o, doc) /\ SP!UniqueIndexesAccept(o, doc)
  BY <1>1, IndexesSeen
<1>4. UP!NewOrder(key, hash) = doc /\ SP!NewOrder(key, hash) = doc
  BY DEF UP!NewOrder, SP!NewOrder, NewOrder, UP!CreatedEventId, SP!CreatedEventId,
         CreatedEventId
<1> HIDE DEF doc
<1>5. UNCHANGED updateVars => UP!CreateOrder(o, key, hash)
  BY <1>2, <1>3, <1>4 DEF UP!CreateOrder, UP!InsertOne, UP!updateVars, updateVars
<1>6. UNCHANGED <<announced, shipmentVars>> => SP!CreateOrder(o, key, hash)
  BY <1>2, <1>3, <1>4
     DEF SP!CreateOrder, SP!InsertOne, SP!workerVars, SP!queueVars, SP!deliveryVars,
         shipmentVars
<1> QED BY <1>2, <1>5, <1>6 DEF UP!Next, SP!Next

(* A step that leaves a part's variables and its view alone is a stutter to it. *)
LEMMA Stutters ==
    /\ UNCHANGED <<CreationSees, announced, creationVars>> => UNCHANGED CP!vars
    /\ UNCHANGED <<UpdatesSee, updateVars>> => UNCHANGED UP!vars
    /\ UNCHANGED <<ShippingSees, announced, shipmentVars>> => UNCHANGED SP!vars
<1>1. UNCHANGED <<CreationSees, announced, creationVars>> => UNCHANGED CP!vars
  BY DEF CP!vars, CP!requestVars, creationVars
<1>2. UNCHANGED <<UpdatesSee, updateVars>> => UNCHANGED UP!vars
  BY DEF UP!vars, UP!updateVars, updateVars
<1>3. UNCHANGED <<ShippingSees, announced, shipmentVars>> => UNCHANGED SP!vars
  BY DEF SP!vars, SP!workerVars, SP!queueVars, SP!deliveryVars, shipmentVars
<1> QED BY <1>1, <1>2, <1>3

(* What each of the whole service's steps is to its parts. *)
Seen == /\ [CP!Next]_CP!vars /\ [UP!Next]_UP!vars /\ [SP!Next]_SP!vars
        /\ StraysAreNew' /\ orders' \in Collection

LEMMA CreationIsSeen == SInv /\ CreationStep => Seen
<1> SUFFICES ASSUME SInv, CreationStep PROVE Seen
  OBVIOUS
<1>1. /\ CP!Next /\ StraysAreNew' /\ (Inserted \/ UNCHANGED orders)
      /\ UNCHANGED <<updateVars, shipmentVars>> /\ orders \in Collection
  BY CreationStepSeen DEF CreationStep, SInv
<1>2. UNCHANGED announced
  BY DEF CreationStep, Creation!RefuseCreate, Creation!LookupKey, Creation!InsertOrder,
         Creation!CreateFault, Creation!StrayInsertLands, Creation!StrayInsertIsLost
<1>3. CASE Inserted
  BY <1>1, <1>2, <1>3, InsertedSeen DEF Seen
<1>4. CASE UNCHANGED orders
  BY <1>1, <1>2, <1>4, NothingSeen, Stutters DEF Seen
<1> QED BY <1>1, <1>3, <1>4

----------------------------------------------------------------------------
(* The publish *)

(* The order of a request that publishes is stored and not announced yet, which
   is all that the announcement of the shipment part asks for. *)
LEMMA PublishIsSeen == SInv /\ (\E r \in Requests : PublishOrder(r)) => Seen
<1> SUFFICES ASSUME SInv, NEW r \in Requests, PublishOrder(r) PROVE Seen
  OBVIOUS
<1>1. /\ Creation!PublishOrder(r) /\ Shipping!EnqueueCreated(requestOrder[r])
      /\ UNCHANGED <<updateVars, workerPc, workerOrder, attempt, workerShipment,
                     shipments, keepsContract, strayPosts, strayMetadata, shipmentFaults>>
      /\ UNCHANGED <<orders, strayInserts>> /\ create[r] = "publish"
  BY DEF PublishOrder, Creation!PublishOrder
<1>2. UNCHANGED <<CreationSees, UpdatesSee, ShippingSees>>
  BY <1>1, NothingSeen
<1>3. CP!PublishOrder(r)
  BY <1>1, <1>2 DEF Creation!PublishOrder, CP!PublishOrder
<1>4. requestOrder[r] \in OrderIds
  BY <1>1, RequestTyped
<1>5. CP!Stored(requestOrder[r]) /\ requestOrder[r] \notin ToSet(announced)
  BY <1>1, <1>4 DEF SInv, CP!IInv, CP!RequestsAgree, CP!Agrees, CP!Unannounced, CP!ToSet, ToSet
<1>6. SP!Stored(requestOrder[r])
  BY <1>4, <1>5, SeenCollections DEF SInv
<1>7. SP!Announce(requestOrder[r])
  BY <1>1, <1>2, <1>5, <1>6
     DEF SP!Announce, SP!EnqueueCreated, Shipping!EnqueueCreated, SP!workerVars,
         SP!deliveryVars, SP!ToSet, ToSet
<1>8. CP!Next /\ SP!Next
  BY <1>3, <1>4, <1>7 DEF CP!Next, SP!Next
<1>9. UNCHANGED UP!vars
  BY <1>1, <1>2, Stutters
<1>10. StraysAreNew' /\ orders' \in Collection
  BY <1>1 DEF SInv, StraysAreNew
<1> QED BY <1>8, <1>9, <1>10 DEF Seen

----------------------------------------------------------------------------
(* Status update steps *)

(* Without its shipment, a document is judged and appended to as it is with it. *)
LEMMA DocumentSeen ==
    ASSUME orders \in Collection, NEW o \in OrderIds
    PROVE  /\ UP!Stored(o) <=> Stored(o)
           /\ Stored(o) => /\ UpdatesSee[o].version = orders[o].version
                           /\ UpdatesSee[o].status = orders[o].status
                           /\ UpdatesSee[o].statusHistory = orders[o].statusHistory
<1>1. ASSUME Stored(o)
      PROVE  /\ WithoutShipment(o).version = orders[o].version
             /\ WithoutShipment(o).status = orders[o].status
             /\ WithoutShipment(o).statusHistory = orders[o].statusHistory
  BY <1>1, SeenStored DEF OrderDocument
<1> QED BY <1>1, SeenDocuments, SeenCollections

LEMMA EventSeen ==
    ASSUME orders \in Collection, NEW o \in OrderIds, Stored(o), NEW id
    PROVE  /\ UP!HasEvent(UpdatesSee[o], id) <=> HasEvent(orders[o], id)
           /\ Updates!HasEvent(orders[o], id) <=> HasEvent(orders[o], id)
BY DocumentSeen DEF UP!HasEvent, Updates!HasEvent, HasEvent

LEMMA PreparedSeen ==
    ASSUME orders \in Collection, NEW m \in Updates!Message
    PROVE  UP!Prepared(m) = Updates!Prepared(m)
<1>1. m.orderId \in OrderIds
  BY DEF Updates!Message
<1>2. UP!Stored(m.orderId) <=> Updates!Stored(m.orderId)
  BY <1>1, DocumentSeen DEF Updates!Stored, Stored
<1>3. Updates!Stored(m.orderId) =>
         /\ UP!HasEvent(UpdatesSee[m.orderId], m.eventId)
              <=> Updates!HasEvent(orders[m.orderId], m.eventId)
         /\ UpdatesSee[m.orderId].status = orders[m.orderId].status
  BY <1>1, DocumentSeen, EventSeen DEF Updates!Stored, Stored
<1>4. \A current, next : UP!CanTransition(current, next) <=> Updates!CanTransition(current, next)
  BY DEF UP!CanTransition, Updates!CanTransition, UP!AllowedTransitions,
         Updates!AllowedTransitions
<1> QED BY <1>2, <1>3, <1>4 DEF UP!Prepared, Updates!Prepared

LEMMA AppendOfSeen ==
    ASSUME orders \in Collection, NEW m \in Updates!Message, NEW version
    PROVE  /\ UP!EventOf(m) = Updates!EventOf(m)
           /\ UP!AppendFilterMatches(m.orderId, UP!EventOf(m), version)
                <=> Updates!AppendFilterMatches(m.orderId, Updates!EventOf(m), version)
           /\ (/\ Updates!AppendFilterMatches(m.orderId, Updates!EventOf(m), version)
               /\ Updates!AppendStatusEvent(m.orderId, Updates!EventOf(m)))
                => /\ UP!AppendStatusEvent(m.orderId, UP!EventOf(m))
                   /\ orders' \in Collection
                   /\ UNCHANGED <<CreationSees, ShippingSees>>
<1> DEFINE o == m.orderId
           event == Updates!EventOf(m)
<1>1. /\ o \in OrderIds /\ event \in StatusEvent /\ event.eventId = m.eventId
      /\ UP!EventOf(m) = event
  BY DEF Updates!Message, Updates!CallbackStatus, Updates!EventOf, UP!EventOf, StatusEvent,
         OrderStatus
<1>2. UP!Stored(o) <=> Updates!Stored(o)
  BY <1>1, DocumentSeen DEF Updates!Stored, Stored
<1>3. Updates!Stored(o) =>
         /\ UP!HasEvent(UpdatesSee[o], event.eventId)
              <=> Updates!HasEvent(orders[o], event.eventId)
         /\ UpdatesSee[o].version = orders[o].version
  BY <1>1, DocumentSeen, EventSeen DEF Updates!Stored, Stored
<1>4. UP!AppendFilterMatches(o, UP!EventOf(m), version)
         <=> Updates!AppendFilterMatches(o, event, version)
  BY <1>1, <1>2, <1>3 DEF UP!AppendFilterMatches, Updates!AppendFilterMatches
<1>5. ASSUME Updates!AppendFilterMatches(o, event, version),
             Updates!AppendStatusEvent(o, event)
      PROVE  /\ UP!AppendStatusEvent(o, UP!EventOf(m)) /\ orders' \in Collection
             /\ UNCHANGED <<CreationSees, ShippingSees>>
  <2>1. Stored(o) /\ AppendStatusEvent(o, event)
    BY <1>5 DEF Updates!AppendFilterMatches, Updates!Stored, Stored,
                Updates!AppendStatusEvent, AppendStatusEvent, Updates!Appended, Appended
  <2>2. /\ orders' \in Collection /\ UNCHANGED <<CreationSees, ShippingSees>>
        /\ UpdatesSee' = [UpdatesSee EXCEPT ![o] = Appended(UpdatesSee[o], event)]
    BY <1>1, <2>1, AppendSeen
  <2> QED BY <1>1, <2>2 DEF UP!AppendStatusEvent, UP!Appended, Appended
<1> QED BY <1>1, <1>4, <1>5

(* What a status update step may do to the collection and to the other parts. *)
Hidden == /\ orders' \in Collection
          /\ UNCHANGED <<CreationSees, ShippingSees>>

LEMMA NothingHidden ==
    ASSUME orders \in Collection, UNCHANGED orders
    PROVE  Hidden /\ UNCHANGED UpdatesSee
BY NothingSeen DEF Hidden

LEMMA MessageTyped ==
    ASSUME SInv
    PROVE  /\ UP!Message = Updates!Message
           /\ \A d \in Drains : drainPc[d] # "idle" => drainMsg[d] \in Updates!Message
           /\ \A w \in strayWrites : w.msg \in Updates!Message
<1>1. UP!Message = Updates!Message
  BY DEF UP!Message, Updates!Message, UP!CallbackStatus, Updates!CallbackStatus
<1> QED BY <1>1 DEF SInv, UP!TypeOK, UP!Write

LEMMA CallbackSeen ==
    ASSUME SInv, NEW c \in Callbacks, Updates!CallbackStep(c)
    PROVE  UP!CallbackStep(c) /\ Hidden
<1> orders \in Collection
  BY DEF SInv
<1> USE DEF Updates!QueueUnchanged, UP!QueueUnchanged, Updates!DrainsUnchanged,
            UP!DrainsUnchanged
<1>1. CASE Updates!RefuseCallback(c)
  BY <1>1, NothingHidden
     DEF Updates!RefuseCallback, UP!RefuseCallback, UP!CallbackStep
<1>2. ASSUME NEW m \in Updates!Message, Updates!ValidateCallback(c, m)
      PROVE  UP!CallbackStep(c) /\ Hidden
  <2>1. UP!Prepared(m) = Updates!Prepared(m) /\ m \in UP!Message
    BY PreparedSeen, MessageTyped
  <2>2. UP!ValidateCallback(c, m) /\ Hidden
    BY <1>2, <2>1, NothingHidden DEF Updates!ValidateCallback, UP!ValidateCallback
  <2> QED BY <2>1, <2>2 DEF UP!CallbackStep
<1>3. CASE Updates!EnqueueCallback(c)
  BY <1>3, NothingHidden
     DEF Updates!EnqueueCallback, UP!EnqueueCallback, UP!CallbackStep
<1> QED BY <1>1, <1>2, <1>3 DEF Updates!CallbackStep

LEMMA DrainSeen ==
    ASSUME SInv, NEW d \in Drains, Updates!DrainStep(d) \/ Updates!DrainFault(d)
    PROVE  (UP!DrainStep(d) \/ UP!DrainFault(d)) /\ Hidden
<1> orders \in Collection
  BY DEF SInv
<1> USE DEF Updates!QueueUnchanged, UP!QueueUnchanged, Updates!CallbacksUnchanged,
            UP!CallbacksUnchanged, Updates!Finish, UP!Finish, Updates!Fail, UP!Fail
<1> DEFINE m == drainMsg[d]
<1>1. CASE Updates!Dequeue(d)
  BY <1>1, NothingHidden DEF Updates!Dequeue, UP!Dequeue, UP!DrainStep
<1>2. CASE Updates!Prepare(d)
  <2>1. m \in Updates!Message
    BY <1>2, MessageTyped DEF Updates!Prepare
  <2>2. UP!Prepared(m) = Updates!Prepared(m)
    BY <2>1, PreparedSeen
  <2>3. Updates!Prepared(m) = "apply" => UpdatesSee[m.orderId].version = orders[m.orderId].version
    BY <2>1, DocumentSeen DEF Updates!Prepared, Updates!Stored, Stored, Updates!Message
  <2>4. UP!Prepare(d) /\ Hidden
    BY <1>2, <2>2, <2>3, NothingHidden DEF Updates!Prepare, UP!Prepare
  <2> QED BY <2>4 DEF UP!DrainStep
<1>3. CASE Updates!AppendEvent(d)
  <2>1. m \in Updates!Message
    BY <1>3, MessageTyped DEF Updates!AppendEvent
  <2>2. UP!AppendEvent(d) /\ Hidden
    BY <1>3, <2>1, AppendOfSeen, NothingHidden
       DEF Updates!AppendEvent, UP!AppendEvent, Hidden
  <2> QED BY <2>2 DEF UP!DrainStep
<1>4. CASE Updates!Recheck(d)
  <2>1. m \in Updates!Message /\ m.orderId \in OrderIds
    BY <1>4, MessageTyped DEF Updates!Recheck, Updates!Message
  <2>2. UP!Stored(m.orderId) /\ UP!HasEvent(UpdatesSee[m.orderId], m.eventId)
           <=> Updates!Stored(m.orderId) /\ Updates!HasEvent(orders[m.orderId], m.eventId)
    BY <2>1, DocumentSeen, EventSeen DEF Updates!Stored, Stored
  <2>3. UP!Recheck(d) /\ Hidden
    BY <1>4, <2>2, NothingHidden DEF Updates!Recheck, UP!Recheck
  <2> QED BY <2>3 DEF UP!DrainStep
<1>5. CASE Updates!Requeue(d)
  BY <1>5, NothingHidden DEF Updates!Requeue, UP!Requeue, UP!DrainStep
<1>6. CASE Updates!DrainFault(d)
  BY <1>6, NothingHidden
     DEF Updates!DrainFault, UP!DrainFault, Updates!CountFault, UP!CountFault,
         Updates!WriteOf, UP!WriteOf
<1> QED BY <1>1, <1>2, <1>3, <1>4, <1>5, <1>6 DEF Updates!DrainStep

LEMMA StrayWriteSeen ==
    ASSUME SInv, NEW w \in strayWrites,
           Updates!StrayWriteLands(w) \/ Updates!StrayWriteIsLost(w)
    PROVE  (UP!StrayWriteLands(w) \/ UP!StrayWriteIsLost(w)) /\ Hidden
<1> orders \in Collection /\ w.msg \in Updates!Message
  BY MessageTyped DEF SInv
<1> USE DEF Updates!QueueUnchanged, UP!QueueUnchanged, Updates!CallbacksUnchanged,
            UP!CallbacksUnchanged
<1>1. CASE Updates!StrayWriteLands(w)
  BY <1>1, AppendOfSeen, NothingHidden
     DEF Updates!StrayWriteLands, UP!StrayWriteLands, Hidden
<1>2. CASE Updates!StrayWriteIsLost(w)
  BY <1>2, NothingHidden DEF Updates!StrayWriteIsLost, UP!StrayWriteIsLost
<1> QED BY <1>1, <1>2

LEMMA UpdateIsSeen == SInv /\ UpdateStep => Seen
<1> SUFFICES ASSUME SInv, UpdateStep PROVE Seen
  OBVIOUS
<1>1. orders \in Collection /\ UNCHANGED <<announced, creationVars, shipmentVars>>
  BY DEF SInv, UpdateStep
<1>2. Updates!ClearStatusQueue => UP!ClearStatusQueue /\ Hidden
  BY <1>1, NothingHidden
     DEF Updates!ClearStatusQueue, UP!ClearStatusQueue, Updates!CallbacksUnchanged,
         UP!CallbacksUnchanged, Updates!DrainsUnchanged, UP!DrainsUnchanged,
         Updates!ToSet, UP!ToSet
<1>3. UP!Next /\ Hidden
  BY <1>2, CallbackSeen, DrainSeen, StrayWriteSeen DEF UpdateStep, UP!Next
<1>4. StraysAreNew'
  BY <1>1 DEF SInv, StraysAreNew, creationVars
<1> QED BY <1>1, <1>3, <1>4, Stutters DEF Seen, Hidden

----------------------------------------------------------------------------
(* Shipment steps *)

(* What a shipment step may do to the collection and to the other parts. *)
ShipmentHidden == /\ orders' \in Collection
                  /\ UNCHANGED <<CreationSees, UpdatesSee>>

LEMMA NoShipmentHidden ==
    ASSUME orders \in Collection, UNCHANGED orders
    PROVE  ShipmentHidden /\ UNCHANGED ShippingSees
BY NothingSeen DEF ShipmentHidden

(* Shipment looks for the shipment and the key of an order, and sees both. *)
LEMMA OrderSeen ==
    ASSUME orders \in Collection, NEW o \in OrderIds
    PROVE  /\ SP!Stored(o) <=> Shipping!Stored(o)
           /\ SP!Shipped(o) <=> Shipping!Shipped(o)
           /\ SP!Stored(o) => ShippingSees[o].requestId = orders[o].requestId
<1>1. SP!Stored(o) <=> Stored(o)
  BY SeenCollections
<1>2. Stored(o) => /\ ShippingSees[o].requestId = orders[o].requestId
                   /\ ShippingSees[o].shipment = orders[o].shipment
  BY SeenDocuments, SeenStored
<1> QED BY <1>1, <1>2 DEF SP!Shipped, Shipping!Shipped, Shipping!Stored, Stored

LEMMA WorkerOrderSeen ==
    ASSUME SInv, NEW w \in Workers, workerPc[w] # "idle"
    PROVE  /\ workerOrder[w] \in OrderIds
           /\ SP!Stored(workerOrder[w])
           /\ SP!PostKey(w) = Shipping!PostKey(w)
           /\ workerPc[w] = "save" => workerShipment[w] \in ShipmentIds
<1>1. /\ workerOrder[w] \in OrderIds /\ SP!Stored(workerOrder[w])
      /\ workerPc[w] = "save" => workerShipment[w] \in ShipmentIds
  BY AbsenceAssumption DEF SInv, SP!EventInv, SP!TypeOK, SP!HeldStored
<1> QED BY <1>1, OrderSeen DEF SInv, SP!PostKey, Shipping!PostKey

LEMMA MetadataWriteSeen ==
    ASSUME SInv, NEW o \in OrderIds, NEW id \in ShipmentIds,
           Shipping!UpdateShipmentMetadata(o, id)
    PROVE  SP!UpdateShipmentMetadata(o, id) /\ ShipmentHidden
<1>1. UpdateShipmentMetadata(o, id)
  BY DEF Shipping!UpdateShipmentMetadata, UpdateShipmentMetadata, Shipping!Stored, Stored
<1> QED BY <1>1, MetadataSeen DEF ShipmentHidden, SInv

LEMMA WorkerSeen ==
    ASSUME SInv, NEW w \in Workers, Shipping!WorkerStep(w)
    PROVE  SP!WorkerStep(w) /\ ShipmentHidden
<1> orders \in Collection
  BY DEF SInv
<1> USE DEF Shipping!Idle, SP!Idle, Shipping!Finish, SP!Finish, Shipping!Fail, SP!Fail,
            Shipping!queueVars, SP!queueVars, Shipping!deliveryVars, SP!deliveryVars
<1>1. CASE Shipping!TakeOrder(w)
  BY <1>1, NoShipmentHidden DEF Shipping!TakeOrder, SP!TakeOrder, SP!WorkerStep
<1>2. CASE Shipping!LookUp(w)
  <2>1. /\ SP!Stored(workerOrder[w]) <=> Shipping!Stored(workerOrder[w])
        /\ SP!Shipped(workerOrder[w]) <=> Shipping!Shipped(workerOrder[w])
    BY <1>2, WorkerOrderSeen, OrderSeen DEF Shipping!LookUp
  <2>2. SP!LookUp(w) /\ ShipmentHidden
    BY <1>2, <2>1, NoShipmentHidden DEF Shipping!LookUp, SP!LookUp
  <2> QED BY <2>2 DEF SP!WorkerStep
<1>3. CASE Shipping!Post(w)
  <2>1. SP!PostKey(w) = Shipping!PostKey(w)
    BY <1>3, WorkerOrderSeen DEF Shipping!Post
  <2>2. \A id \in ShipmentIds : Shipping!Handle(Shipping!PostKey(w), workerOrder[w], id)
                                  => SP!Handle(SP!PostKey(w), workerOrder[w], id)
    BY <2>1 DEF SP!Handle, Shipping!Handle, SP!UnusedIds, Shipping!UnusedIds
  <2>3. SP!Post(w) /\ ShipmentHidden
    BY <1>3, <2>2, NoShipmentHidden DEF Shipping!Post, SP!Post
  <2> QED BY <2>3 DEF SP!WorkerStep
<1>4. CASE Shipping!SaveMetadata(w)
  <2>1. workerOrder[w] \in OrderIds /\ workerShipment[w] \in ShipmentIds
    BY <1>4, WorkerOrderSeen DEF Shipping!SaveMetadata
  <2>2. SP!SaveMetadata(w) /\ ShipmentHidden
    BY <1>4, <2>1, MetadataWriteSeen DEF Shipping!SaveMetadata, SP!SaveMetadata
  <2> QED BY <2>2 DEF SP!WorkerStep
<1> QED BY <1>1, <1>2, <1>3, <1>4 DEF Shipping!WorkerStep

LEMMA ShipmentFaultSeen ==
    ASSUME SInv, NEW w \in Workers, Shipping!PostFault(w) \/ Shipping!WorkerFault(w)
    PROVE  (SP!PostFault(w) \/ SP!WorkerFault(w)) /\ ShipmentHidden
<1> orders \in Collection
  BY DEF SInv
<1> USE DEF Shipping!Idle, SP!Idle, Shipping!Fail, SP!Fail, Shipping!queueVars,
            SP!queueVars, Shipping!deliveryVars, SP!deliveryVars, Shipping!CountFault,
            SP!CountFault
<1>1. CASE Shipping!PostFault(w)
  BY <1>1, NoShipmentHidden DEF Shipping!PostFault, SP!PostFault, Shipping!PostOf, SP!PostOf
<1>2. CASE Shipping!WorkerFault(w)
  BY <1>2, NoShipmentHidden
     DEF Shipping!WorkerFault, SP!WorkerFault, Shipping!MetadataOf, SP!MetadataOf
<1> QED BY <1>1, <1>2

LEMMA StrayPostSeen ==
    ASSUME SInv, NEW p \in strayPosts,
           Shipping!StrayPostLands(p) \/ Shipping!StrayPostIsLost(p)
    PROVE  (SP!StrayPostLands(p) \/ SP!StrayPostIsLost(p)) /\ ShipmentHidden
<1> orders \in Collection
  BY DEF SInv
<1> USE DEF Shipping!workerVars, SP!workerVars, Shipping!queueVars, SP!queueVars
<1>1. CASE Shipping!StrayPostLands(p)
  <2>1. p.order \in OrderIds /\ SP!Stored(p.order)
    BY DEF SInv, SP!EventInv, SP!TypeOK, SP!HeldStored, SP!StrayPost
  <2>2. ShippingSees[p.order].requestId = orders[p.order].requestId
    BY <2>1, OrderSeen
  <2>3. \A id \in ShipmentIds :
           Shipping!Handle(orders[p.order].requestId, p.order, id)
             => SP!Handle(ShippingSees[p.order].requestId, p.order, id)
    BY <2>2 DEF SP!Handle, Shipping!Handle, SP!UnusedIds, Shipping!UnusedIds
  <2> QED BY <1>1, <2>3, NoShipmentHidden DEF Shipping!StrayPostLands, SP!StrayPostLands
<1>2. CASE Shipping!StrayPostIsLost(p)
  BY <1>2, NoShipmentHidden DEF Shipping!StrayPostIsLost, SP!StrayPostIsLost
<1> QED BY <1>1, <1>2

LEMMA StrayMetadataSeen ==
    ASSUME SInv, NEW m \in strayMetadata,
           Shipping!StrayMetadataLands(m) \/ Shipping!StrayMetadataIsLost(m)
    PROVE  (SP!StrayMetadataLands(m) \/ SP!StrayMetadataIsLost(m)) /\ ShipmentHidden
<1> orders \in Collection
  BY DEF SInv
<1> USE DEF Shipping!workerVars, SP!workerVars, Shipping!queueVars, SP!queueVars,
            Shipping!deliveryVars, SP!deliveryVars
<1>1. CASE Shipping!StrayMetadataLands(m)
  <2>1. m.order \in OrderIds /\ m.id \in ShipmentIds
    BY DEF SInv, SP!EventInv, SP!TypeOK, SP!MetadataWrite
  <2> QED BY <1>1, <2>1, MetadataWriteSeen
          DEF Shipping!StrayMetadataLands, SP!StrayMetadataLands
<1>2. CASE Shipping!StrayMetadataIsLost(m)
  BY <1>2, NoShipmentHidden DEF Shipping!StrayMetadataIsLost, SP!StrayMetadataIsLost
<1> QED BY <1>1, <1>2

LEMMA ShipmentIsSeen == SInv /\ ShipmentStep => Seen
<1> SUFFICES ASSUME SInv, ShipmentStep PROVE Seen
  OBVIOUS
<1>1. orders \in Collection /\ UNCHANGED <<creationVars, updateVars>>
  BY DEF SInv, ShipmentStep
<1>2. Shipping!ClearCreatedQueue => SP!ClearCreatedQueue /\ ShipmentHidden
  BY <1>1, NoShipmentHidden
     DEF Shipping!ClearCreatedQueue, SP!ClearCreatedQueue, Shipping!workerVars,
         SP!workerVars, Shipping!deliveryVars, SP!deliveryVars, Shipping!ToSet, SP!ToSet
<1>3. SP!Next /\ ShipmentHidden
  BY <1>2, WorkerSeen, ShipmentFaultSeen, StrayPostSeen, StrayMetadataSeen
     DEF ShipmentStep, SP!Next
<1>4. UNCHANGED announced
  BY DEF ShipmentStep, Shipping!WorkerStep, Shipping!TakeOrder, Shipping!LookUp,
         Shipping!Post, Shipping!SaveMetadata, Shipping!PostFault, Shipping!WorkerFault,
         Shipping!StrayPostLands, Shipping!StrayPostIsLost, Shipping!StrayMetadataLands,
         Shipping!StrayMetadataIsLost, Shipping!ClearCreatedQueue, Shipping!Finish,
         Shipping!Fail, Shipping!queueVars
<1>5. StraysAreNew'
  BY <1>1 DEF SInv, StraysAreNew, creationVars
<1> QED BY <1>1, <1>3, <1>4, <1>5, Stutters DEF Seen, ShipmentHidden

----------------------------------------------------------------------------
(* The restart takes every part down at once *)

LEMMA RestartIsSeen == SInv /\ Restart => Seen
<1> SUFFICES ASSUME SInv, Restart PROVE Seen
  OBVIOUS
<1>1. CP!Restart /\ StraysAreNew' /\ UNCHANGED orders
  BY CreationRestartSeen DEF Restart
<1>2. UNCHANGED <<CreationSees, UpdatesSee, ShippingSees>>
  BY <1>1, NothingSeen
<1>3. UP!Restart
  BY <1>2 DEF Restart, Updates!Restart, UP!Restart, Updates!CountFault, UP!CountFault,
              Updates!WriteOf, UP!WriteOf
<1>4. SP!Restart
  BY <1>2 DEF Restart, Shipping!Restart, SP!Restart, Shipping!CountFault, SP!CountFault,
              Shipping!PostOf, SP!PostOf, Shipping!MetadataOf, SP!MetadataOf
<1>5. orders' \in Collection
  BY <1>1 DEF SInv
<1> QED BY <1>1, <1>3, <1>4, <1>5 DEF Seen, CP!Next, UP!Next, SP!Next

LEMMA EveryStepIsSeen == SInv /\ [Next]_vars => Seen
<1>1. SInv /\ UNCHANGED vars => Seen
  BY NothingSeen, Stutters DEF SInv, StraysAreNew, vars, creationVars, Seen
<1> QED
  BY <1>1, CreationIsSeen, PublishIsSeen, UpdateIsSeen, ShipmentIsSeen, RestartIsSeen
     DEF Next

----------------------------------------------------------------------------
(* The invariant holds *)

LEMMA SInvNext == SInv /\ [Next]_vars => SInv'
BY EveryStepIsSeen, CreationKeepsIInv, UpdatesKeepTypes, ShippingKeepsEventInv
   DEF SInv, Seen

LEMMA NothingStored ==
    ASSUME Init
    PROVE  /\ orders \in Collection
           /\ \A o \in OrderIds : /\ CreationSees[o] = NoDocument
                                  /\ UpdatesSee[o] = NoDocument
                                  /\ ShippingSees[o] = NoDocument
<1>1. orders = [o \in OrderIds |-> NoDocument]
  BY DEF Init, Creation!Init
<1>2. orders \in Collection /\ \A o \in OrderIds : ~Stored(o)
  BY <1>1 DEF Collection, Stored
<1> QED BY <1>2, SeenDocuments, SeenAbsent

LEMMA PartsInitially == Init => CP!Init /\ UP!Init /\ SP!Init
<1> SUFFICES ASSUME Init PROVE CP!Init /\ UP!Init /\ SP!Init
  OBVIOUS
<1>1. /\ CreationSees = [o \in OrderIds |-> NoDocument]
      /\ UpdatesSee = [o \in OrderIds |-> NoDocument]
      /\ ShippingSees = [o \in OrderIds |-> NoDocument]
  BY NothingStored DEF CreationSees, UpdatesSee, ShippingSees
<1>2. CP!Init
  BY <1>1 DEF Init, Creation!Init, CP!Init
<1>3. UP!Init
  BY <1>1 DEF Init, Updates!Init, UP!Init
<1>4. SP!Init
  BY <1>1 DEF Init, Shipping!Init, SP!Init
<1> QED BY <1>2, <1>3, <1>4

LEMMA CreationIInvInit == CP!Init => CP!IInv
BY CP!IInvInit, NoDocumentAssumption, CreatedEventIdAssumption, PayloadsAssumption,
   AbsenceAssumption, BoundsAssumption
   DEF OrderDocument, CP!OrderDocument, StatusEvent, CP!StatusEvent, OrderStatus,
       CP!OrderStatus, CreatedEventId, CP!CreatedEventId, CP!HashPayload,
       Creation!HashPayload

LEMMA UpdatesTypeInit == UP!Init => UP!TypeOK
BY UP!TypeInit, NoDocumentAssumption, CreatedEventIdAssumption, ActorsAssumption,
   AbsenceAssumption, BoundsAssumption
   DEF OrderDocument, UP!OrderDocument, StatusEvent, UP!StatusEvent, OrderStatus,
       UP!OrderStatus, CreatedEventId, UP!CreatedEventId, UP!Message, Updates!Message,
       UP!CallbackStatus, Updates!CallbackStatus, IsFiniteSet, UP!IsFiniteSet

LEMMA ShippingEventInvInit == SP!Init => SP!EventInv
BY SP!EventInvInit, NoDocumentAssumption, CreatedEventIdAssumption, AbsenceAssumption,
   BoundsAssumption
   DEF OrderDocument, SP!OrderDocument, StatusEvent, SP!StatusEvent, OrderStatus,
       SP!OrderStatus, CreatedEventId, SP!CreatedEventId

LEMMA SInvInit == Init => SInv
<1> SUFFICES ASSUME Init PROVE SInv
  OBVIOUS
<1>1. CP!IInv /\ UP!TypeOK /\ SP!EventInv
  BY PartsInitially, CreationIInvInit, UpdatesTypeInit, ShippingEventInvInit
<1>2. strayInserts = {}
  BY DEF Init, Creation!Init
<1> QED BY <1>1, <1>2, NothingStored DEF SInv, StraysAreNew

LEMMA SInvariant == Spec => []SInv
BY SInvInit, SInvNext, PTL DEF Spec

----------------------------------------------------------------------------
(* The theorems *)

(* The views of SalesService are the ones the invariants were proved for. *)
LEMMA CreationViewStep == [CP!Next]_CP!vars => [CreationView!Next]_CreationView!vars
BY ZenonT(120)
   DEF CP!HashPayload, CreationView!HashPayload, CP!MaxPerItem,
       CreationView!MaxPerItem, CP!Available, CreationView!Available, CP!FreshIds,
       CreationView!FreshIds, CP!CountFault, CreationView!CountFault, CP!DocumentOf,
       CreationView!DocumentOf, CP!RefuseCreate, CreationView!RefuseCreate,
       CP!ReplayOrConflict, CreationView!ReplayOrConflict, CP!BuildOrder,
       CreationView!BuildOrder, CP!LookupKey, CreationView!LookupKey, CP!InsertOrder,
       CreationView!InsertOrder, CP!PublishOrder, CreationView!PublishOrder,
       CP!InsertOf, CreationView!InsertOf, CP!CreateFault, CreationView!CreateFault,
       CP!Restart, CreationView!Restart, CP!StrayInsertLands,
       CreationView!StrayInsertLands, CP!StrayInsertIsLost,
       CreationView!StrayInsertIsLost, CP!Next, CreationView!Next, CP!vars,
       CreationView!vars, CP!requestVars, CreationView!requestVars, CP!Stored,
       CreationView!Stored, CP!FindByRequestId, CreationView!FindByRequestId,
       CP!UniqueIndexesAccept, CreationView!UniqueIndexesAccept, CP!InsertOne,
       CreationView!InsertOne, CP!NewOrder, CreationView!NewOrder, CP!CreatedEventId,
       CreationView!CreatedEventId

LEMMA UpdatesViewStep == [UP!Next]_UP!vars => [UpdatesView!Next]_UpdatesView!vars
BY ZenonT(120)
   DEF UP!updateVars, UpdatesView!updateVars, UP!vars, UpdatesView!vars,
       UP!CallbackStatus, UpdatesView!CallbackStatus, UP!Message, UpdatesView!Message,
       UP!EventOf, UpdatesView!EventOf, UP!AllowedTransitions,
       UpdatesView!AllowedTransitions, UP!CanTransition, UpdatesView!CanTransition,
       UP!Prepared, UpdatesView!Prepared, UP!CreateOrder, UpdatesView!CreateOrder,
       UP!QueueUnchanged, UpdatesView!QueueUnchanged, UP!DrainsUnchanged,
       UpdatesView!DrainsUnchanged, UP!CallbacksUnchanged,
       UpdatesView!CallbacksUnchanged, UP!RefuseCallback, UpdatesView!RefuseCallback,
       UP!ValidateCallback, UpdatesView!ValidateCallback, UP!EnqueueCallback,
       UpdatesView!EnqueueCallback, UP!Dequeue, UpdatesView!Dequeue, UP!Finish,
       UpdatesView!Finish, UP!Fail, UpdatesView!Fail, UP!Prepare, UpdatesView!Prepare,
       UP!AppendEvent, UpdatesView!AppendEvent, UP!Recheck, UpdatesView!Recheck,
       UP!Requeue, UpdatesView!Requeue, UP!CountFault, UpdatesView!CountFault,
       UP!WriteOf, UpdatesView!WriteOf, UP!DrainFault, UpdatesView!DrainFault,
       UP!Restart, UpdatesView!Restart, UP!StrayWriteLands,
       UpdatesView!StrayWriteLands, UP!StrayWriteIsLost, UpdatesView!StrayWriteIsLost,
       UP!ClearStatusQueue, UpdatesView!ClearStatusQueue, UP!CallbackStep,
       UpdatesView!CallbackStep, UP!DrainStep, UpdatesView!DrainStep, UP!Next,
       UpdatesView!Next, UP!Stored, UpdatesView!Stored, UP!FindByRequestId,
       UpdatesView!FindByRequestId, UP!UniqueIndexesAccept,
       UpdatesView!UniqueIndexesAccept, UP!InsertOne, UpdatesView!InsertOne,
       UP!NewOrder, UpdatesView!NewOrder, UP!CreatedEventId,
       UpdatesView!CreatedEventId, UP!HasEvent, UpdatesView!HasEvent,
       UP!AppendFilterMatches, UpdatesView!AppendFilterMatches, UP!Appended,
       UpdatesView!Appended, UP!AppendStatusEvent, UpdatesView!AppendStatusEvent,
       UP!ToSet, UpdatesView!ToSet

LEMMA ShippingViewStep == [SP!Next]_SP!vars => [ShippingView!Next]_ShippingView!vars
BY ZenonT(120)
   DEF SP!workerVars, ShippingView!workerVars, SP!queueVars, ShippingView!queueVars,
       SP!deliveryVars, ShippingView!deliveryVars, SP!vars, ShippingView!vars,
       SP!CreateOrder, ShippingView!CreateOrder, SP!EnqueueCreated,
       ShippingView!EnqueueCreated, SP!Announce, ShippingView!Announce, SP!UnusedIds,
       ShippingView!UnusedIds, SP!Handle, ShippingView!Handle, SP!Shipped,
       ShippingView!Shipped, SP!TakeOrder, ShippingView!TakeOrder, SP!Idle,
       ShippingView!Idle, SP!Finish, ShippingView!Finish, SP!Fail, ShippingView!Fail,
       SP!LookUp, ShippingView!LookUp, SP!PostKey, ShippingView!PostKey, SP!Post,
       ShippingView!Post, SP!SaveMetadata, ShippingView!SaveMetadata, SP!CountFault,
       ShippingView!CountFault, SP!PostOf, ShippingView!PostOf, SP!MetadataOf,
       ShippingView!MetadataOf, SP!PostFault, ShippingView!PostFault, SP!WorkerFault,
       ShippingView!WorkerFault, SP!Restart, ShippingView!Restart, SP!StrayPostLands,
       ShippingView!StrayPostLands, SP!StrayPostIsLost, ShippingView!StrayPostIsLost,
       SP!StrayMetadataLands, ShippingView!StrayMetadataLands, SP!StrayMetadataIsLost,
       ShippingView!StrayMetadataIsLost, SP!ClearCreatedQueue,
       ShippingView!ClearCreatedQueue, SP!WorkerStep, ShippingView!WorkerStep,
       SP!Next, ShippingView!Next, SP!Stored, ShippingView!Stored, SP!FindByRequestId,
       ShippingView!FindByRequestId, SP!UniqueIndexesAccept,
       ShippingView!UniqueIndexesAccept, SP!InsertOne, ShippingView!InsertOne,
       SP!NewOrder, ShippingView!NewOrder, SP!CreatedEventId,
       ShippingView!CreatedEventId, SP!UpdateShipmentMetadata,
       ShippingView!UpdateShipmentMetadata, SP!ToSet, ShippingView!ToSet

LEMMA ViewsInitially ==
    /\ CP!Init => CreationView!Init
    /\ UP!Init => UpdatesView!Init
    /\ SP!Init => ShippingView!Init
<1>1. CP!Init => CreationView!Init
  BY DEF CP!Init, CreationView!Init
<1>2. UP!Init => UpdatesView!Init
  BY DEF UP!Init, UpdatesView!Init
<1>3. SP!Init => ShippingView!Init
  BY DEF SP!Init, ShippingView!Init
<1> QED BY <1>1, <1>2, <1>3

(* To order creation the rest of the service is invisible: whatever shipment
   scheduling and status updates write between its steps, the keys, the hashes
   and the announcements behave as if it ran alone. *)
THEOREM CreationImplemented == Spec => ImplementsCreation
<1>1. Init => CreationView!Init
  BY PartsInitially, ViewsInitially
<1>2. SInv /\ [Next]_vars => [CreationView!Next]_CreationView!vars
  BY EveryStepIsSeen, CreationViewStep DEF Seen
<1> QED
  BY <1>1, <1>2, SInvariant, PTL DEF Spec, ImplementsCreation, CreationView!Spec

(* To the status updates the metadata writes of the shipment drains, which check
   no version, are invisible, and creation is orders that appear: no metadata
   write undoes, blocks or forges a status. *)
THEOREM UpdatesImplemented == Spec => ImplementsUpdates
<1>1. Init => UpdatesView!Init
  BY PartsInitially, ViewsInitially
<1>2. SInv /\ [Next]_vars => [UpdatesView!Next]_UpdatesView!vars
  BY EveryStepIsSeen, UpdatesViewStep DEF Seen
<1> QED
  BY <1>1, <1>2, SInvariant, PTL DEF Spec, ImplementsUpdates, UpdatesView!Spec

(* To shipment scheduling creation is orders that appear and are announced at
   most once each, after they are stored, and status updates are invisible. *)
THEOREM ShippingImplemented == Spec => ImplementsShipment
<1>1. Init => ShippingView!Init
  BY PartsInitially, ViewsInitially
<1>2. SInv /\ [Next]_vars => [ShippingView!Next]_ShippingView!vars
  BY EveryStepIsSeen, ShippingViewStep DEF Seen
<1> QED
  BY <1>1, <1>2, SInvariant, PTL DEF Spec, ImplementsShipment, ShippingView!Spec

----------------------------------------------------------------------------
(* Each part's theorems hold of the part as the service runs it. *)

LEMMA CreationCorrect ==
    CP!Spec => /\ []CP!OneOrderPerKey
               /\ []CP!ConflictExactlyOnMismatch
               /\ []CP!AnnouncedOnce
               /\ []CP!AnnouncedIffCreated
               /\ []CP!StrandedIsUnanswered
               /\ []CP!IInv
               /\ CP!ImplementsIdempotencyKeys
<1>1. CP!Spec => []CP!OneOrderPerKey
  BY CP!KeyNamesOneOrder, NoDocumentAssumption, CreatedEventIdAssumption,
     PayloadsAssumption, AbsenceAssumption, BoundsAssumption
     DEF OrderDocument, CP!OrderDocument, StatusEvent, CP!StatusEvent, OrderStatus,
         CP!OrderStatus, CreatedEventId, CP!CreatedEventId, CP!HashPayload,
         Creation!HashPayload
<1>2. CP!Spec => []CP!ConflictExactlyOnMismatch
  BY CP!ConflictIffOtherBody, NoDocumentAssumption, CreatedEventIdAssumption,
     PayloadsAssumption, AbsenceAssumption, BoundsAssumption
     DEF OrderDocument, CP!OrderDocument, StatusEvent, CP!StatusEvent, OrderStatus,
         CP!OrderStatus, CreatedEventId, CP!CreatedEventId, CP!HashPayload,
         Creation!HashPayload
<1>3. CP!Spec => []CP!AnnouncedOnce
  BY CP!OrdersAreAnnouncedOnce, NoDocumentAssumption, CreatedEventIdAssumption,
     PayloadsAssumption, AbsenceAssumption, BoundsAssumption
     DEF OrderDocument, CP!OrderDocument, StatusEvent, CP!StatusEvent, OrderStatus,
         CP!OrderStatus, CreatedEventId, CP!CreatedEventId, CP!HashPayload,
         Creation!HashPayload
<1>4. CP!Spec => []CP!AnnouncedIffCreated
  BY CP!CreatedMeansAnnounced, NoDocumentAssumption, CreatedEventIdAssumption,
     PayloadsAssumption, AbsenceAssumption, BoundsAssumption
     DEF OrderDocument, CP!OrderDocument, StatusEvent, CP!StatusEvent, OrderStatus,
         CP!OrderStatus, CreatedEventId, CP!CreatedEventId, CP!HashPayload,
         Creation!HashPayload
<1>5. CP!Spec => []CP!IInv
  BY CP!IInvariant, NoDocumentAssumption, CreatedEventIdAssumption,
     PayloadsAssumption, AbsenceAssumption, BoundsAssumption
     DEF OrderDocument, CP!OrderDocument, StatusEvent, CP!StatusEvent, OrderStatus,
         CP!OrderStatus, CreatedEventId, CP!CreatedEventId, CP!HashPayload,
         Creation!HashPayload
<1>6. CP!Spec => CP!ImplementsIdempotencyKeys
  BY CP!KeysImplemented, NoDocumentAssumption, CreatedEventIdAssumption,
     PayloadsAssumption, AbsenceAssumption, BoundsAssumption
     DEF OrderDocument, CP!OrderDocument, StatusEvent, CP!StatusEvent, OrderStatus,
         CP!OrderStatus, CreatedEventId, CP!CreatedEventId, CP!HashPayload,
         Creation!HashPayload
<1>7. CP!Spec => []CP!StrandedIsUnanswered
  BY CP!StrandedOrdersHaveFailedRequest, NoDocumentAssumption, CreatedEventIdAssumption,
     PayloadsAssumption, AbsenceAssumption, BoundsAssumption
     DEF OrderDocument, CP!OrderDocument, StatusEvent, CP!StatusEvent, OrderStatus,
         CP!OrderStatus, CreatedEventId, CP!CreatedEventId, CP!HashPayload,
         Creation!HashPayload
<1> QED BY <1>1, <1>2, <1>3, <1>4, <1>5, <1>6, <1>7

LEMMA UpdatesCorrect ==
    UP!Spec => /\ []UP!LifecycleHistory
               /\ []UP!EventsAppliedOnce
               /\ []UP!WritesGuarded
               /\ []UP!NeverAhead
               /\ []UP!AcceptedSurvives
               /\ []UP!NoMessageForged
               /\ []UP!AppliedWasAccepted
               /\ UP!ImplementsLifecycle
<1>1. UP!Spec => []UP!LifecycleHistory
  BY UP!HistoryIsLifecycle,
     NoDocumentAssumption, CreatedEventIdAssumption, ActorsAssumption,
     AbsenceAssumption, BoundsAssumption
     DEF OrderDocument, UP!OrderDocument, StatusEvent, UP!StatusEvent, OrderStatus,
         UP!OrderStatus, CreatedEventId, UP!CreatedEventId, UP!Message, Updates!Message,
         UP!CallbackStatus, Updates!CallbackStatus, IsFiniteSet, UP!IsFiniteSet
<1>2. UP!Spec => []UP!EventsAppliedOnce
  BY UP!EventsAreAppliedOnce,
     NoDocumentAssumption, CreatedEventIdAssumption, ActorsAssumption,
     AbsenceAssumption, BoundsAssumption
     DEF OrderDocument, UP!OrderDocument, StatusEvent, UP!StatusEvent, OrderStatus,
         UP!OrderStatus, CreatedEventId, UP!CreatedEventId, UP!Message, Updates!Message,
         UP!CallbackStatus, Updates!CallbackStatus, IsFiniteSet, UP!IsFiniteSet
<1>3. UP!Spec => []UP!WritesGuarded
  BY UP!StaleWritesAreGuarded,
     NoDocumentAssumption, CreatedEventIdAssumption, ActorsAssumption,
     AbsenceAssumption, BoundsAssumption
     DEF OrderDocument, UP!OrderDocument, StatusEvent, UP!StatusEvent, OrderStatus,
         UP!OrderStatus, CreatedEventId, UP!CreatedEventId, UP!Message, Updates!Message,
         UP!CallbackStatus, Updates!CallbackStatus, IsFiniteSet, UP!IsFiniteSet
<1>4. UP!Spec => []UP!NeverAhead
  BY UP!MessagesAreNeverAhead,
     NoDocumentAssumption, CreatedEventIdAssumption, ActorsAssumption,
     AbsenceAssumption, BoundsAssumption
     DEF OrderDocument, UP!OrderDocument, StatusEvent, UP!StatusEvent, OrderStatus,
         UP!OrderStatus, CreatedEventId, UP!CreatedEventId, UP!Message, Updates!Message,
         UP!CallbackStatus, Updates!CallbackStatus, IsFiniteSet, UP!IsFiniteSet
<1>5. UP!Spec => []UP!AcceptedSurvives
  BY UP!AcceptedEventsSurvive,
     NoDocumentAssumption, CreatedEventIdAssumption, ActorsAssumption,
     AbsenceAssumption, BoundsAssumption
     DEF OrderDocument, UP!OrderDocument, StatusEvent, UP!StatusEvent, OrderStatus,
         UP!OrderStatus, CreatedEventId, UP!CreatedEventId, UP!Message, Updates!Message,
         UP!CallbackStatus, Updates!CallbackStatus, IsFiniteSet, UP!IsFiniteSet
<1>6. UP!Spec => []UP!NoMessageForged
  BY UP!NoMessageIsForged,
     NoDocumentAssumption, CreatedEventIdAssumption, ActorsAssumption,
     AbsenceAssumption, BoundsAssumption
     DEF OrderDocument, UP!OrderDocument, StatusEvent, UP!StatusEvent, OrderStatus,
         UP!OrderStatus, CreatedEventId, UP!CreatedEventId, UP!Message, Updates!Message,
         UP!CallbackStatus, Updates!CallbackStatus, IsFiniteSet, UP!IsFiniteSet
<1>7. UP!Spec => []UP!AppliedWasAccepted
  BY UP!AppliedEventsWereAccepted,
     NoDocumentAssumption, CreatedEventIdAssumption, ActorsAssumption,
     AbsenceAssumption, BoundsAssumption
     DEF OrderDocument, UP!OrderDocument, StatusEvent, UP!StatusEvent, OrderStatus,
         UP!OrderStatus, CreatedEventId, UP!CreatedEventId, UP!Message, Updates!Message,
         UP!CallbackStatus, Updates!CallbackStatus, IsFiniteSet, UP!IsFiniteSet
<1>8. UP!Spec => UP!ImplementsLifecycle
  BY UP!LifecycleImplemented,
     NoDocumentAssumption, CreatedEventIdAssumption, ActorsAssumption,
     AbsenceAssumption, BoundsAssumption
     DEF OrderDocument, UP!OrderDocument, StatusEvent, UP!StatusEvent, OrderStatus,
         UP!OrderStatus, CreatedEventId, UP!CreatedEventId, UP!Message, Updates!Message,
         UP!CallbackStatus, Updates!CallbackStatus, IsFiniteSet, UP!IsFiniteSet
<1> QED BY <1>1, <1>2, <1>3, <1>4, <1>5, <1>6, <1>7, <1>8

LEMMA ShippingCorrect ==
    SP!Spec => /\ []SP!SoleHandler
               /\ []SP!DueIsHandled
               /\ []SP!DuplicatesNeedFaults
               /\ []SP!ShippedWasAnnounced
               /\ []SP!IInv
               /\ SP!ImplementsLedger
<1>1. SP!Spec => []SP!SoleHandler
  BY SP!EventsHaveOneHandler, NoDocumentAssumption, CreatedEventIdAssumption,
     AbsenceAssumption, BoundsAssumption
     DEF OrderDocument, SP!OrderDocument, StatusEvent, SP!StatusEvent, OrderStatus,
         SP!OrderStatus, CreatedEventId, SP!CreatedEventId
<1>2. SP!Spec => []SP!DueIsHandled
  BY SP!DueOrdersAreHandled, NoDocumentAssumption, CreatedEventIdAssumption,
     AbsenceAssumption, BoundsAssumption
     DEF OrderDocument, SP!OrderDocument, StatusEvent, SP!StatusEvent, OrderStatus,
         SP!OrderStatus, CreatedEventId, SP!CreatedEventId
<1>3. SP!Spec => []SP!DuplicatesNeedFaults
  BY SP!EachDuplicateHasAFault, NoDocumentAssumption, CreatedEventIdAssumption,
     AbsenceAssumption, BoundsAssumption
     DEF OrderDocument, SP!OrderDocument, StatusEvent, SP!StatusEvent, OrderStatus,
         SP!OrderStatus, CreatedEventId, SP!CreatedEventId
<1>4. SP!Spec => []SP!ShippedWasAnnounced
  BY SP!OnlyAnnouncedOrdersAreShipped, NoDocumentAssumption, CreatedEventIdAssumption,
     AbsenceAssumption, BoundsAssumption
     DEF OrderDocument, SP!OrderDocument, StatusEvent, SP!StatusEvent, OrderStatus,
         SP!OrderStatus, CreatedEventId, SP!CreatedEventId
<1>5. SP!Spec => []SP!IInv
  BY SP!IInvariant, NoDocumentAssumption, CreatedEventIdAssumption,
     AbsenceAssumption, BoundsAssumption
     DEF OrderDocument, SP!OrderDocument, StatusEvent, SP!StatusEvent, OrderStatus,
         SP!OrderStatus, CreatedEventId, SP!CreatedEventId
<1>6. SP!Spec => SP!ImplementsLedger
  BY SP!LedgerImplemented, NoDocumentAssumption, CreatedEventIdAssumption,
     AbsenceAssumption, BoundsAssumption
     DEF OrderDocument, SP!OrderDocument, StatusEvent, SP!StatusEvent, OrderStatus,
         SP!OrderStatus, CreatedEventId, SP!CreatedEventId
<1> QED BY <1>1, <1>2, <1>3, <1>4, <1>5, <1>6

(* What every part's invariant says, about the part as the service runs it. *)
LEMMA PartsRun ==
    Spec => /\ CP!Spec /\ UP!Spec /\ SP!Spec
            /\ []SInv
<1>1. Init => CP!Init /\ UP!Init /\ SP!Init
  BY PartsInitially
<1>2. SInv /\ [Next]_vars => [CP!Next]_CP!vars /\ [UP!Next]_UP!vars /\ [SP!Next]_SP!vars
  BY EveryStepIsSeen DEF Seen
<1> QED BY <1>1, <1>2, SInvariant, PTL DEF Spec, CP!Spec, UP!Spec, SP!Spec

----------------------------------------------------------------------------
(* Creation in the service *)

(* What creation promises about keys, of the documents themselves. *)
LEMMA BoundSeen ==
    ASSUME orders \in Collection, NEW key \in RequestIds
    PROVE  CP!Bound(key) = Creation!Bound(key)
<1>1. CP!FindByRequestId(key) = Creation!FindByRequestId(key)
  BY SeenCollections DEF Creation!FindByRequestId, FindByRequestId, Creation!Stored, Stored
<1>2. ASSUME NEW o \in Creation!FindByRequestId(key)
      PROVE  CreationSees[o].payloadHash = orders[o].payloadHash
  <2>1. o \in OrderIds /\ Stored(o)
    BY <1>2 DEF Creation!FindByRequestId, Creation!Stored, Stored
  <2> QED BY <2>1, SeenDocuments, SeenStored
<1> QED BY <1>1, <1>2 DEF CP!Bound, Creation!Bound

keysSeen == [key \in RequestIds |-> CP!Bound(key)]
keysOf   == [key \in RequestIds |-> Creation!Bound(key)]

LEMMA KeysSeen == SInv => keysSeen = keysOf
BY BoundSeen DEF SInv, keysSeen, keysOf

LEMMA KeysSeenNext == SInv' => (keysSeen = keysOf)'
BY KeysSeen, PTL

LEMMA AnnouncedSeen ==
    ASSUME SInv, CP!AnnouncedOnce
    PROVE  Creation!AnnouncedOnce
<1>1. announced \in Seq(OrderIds) /\ orders \in Collection
  BY DEF SInv, CP!IInv, CP!TypeOK
<1>2. ASSUME NEW i \in 1..Len(announced), CP!Stored(announced[i])
      PROVE  Creation!Stored(announced[i])
  <2>1. announced[i] \in OrderIds
    BY <1>1
  <2> QED BY <1>1, <1>2, <2>1, SeenCollections DEF Creation!Stored, Stored
<1> QED BY <1>2 DEF CP!AnnouncedOnce, Creation!AnnouncedOnce

LEMMA ConflictsSeen == CP!ConflictExactlyOnMismatch => Creation!ConflictExactlyOnMismatch
BY DEF CP!ConflictExactlyOnMismatch, Creation!ConflictExactlyOnMismatch, CP!Answered,
       Creation!Answered, CP!SameBody, Creation!SameBody

LEMMA KeysStepSeen ==
    ASSUME SInv, SInv', [CP!Abstract!Next]_keysSeen
    PROVE  [Creation!Abstract!Next]_keysOf
<1>1. keysSeen = keysOf /\ keysSeen' = keysOf'
  BY KeysSeen, KeysSeenNext
<1>2. UNCHANGED keysSeen => UNCHANGED keysOf
  BY <1>1
<1>3. ASSUME NEW key \in RequestIds, NEW o \in OrderIds, NEW hash \in PayloadHashes,
             CP!Abstract!Bind(key, o, hash)
      PROVE  Creation!Abstract!Bind(key, o, hash)
  <2>1. /\ keysSeen[key] = {}
        /\ \A k \in RequestIds : \A b \in keysSeen[k] : b.order # o
        /\ keysSeen' = [keysSeen EXCEPT ![key] = {[order |-> o, hash |-> hash]}]
    BY <1>3, Zenon DEF CP!Abstract!Bind, CP!Abstract!Unclaimed, keysSeen
  <2>2. /\ keysOf[key] = {}
        /\ \A k \in RequestIds : \A b \in keysOf[k] : b.order # o
        /\ keysOf' = [keysOf EXCEPT ![key] = {[order |-> o, hash |-> hash]}]
    BY <1>1, <2>1
  <2> QED BY <2>2, Zenon DEF Creation!Abstract!Bind, Creation!Abstract!Unclaimed, keysOf
<1> QED BY <1>2, <1>3 DEF CP!Abstract!Next, Creation!Abstract!Next

LEMMA KeysAtFirst == Init => Creation!Abstract!Init
<1>1. \A key \in RequestIds : Init => Creation!Bound(key) = {}
  BY DEF Init, Creation!Init, Creation!Bound, Creation!FindByRequestId, Creation!Stored
<1> QED BY <1>1 DEF Creation!Abstract!Init

(* Whatever shipment scheduling and status updates write to the documents, and
   however often the process that all share goes down: requests with one key get
   one order, a conflict is answered to another body only, an order is announced
   once, and the documents are a write-once register of the keys. *)
THEOREM KeysInService ==
    Spec => /\ []Creation!OneOrderPerKey
            /\ []Creation!ConflictExactlyOnMismatch
            /\ []Creation!AnnouncedOnce
            /\ Creation!ImplementsIdempotencyKeys
<1>1. CP!OneOrderPerKey => Creation!OneOrderPerKey
  BY DEF CP!OneOrderPerKey, Creation!OneOrderPerKey
<1>2. SInv /\ CP!AnnouncedOnce => Creation!AnnouncedOnce
  BY AnnouncedSeen
<1>3. SInv /\ SInv' /\ [CP!Abstract!Next]_keysSeen => [Creation!Abstract!Next]_keysOf
  BY KeysStepSeen
<1>4. Spec => [][CP!Abstract!Next]_keysSeen
  BY PartsRun, CreationCorrect, PTL
     DEF CP!ImplementsIdempotencyKeys, CP!Abstract!Spec, keysSeen
<1>5. Spec => Creation!Abstract!Init /\ [][Creation!Abstract!Next]_keysOf
  BY <1>3, <1>4, KeysAtFirst, SInvariant, PTL DEF Spec
<1>6. Spec => Creation!ImplementsIdempotencyKeys
  BY <1>5, PTL DEF Creation!ImplementsIdempotencyKeys, Creation!Abstract!Spec, keysOf
<1> QED BY <1>1, <1>2, <1>6, ConflictsSeen, PartsRun, CreationCorrect, PTL

----------------------------------------------------------------------------
(* Status updates in the service *)

LEMMA HistorySeen ==
    ASSUME SInv, NEW o \in OrderIds
    PROVE  /\ UP!Stored(o) <=> Updates!Stored(o)
           /\ Updates!Stored(o) => /\ UpdatesSee[o].version = orders[o].version
                                   /\ UpdatesSee[o].status = orders[o].status
                                   /\ UpdatesSee[o].statusHistory = orders[o].statusHistory
           /\ Updates!Stored(o) => \A id : UP!HasEvent(UpdatesSee[o], id)
                                             <=> Updates!HasEvent(orders[o], id)
<1>1. orders \in Collection
  BY DEF SInv
<1>2. Stored(o) <=> Updates!Stored(o)
  BY DEF Updates!Stored, Stored
<1> QED BY <1>1, <1>2, DocumentSeen, EventSeen

LEMMA MessagesNamed ==
    ASSUME SInv
    PROVE  /\ \A m \in Updates!ToSet(statusQueue) : m.orderId \in OrderIds
           /\ \A d \in Drains : drainPc[d] # "idle" => drainMsg[d].orderId \in OrderIds
           /\ \A c \in Callbacks : callback[c] = "validated" => callbackMsg[c].orderId \in OrderIds
           /\ \A w \in strayWrites : w.msg.orderId \in OrderIds
           /\ \A m \in accepted : m.orderId \in OrderIds
<1>1. \A m \in UP!Message : m.orderId \in OrderIds
  BY DEF UP!Message
<1> QED BY <1>1 DEF SInv, UP!TypeOK, UP!Write, Updates!ToSet

LEMMA RanksSeen ==
    /\ \A status : UP!Rank(status) = Updates!Rank(status)
    /\ \A s, t : UP!CanTransition(s, t) <=> Updates!CanTransition(s, t)
    /\ UP!ToSet(statusQueue) = Updates!ToSet(statusQueue)
    /\ UP!InFlight = Updates!InFlight
BY DEF UP!Rank, Updates!Rank, UP!CanTransition, Updates!CanTransition,
       UP!AllowedTransitions, Updates!AllowedTransitions, UP!ToSet, Updates!ToSet,
       UP!InFlight, Updates!InFlight

LEMMA HistoriesSeen ==
    ASSUME SInv
    PROVE  /\ UP!LifecycleHistory => Updates!LifecycleHistory
           /\ UP!EventsAppliedOnce => Updates!EventsAppliedOnce
           /\ UP!AppliedWasAccepted => Updates!AppliedWasAccepted
<1>1. ASSUME UP!LifecycleHistory PROVE Updates!LifecycleHistory
  BY <1>1, HistorySeen, RanksSeen DEF UP!LifecycleHistory, Updates!LifecycleHistory
<1>2. ASSUME UP!EventsAppliedOnce PROVE Updates!EventsAppliedOnce
  BY <1>2, HistorySeen DEF UP!EventsAppliedOnce, Updates!EventsAppliedOnce
<1>3. ASSUME UP!AppliedWasAccepted PROVE Updates!AppliedWasAccepted
  <2>1. \A m : UP!EventOf(m) = Updates!EventOf(m)
    BY DEF UP!EventOf, Updates!EventOf
  <2> QED BY <1>3, <2>1, HistorySeen DEF UP!AppliedWasAccepted, Updates!AppliedWasAccepted
<1> QED BY <1>1, <1>2, <1>3

(* A stored order has, seen or whole, reached the same statuses and accepts the
   same messages. *)
LEMMA ApplicableSeen ==
    ASSUME SInv, NEW m, m.orderId \in OrderIds
    PROVE  /\ UP!Stored(m.orderId) => (UP!Reached(m) <=> Updates!Reached(m))
           /\ UP!Prepared(m) = "apply" <=> Updates!Prepared(m) = "apply"
<1> DEFINE o == m.orderId
<1>1. UP!Prepared(m) = "apply" <=> /\ UP!Stored(o)
                                   /\ ~UP!HasEvent(UpdatesSee[o], m.eventId)
                                   /\ UP!CanTransition(UpdatesSee[o].status, m.status)
  BY DEF UP!Prepared
<1>2. Updates!Prepared(m) = "apply" <=> /\ Updates!Stored(o)
                                        /\ ~Updates!HasEvent(orders[o], m.eventId)
                                        /\ Updates!CanTransition(orders[o].status, m.status)
  BY DEF Updates!Prepared
<1>3. UP!Stored(o) => (UP!Reached(m) <=> Updates!Reached(m))
  BY HistorySeen, RanksSeen DEF UP!Reached, Updates!Reached
<1>4. /\ UP!Stored(o) <=> Updates!Stored(o)
      /\ Updates!Stored(o) => /\ UpdatesSee[o].status = orders[o].status
                              /\ \A id : UP!HasEvent(UpdatesSee[o], id)
                                            <=> Updates!HasEvent(orders[o], id)
  BY HistorySeen
<1> QED BY <1>1, <1>2, <1>3, <1>4, RanksSeen

LEMMA MessagesSeen ==
    ASSUME SInv
    PROVE  /\ UP!WritesGuarded => Updates!WritesGuarded
           /\ UP!NeverAhead => Updates!NeverAhead
           /\ UP!AcceptedSurvives => Updates!AcceptedSurvives
           /\ UP!NoMessageForged => Updates!NoMessageForged
<1>1. ASSUME NEW m, m.orderId \in OrderIds
      PROVE  /\ \A version : UP!Guarded(m, version) => Updates!Guarded(m, version)
             /\ UP!NotAhead(m) => Updates!NotAhead(m)
  <2>1. \A version : UP!Guarded(m, version) => Updates!Guarded(m, version)
    BY <1>1, HistorySeen, RanksSeen DEF UP!Guarded, Updates!Guarded
  <2>2. UP!NotAhead(m) => Updates!NotAhead(m)
    BY <1>1, HistorySeen, ApplicableSeen DEF UP!NotAhead, Updates!NotAhead
  <2> QED BY <2>1, <2>2
<1>2. ASSUME UP!WritesGuarded PROVE Updates!WritesGuarded
  <2>1. \A d \in Drains : drainPc[d] = "append" => drainMsg[d].orderId \in OrderIds
    BY MessagesNamed
  <2> QED BY <1>1, <1>2, <2>1, MessagesNamed DEF UP!WritesGuarded, Updates!WritesGuarded
<1>3. ASSUME UP!NeverAhead PROVE Updates!NeverAhead
  BY <1>1, <1>3, MessagesNamed, RanksSeen DEF UP!NeverAhead, Updates!NeverAhead
<1>4. ASSUME UP!AcceptedSurvives PROVE Updates!AcceptedSurvives
  BY <1>4, HistorySeen, ApplicableSeen, MessagesNamed, RanksSeen
     DEF UP!AcceptedSurvives, Updates!AcceptedSurvives
<1>5. ASSUME UP!NoMessageForged PROVE Updates!NoMessageForged
  BY <1>5, RanksSeen, Zenon DEF UP!NoMessageForged, Updates!NoMessageForged, UP!Cardinality, Updates!Cardinality
<1> QED BY <1>2, <1>3, <1>4, <1>5

(* The histories as the status updates see them, and as they are. *)
historiesSeen == [o \in OrderIds |-> UP!Statuses(o)]
histories     == [o \in OrderIds |-> Updates!Statuses(o)]

LEMMA SameHistories == SInv => historiesSeen = histories
<1> SUFFICES ASSUME SInv, NEW o \in OrderIds PROVE UP!Statuses(o) = Updates!Statuses(o)
  BY DEF historiesSeen, histories
<1> QED BY HistorySeen DEF UP!Statuses, Updates!Statuses

LEMMA SameHistoriesNext == SInv' => (historiesSeen = histories)'
BY SameHistories, PTL

LEMMA HistoriesAtFirst == Init => Updates!Abstract!Init
BY DEF Init, Updates!Init, Updates!Statuses, Updates!Stored, Updates!Abstract!Init

LEMMA HistoryStepSeen ==
    ASSUME SInv, SInv', [UP!Abstract!Next]_historiesSeen
    PROVE  [Updates!Abstract!Next]_histories
<1>1. historiesSeen = histories /\ historiesSeen' = histories'
  BY SameHistories, SameHistoriesNext
<1>2. UNCHANGED historiesSeen => UNCHANGED histories
  BY <1>1
<1>3. ASSUME NEW o \in OrderIds, UP!Abstract!Create(o)
      PROVE  Updates!Abstract!Create(o)
  <2>1. /\ historiesSeen[o] = << >>
        /\ historiesSeen' = [historiesSeen EXCEPT ![o] = << UP!Abstract!Lifecycle[1] >>]
    BY <1>3, Zenon DEF UP!Abstract!Create, historiesSeen
  <2>2. /\ histories[o] = << >>
        /\ histories' = [histories EXCEPT ![o] = << Updates!Abstract!Lifecycle[1] >>]
    BY <1>1, <2>1, Zenon DEF UP!Abstract!Lifecycle, Updates!Abstract!Lifecycle
  <2> QED BY <2>2, Zenon DEF Updates!Abstract!Create, histories
<1>4. ASSUME NEW o \in OrderIds, UP!Abstract!Advance(o)
      PROVE  Updates!Abstract!Advance(o)
  <2>1. /\ Len(historiesSeen[o]) \in 1 .. Len(UP!Abstract!Lifecycle) - 1
        /\ historiesSeen' = [historiesSeen EXCEPT
              ![o] = Append(@, UP!Abstract!Lifecycle[Len(@) + 1])]
    BY <1>4, Zenon DEF UP!Abstract!Advance, historiesSeen
  <2>2. /\ Len(histories[o]) \in 1 .. Len(Updates!Abstract!Lifecycle) - 1
        /\ histories' = [histories EXCEPT
              ![o] = Append(@, Updates!Abstract!Lifecycle[Len(@) + 1])]
    BY <1>1, <2>1, Zenon DEF UP!Abstract!Lifecycle, Updates!Abstract!Lifecycle
  <2> QED BY <2>2, Zenon DEF Updates!Abstract!Advance, histories
<1> QED BY <1>2, <1>3, <1>4 DEF UP!Abstract!Next, Updates!Abstract!Next

(* Whatever shipment scheduling, which checks no version, and creation do to the
   same documents: histories are the lifecycle, no event is recorded twice, lost
   or forged, and no write of a stale snapshot applies. *)
THEOREM HistoriesInService ==
    Spec => /\ []Updates!LifecycleHistory
            /\ []Updates!EventsAppliedOnce
            /\ []Updates!WritesGuarded
            /\ []Updates!NeverAhead
            /\ []Updates!AcceptedSurvives
            /\ []Updates!NoMessageForged
            /\ []Updates!AppliedWasAccepted
            /\ Updates!ImplementsLifecycle
<1>1. SInv /\ SInv' /\ [UP!Abstract!Next]_historiesSeen => [Updates!Abstract!Next]_histories
  BY HistoryStepSeen
<1>2. Spec => [][UP!Abstract!Next]_historiesSeen
  BY PartsRun, UpdatesCorrect, PTL
     DEF UP!ImplementsLifecycle, UP!Abstract!Spec, historiesSeen
<1>3. Spec => Updates!Abstract!Init /\ [][Updates!Abstract!Next]_histories
  BY <1>1, <1>2, HistoriesAtFirst, SInvariant, PTL DEF Spec
<1>4. Spec => Updates!ImplementsLifecycle
  BY <1>3, PTL DEF Updates!ImplementsLifecycle, Updates!Abstract!Spec, histories
<1>5. /\ SInv /\ UP!LifecycleHistory => Updates!LifecycleHistory
      /\ SInv /\ UP!EventsAppliedOnce => Updates!EventsAppliedOnce
      /\ SInv /\ UP!AppliedWasAccepted => Updates!AppliedWasAccepted
  BY HistoriesSeen
<1>6. /\ SInv /\ UP!WritesGuarded => Updates!WritesGuarded
      /\ SInv /\ UP!NeverAhead => Updates!NeverAhead
      /\ SInv /\ UP!AcceptedSurvives => Updates!AcceptedSurvives
      /\ SInv /\ UP!NoMessageForged => Updates!NoMessageForged
  BY MessagesSeen
<1> QED BY <1>4, <1>5, <1>6, PartsRun, UpdatesCorrect, PTL

----------------------------------------------------------------------------
(* Shipment in the service *)

LEMMA ShipmentsSeen ==
    ASSUME SInv
    PROVE  /\ SP!SoleHandler => Shipping!SoleHandler
           /\ SP!DueIsHandled => Shipping!DueIsHandled
           /\ SP!DuplicatesNeedFaults => Shipping!DuplicatesNeedFaults
<1>1. due \subseteq OrderIds /\ orders \in Collection
  BY DEF SInv, SP!EventInv, SP!TypeOK
<1>2. SP!ToSet(createdQueue) = Shipping!ToSet(createdQueue)
  BY DEF SP!ToSet, Shipping!ToSet
<1>3. SP!InHand = Shipping!InHand
  BY DEF SP!InHand, Shipping!InHand
<1>4. SP!SoleHandler => Shipping!SoleHandler
  BY <1>2 DEF SP!SoleHandler, Shipping!SoleHandler
<1>5. SP!DueIsHandled => Shipping!DueIsHandled
  BY <1>1, <1>2, <1>3, OrderSeen DEF SP!DueIsHandled, Shipping!DueIsHandled
<1>6. SP!DuplicatesNeedFaults => Shipping!DuplicatesNeedFaults
  BY Zenon DEF SP!DuplicatesNeedFaults, Shipping!DuplicatesNeedFaults, SP!Made,
              Shipping!Made, SP!Cardinality, Shipping!Cardinality
<1> QED BY <1>4, <1>5, <1>6

(* The ledger as shipment sees it, and as it is. *)
madeSeen     == [o \in OrderIds |-> SP!Made(o)]
made         == [o \in OrderIds |-> Shipping!Made(o)]
recordsSeen  == [o \in OrderIds |->
                    IF SP!Stored(o) THEN ShippingSees[o].shipment ELSE NoShipment]
records      == [o \in OrderIds |->
                    IF Shipping!Stored(o) THEN orders[o].shipment ELSE NoShipment]

LEMMA SameLedger == SInv => <<madeSeen, recordsSeen>> = <<made, records>>
<1> SUFFICES ASSUME SInv PROVE madeSeen = made /\ recordsSeen = records
  OBVIOUS
<1>1. madeSeen = made
  BY DEF madeSeen, made, SP!Made, Shipping!Made
<1>2. ASSUME NEW o \in OrderIds
      PROVE  (IF SP!Stored(o) THEN ShippingSees[o].shipment ELSE NoShipment)
               = (IF Shipping!Stored(o) THEN orders[o].shipment ELSE NoShipment)
  <2>1. orders \in Collection
    BY DEF SInv
  <2>2. SP!Stored(o) <=> Stored(o)
    BY <2>1, SeenCollections
  <2>3. Shipping!Stored(o) <=> Stored(o)
    BY DEF Shipping!Stored, Stored
  <2>4. Stored(o) => ShippingSees[o].shipment = orders[o].shipment
    BY <2>1, SeenDocuments, SeenStored
  <2> QED BY <2>2, <2>3, <2>4
<1> QED BY <1>1, <1>2 DEF recordsSeen, records

LEMMA SameLedgerNext == SInv' => (<<madeSeen, recordsSeen>> = <<made, records>>)'
BY SameLedger, PTL

LEMMA LedgerAtFirst == Init => Shipping!Ledger!Init
<1> SUFFICES ASSUME Init PROVE Shipping!Ledger!Init
  OBVIOUS
<1>1. shipments = {} /\ keepsContract \in BOOLEAN
      /\ \A o \in OrderIds : ~Shipping!Stored(o)
  BY DEF Init, Shipping!Init, Shipping!Stored
<1>2. \A o \in OrderIds : Shipping!Made(o) = {}
  BY <1>1 DEF Shipping!Made
<1> QED BY <1>1, <1>2 DEF Shipping!Ledger!Init

LEMMA LedgerStepSeen ==
    ASSUME SInv, SInv', [SP!Ledger!Next]_<<keepsContract, madeSeen, recordsSeen>>
    PROVE  [Shipping!Ledger!Next]_<<keepsContract, made, records>>
<1>1. /\ madeSeen = made /\ madeSeen' = made'
      /\ recordsSeen = records /\ recordsSeen' = records'
  BY SameLedger, SameLedgerNext
<1>2. UNCHANGED <<keepsContract, madeSeen, recordsSeen>>
         => UNCHANGED <<keepsContract, made, records>>
  BY <1>1
<1>3. ASSUME NEW o \in OrderIds, NEW s \in ShipmentIds, SP!Ledger!Make(o, s)
      PROVE  Shipping!Ledger!Make(o, s)
  <2>1. /\ \A p \in OrderIds : s \notin madeSeen[p]
        /\ keepsContract => madeSeen[o] = {}
        /\ madeSeen' = [madeSeen EXCEPT ![o] = madeSeen[o] \cup {s}]
        /\ UNCHANGED <<keepsContract, recordsSeen>>
    BY <1>3, Zenon DEF SP!Ledger!Make, madeSeen, recordsSeen
  <2>2. /\ \A p \in OrderIds : s \notin made[p]
        /\ keepsContract => made[o] = {}
        /\ made' = [made EXCEPT ![o] = made[o] \cup {s}]
        /\ UNCHANGED <<keepsContract, records>>
    BY <1>1, <2>1
  <2> QED BY <2>2, Zenon DEF Shipping!Ledger!Make, made, records
<1>4. ASSUME NEW o \in OrderIds, NEW s \in ShipmentIds, SP!Ledger!Record(o, s)
      PROVE  Shipping!Ledger!Record(o, s)
  <2>1. /\ s \in madeSeen[o]
        /\ recordsSeen' = [recordsSeen EXCEPT ![o] = s]
        /\ UNCHANGED <<keepsContract, madeSeen>>
    BY <1>4, Zenon DEF SP!Ledger!Record, madeSeen, recordsSeen
  <2>2. /\ s \in made[o]
        /\ records' = [records EXCEPT ![o] = s]
        /\ UNCHANGED <<keepsContract, made>>
    BY <1>1, <2>1
  <2> QED BY <2>2, Zenon DEF Shipping!Ledger!Record, made, records
<1> QED BY <1>2, <1>3, <1>4 DEF SP!Ledger!Next, Shipping!Ledger!Next

(* Whatever status updates and creation do to the documents its drains check
   without a lock: an event has one handler, a due order is shipped, queued or in
   hand, a deduplicating Delivery makes one shipment for an order and any other at
   most one more per fault, and an order records a shipment made for it. *)
THEOREM ShipmentsInService ==
    Spec => /\ []Shipping!SoleHandler
            /\ []Shipping!DueIsHandled
            /\ []Shipping!DuplicatesNeedFaults
            /\ Shipping!ImplementsLedger
<1>1. SInv /\ SInv' /\ [SP!Ledger!Next]_<<keepsContract, madeSeen, recordsSeen>>
         => [Shipping!Ledger!Next]_<<keepsContract, made, records>>
  BY LedgerStepSeen
<1>2. Spec => [][SP!Ledger!Next]_<<keepsContract, madeSeen, recordsSeen>>
  BY PartsRun, ShippingCorrect, PTL
     DEF SP!ImplementsLedger, SP!Ledger!Spec, madeSeen, recordsSeen
<1>3. Spec => /\ Shipping!Ledger!Init
              /\ [][Shipping!Ledger!Next]_<<keepsContract, made, records>>
  BY <1>1, <1>2, LedgerAtFirst, SInvariant, PTL DEF Spec
<1>4. Spec => Shipping!ImplementsLedger
  BY <1>3, PTL DEF Shipping!ImplementsLedger, Shipping!Ledger!Spec, made, records
<1>5. /\ SInv /\ SP!SoleHandler => Shipping!SoleHandler
      /\ SInv /\ SP!DueIsHandled => Shipping!DueIsHandled
      /\ SInv /\ SP!DuplicatesNeedFaults => Shipping!DuplicatesNeedFaults
  BY ShipmentsSeen
<1> QED BY <1>4, <1>5, PartsRun, ShippingCorrect, PTL

----------------------------------------------------------------------------
(* From the request to the shipment *)

(* Behind every shipment is a request that was answered 201 for that order, and
   the shipment was asked for under the key of that request. *)
ShippedWasCreated ==
    \A s \in shipments :
        \E r \in Requests : /\ create[r] = "201"
                            /\ requestOrder[r] = s.order
                            /\ requestKey[r] = s.key

(* And what an order records is such a shipment, made for it under its own key. *)
RecordedWasMade ==
    \A o \in OrderIds :
        Shipping!Shipped(o) => \E s \in shipments : /\ s.id = orders[o].shipment
                                                   /\ s.order = o
                                                   /\ s.key = orders[o].requestId

(* No one part shows this: that a shipped order was announced is the drains'
   doing, that an announced order was answered 201 and under which key is
   creation's, and that the document still has that key and that shipment takes
   all three. *)
THEOREM ShipmentsWereCreated == Spec => []ShippedWasCreated /\ []RecordedWasMade
<1>1. ASSUME orders \in Collection, CP!IInv, CP!AnnouncedIffCreated, SP!IInv,
             SP!ShippedWasAnnounced
      PROVE  ShippedWasCreated
  <2> SUFFICES ASSUME NEW s \in shipments
               PROVE  \E r \in Requests : /\ create[r] = "201"
                                          /\ requestOrder[r] = s.order
                                          /\ requestKey[r] = s.key
    BY DEF ShippedWasCreated
  <2>1. /\ s.order \in OrderIds
        /\ SP!Stored(s.order) /\ ShippingSees[s.order].requestId = s.key
    BY <1>1 DEF SP!IInv, SP!EventInv, SP!TypeOK, SP!ShipmentRecord, SP!DeliveryInv,
                SP!MadeForOrders
  <2>2. s.order \in CP!ToSet(announced)
    BY <1>1 DEF SP!ShippedWasAnnounced, SP!ToSet, CP!ToSet
  <2>3. PICK r \in Requests : create[r] = "201" /\ requestOrder[r] = s.order
    BY <1>1, <2>1, <2>2 DEF CP!AnnouncedIffCreated
  <2>4. CreationSees[s.order].requestId = requestKey[r]
    BY <1>1, <2>3 DEF CP!IInv, CP!RequestsAgree, CP!Agrees
  <2>5. Stored(s.order)
    BY <1>1, <2>1, SeenCollections
  <2>6. /\ CreationSees[s.order].requestId = orders[s.order].requestId
        /\ ShippingSees[s.order].requestId = orders[s.order].requestId
    BY <1>1, <2>1, <2>5, SeenDocuments, SeenStored
  <2> QED BY <2>1, <2>3, <2>4, <2>6
<1>2. ASSUME orders \in Collection, SP!IInv PROVE RecordedWasMade
  <2> SUFFICES ASSUME NEW o \in OrderIds, Shipping!Shipped(o)
               PROVE  \E s \in shipments : /\ s.id = orders[o].shipment
                                           /\ s.order = o
                                           /\ s.key = orders[o].requestId
    BY DEF RecordedWasMade
  <2>1. SP!Shipped(o) /\ SP!Stored(o) /\ Stored(o)
    BY <1>2, OrderSeen DEF Shipping!Shipped, Shipping!Stored, Stored
  <2>2. /\ ShippingSees[o].shipment = orders[o].shipment
        /\ ShippingSees[o].requestId = orders[o].requestId
    BY <1>2, <2>1, SeenDocuments, SeenStored
  <2>3. PICK s \in shipments : s.id = ShippingSees[o].shipment /\ s.order = o
    BY <1>2, <2>1 DEF SP!IInv, SP!DeliveryInv, SP!IdsMadeFor, SP!MadeFor
  <2>4. s.key = ShippingSees[o].requestId
    BY <1>2, <2>3 DEF SP!IInv, SP!DeliveryInv, SP!MadeForOrders
  <2> QED BY <2>2, <2>3, <2>4
<1>3. SInv => orders \in Collection /\ CP!IInv
  BY DEF SInv
<1> QED BY <1>1, <1>2, <1>3, PartsRun, CreationCorrect, ShippingCorrect, PTL

(* The order has its shipment, or its event is in the queue or in a drain's
   hands, unless a restart or the debug route discarded the event. *)
HandledOrDiscarded(o) ==
    Shipping!Shipped(o) \/ o \in ToSet(createdQueue) \/ o \in Shipping!InHand \/ o \notin due

(* Where a stored order can be: with the request that is about to publish it, with
   a client that got a 500 or no answer for its key, or with a client that was
   told 201 and the drains. *)
AccountedFor ==
    \A o \in OrderIds :
        Stored(o) =>
            \E r \in Requests :
                \/ create[r] = "publish" /\ requestOrder[r] = o
                \/ create[r] \in {"500", "dropped"} /\ requestKey[r] = orders[o].requestId
                \/ create[r] = "201" /\ requestOrder[r] = o /\ HandledOrDiscarded(o)

(* No step of the service, and no fault of any part, loses an order without a
   trace: the only ways out of the pipeline are a failed request of the order's
   own key and a discarded event. *)
THEOREM OrdersAreAccountedFor == Spec => []AccountedFor
<1>1. ASSUME SInv, CP!StrandedIsUnanswered, CP!AnnouncedIffCreated, Shipping!DueIsHandled
      PROVE  AccountedFor
  <2> SUFFICES ASSUME NEW o \in OrderIds, Stored(o)
               PROVE  \E r \in Requests :
                         \/ create[r] = "publish" /\ requestOrder[r] = o
                         \/ /\ create[r] \in {"500", "dropped"}
                            /\ requestKey[r] = orders[o].requestId
                         \/ /\ create[r] = "201" /\ requestOrder[r] = o
                            /\ HandledOrDiscarded(o)
    BY DEF AccountedFor
  <2>1. CP!Stored(o) /\ CreationSees[o].requestId = orders[o].requestId
    BY <1>1, SeenCollections, SeenDocuments, SeenStored DEF SInv
  <2>2. CASE o \in CP!ToSet(announced)
    <3>1. PICK r \in Requests : create[r] = "201" /\ requestOrder[r] = o
      BY <1>1, <2>2 DEF CP!AnnouncedIffCreated
    <3>2. HandledOrDiscarded(o)
      BY <1>1 DEF Shipping!DueIsHandled, HandledOrDiscarded, Shipping!ToSet, ToSet
    <3> QED BY <3>1, <3>2
  <2>3. CASE o \notin CP!ToSet(announced)
    BY <1>1, <2>1, <2>3 DEF CP!StrandedIsUnanswered, CP!Failed
  <2> QED BY <2>2, <2>3
<1> QED BY <1>1, PartsRun, CreationCorrect, ShipmentsInService, PTL
=============================================================================
