---------------------------- MODULE SalesService ----------------------------
(***************************************************************************)
(* The whole service: order creation, shipment scheduling and status        *)
(* updates as they run on one orders collection and in one process.  A       *)
(* creation publishes to the queue the shipment drains take from; shipment    *)
(* and status updates write the same documents without knowing of each        *)
(* other; a restart takes all of them down at once.                           *)
(*                                                                           *)
(* Each part was modelled with the others as an environment: StatusUpdates    *)
(* and Shipment let orders appear, Shipment lets each be announced once,      *)
(* nobody else touches a document.  The refinements below show that in the    *)
(* whole service these environments are all there is.                         *)
(***************************************************************************)
EXTENDS OrderRepository, SequencesExt

CONSTANTS
    Requests, Payloads, None,                           \* of OrderCreation
    Callbacks, Drains, NoMessage,                       \* of StatusUpdates
    Workers, NoOrder, Undeliverable, MaxRetries,        \* of Shipment
    MaxFaults                                           \* bound on the faults of each part

VARIABLES
    create, requestKey, requestBody, requestOrder, announced, strayInserts,
    createFaults,                                       \* of OrderCreation
    statusQueue, callback, callbackMsg, drainPc, drainMsg, drainVersion,
    strayWrites, accepted, updateFaults,                \* of StatusUpdates
    createdQueue, workerPc, workerOrder, attempt, workerShipment, shipments,
    keepsContract, strayPosts, strayMetadata, due,
    shipmentFaults                                      \* of Shipment

creationVars == <<create, requestKey, requestBody, requestOrder, strayInserts,
                  createFaults>>
updateVars == <<statusQueue, callback, callbackMsg, drainPc, drainMsg,
                drainVersion, strayWrites, accepted, updateFaults>>
shipmentVars == <<createdQueue, workerPc, workerOrder, attempt, workerShipment,
                  shipments, keepsContract, strayPosts, strayMetadata, due,
                  shipmentFaults>>
vars == <<orders, announced, creationVars, updateVars, shipmentVars>>

Creation == INSTANCE OrderCreation WITH faults <- createFaults
Updates  == INSTANCE StatusUpdates WITH faults <- updateFaults
Shipping == INSTANCE Shipment      WITH faults <- shipmentFaults

(* The parts' assumptions about their constants. *)
ASSUME PayloadsAssumption ==
    \A p \in Payloads :
        /\ p = [content |-> p.content, quantities |-> p.quantities,
                fieldOrder |-> p.fieldOrder]
        /\ p.quantities \in Seq(Nat)
        /\ Creation!HashPayload(p) \in PayloadHashes

ASSUME AbsenceAssumption ==
    /\ None \notin RequestIds /\ None \notin Payloads /\ None \notin OrderIds
    /\ NoMessage \notin Updates!Message
    /\ NoOrder \notin OrderIds
    /\ NoShipment \notin ShipmentIds

ASSUME BoundsAssumption == MaxFaults \in Nat /\ MaxRetries \in Nat

ASSUME ActorsAssumption == IsFiniteSet(Callbacks) /\ IsFiniteSet(Drains)

Init == Creation!Init /\ Updates!Init /\ Shipping!Init

----------------------------------------------------------------------------
(* The parts *)

CreationStep ==
    /\ \/ \E r \in Requests :
             \/ Creation!RefuseCreate(r)
             \/ \E key \in RequestIds, p \in Payloads : Creation!LookupKey(r, key, p)
             \/ Creation!InsertOrder(r)
             \/ Creation!CreateFault(r)
       \/ \E w \in strayInserts :
             Creation!StrayInsertLands(w) \/ Creation!StrayInsertIsLost(w)
    /\ UNCHANGED <<updateVars, shipmentVars>>

(* The publish of a request is what puts an event into the shipment queue. *)
PublishOrder(r) ==
    /\ Creation!PublishOrder(r)
    /\ Shipping!EnqueueCreated(requestOrder[r])
    /\ UNCHANGED <<updateVars, workerPc, workerOrder, attempt, workerShipment,
                   shipments, keepsContract, strayPosts, strayMetadata,
                   shipmentFaults>>

UpdateStep ==
    /\ \/ \E c \in Callbacks : Updates!CallbackStep(c)
       \/ \E d \in Drains : Updates!DrainStep(d) \/ Updates!DrainFault(d)
       \/ \E w \in strayWrites :
             Updates!StrayWriteLands(w) \/ Updates!StrayWriteIsLost(w)
       \/ Updates!ClearStatusQueue
    /\ UNCHANGED <<announced, creationVars, shipmentVars>>

ShipmentStep ==
    /\ \/ \E w \in Workers :
             Shipping!WorkerStep(w) \/ Shipping!PostFault(w) \/ Shipping!WorkerFault(w)
       \/ \E p \in strayPosts :
             Shipping!StrayPostLands(p) \/ Shipping!StrayPostIsLost(p)
       \/ \E m \in strayMetadata :
             Shipping!StrayMetadataLands(m) \/ Shipping!StrayMetadataIsLost(m)
       \/ Shipping!ClearCreatedQueue
    /\ UNCHANGED <<creationVars, updateVars>>

(* One process: requests, queues and drains go down together. *)
Restart == Creation!Restart /\ Updates!Restart /\ Shipping!Restart

Next ==
    \/ CreationStep
    \/ \E r \in Requests : PublishOrder(r)
    \/ UpdateStep
    \/ ShipmentStep
    \/ Restart

Spec == Init /\ [][Next]_vars

(* The fairness of the parts, for the reasons given there. *)
Fairness ==
    /\ \A r \in Requests :
          WF_vars(\/ Creation!InsertOrder(r) /\ UNCHANGED <<updateVars, shipmentVars>>
                  \/ PublishOrder(r))
    /\ \A d \in Drains :
          WF_vars(Updates!DrainStep(d) /\ UNCHANGED <<announced, creationVars, shipmentVars>>)
    /\ \A w \in Workers :
          WF_vars(Shipping!WorkerStep(w) /\ UNCHANGED <<creationVars, updateVars>>)

FairSpec == Spec /\ Fairness

----------------------------------------------------------------------------
(* Properties *)

(* What each part sees of the documents: creation knows it as it was inserted, the
   status updates do not know the shipment, nor the shipment the updates. *)
AsCreated(o) ==
    IF Stored(o) THEN NewOrder(orders[o].requestId, orders[o].payloadHash)
    ELSE NoDocument

WithoutShipment(o) ==
    IF Stored(o) THEN [orders[o] EXCEPT !.shipment = NoShipment] ELSE NoDocument

WithoutUpdates(o) ==
    IF Stored(o) THEN [AsCreated(o) EXCEPT !.shipment = orders[o].shipment]
    ELSE NoDocument

CreationSees == [o \in OrderIds |-> AsCreated(o)]
UpdatesSee   == [o \in OrderIds |-> WithoutShipment(o)]
ShippingSees == [o \in OrderIds |-> WithoutUpdates(o)]

CreationView == INSTANCE OrderCreation WITH orders <- CreationSees, faults <- createFaults
UpdatesView  == INSTANCE StatusUpdates WITH orders <- UpdatesSee, faults <- updateFaults
ShippingView == INSTANCE Shipment WITH orders <- ShippingSees, faults <- shipmentFaults

(* To order creation, shipments and status updates are invisible: they change
   no key and no hash, drop no order and announce none. *)
ImplementsCreation == CreationView!Spec

(* To the status updates, the metadata write, which checks no version, is
   invisible: it never undoes a status written between its lookup and itself. *)
ImplementsUpdates == UpdatesView!Spec

(* To shipment, creation is orders that appear and are announced once, and a
   status update, even one that comes before the metadata, is invisible. *)
ImplementsShipment == ShippingView!Spec

(* From the 201 to the shipment: a created order is shipped in the end unless
   Delivery refuses it or a restart or the debug route discards its event. *)
CreatedIsShipped ==
    \A r \in Requests, o \in OrderIds \ Undeliverable :
        create[r] = "201" /\ requestOrder[r] = o
            ~> Shipping!Shipped(o) \/ o \notin due
============================================================================
