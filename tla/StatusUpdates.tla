--------------------------- MODULE StatusUpdates ---------------------------
(***************************************************************************)
(* Delivery status callbacks from the HTTP request to the stored history:   *)
(* the POST /orders/:orderId/status handler, the in-memory status queue,    *)
(* and the drains that take messages from it (iterations of the polling     *)
(* timer and runs of POST /queues/order-status/process, which overlap).     *)
(*                                                                          *)
(* A step is what runs between two awaits: a MongoDB command takes effect   *)
(* in the step that issues it, and the code after its await is the next     *)
(* step of the same request or drain, so everything else can come between.  *)
(***************************************************************************)
EXTENDS OrderRepository, SequencesExt

CONSTANTS
    Callbacks,      \* status requests Delivery makes (retries are requests of their own)
    Drains,         \* queue drains that can be under way at once
    NoMessage,      \* a request or drain that holds no message
    MaxFaults       \* bound on restarts and failed MongoDB commands

VARIABLES
    statusQueue,    \* the messages of the status queue, oldest first
    callback,       \* progress of each request, or its reply
    callbackMsg,    \* the message of a validated or accepted request
    drainPc,        \* what each drain does next
    drainMsg,       \* the message it has dequeued
    drainVersion,   \* the version prepareStatusUpdate read, while appending
    strayWrites,    \* appends whose issuer no longer waits for the answer
    accepted,       \* history: events answered 202 and not discarded since
    faults          \* faults so far

updateVars == <<statusQueue, callback, callbackMsg, drainPc, drainMsg,
                drainVersion, strayWrites, accepted, faults>>
vars == <<orders, updateVars>>

----------------------------------------------------------------------------
(* Messages and the lifecycle rule *)

(* statusUpdateBodySchema admits these two statuses only. *)
CallbackStatus == {"SHIPPED", "DELIVERED"}

Message == [orderId : OrderIds, eventId : EventIds, status : CallbackStatus]

ASSUME NoMessageAssumption == NoMessage \notin Message
ASSUME MaxFaultsAssumption == MaxFaults \in Nat
ASSUME ActorsAssumption == IsFiniteSet(Callbacks) /\ IsFiniteSet(Drains)

EventOf(m) == [eventId |-> m.eventId, status |-> m.status]

(* Faulty variant: a shipment may be reported delivered straight away. *)
AllowedTransitionsWithSkip ==
    [PENDING_SHIPMENT |-> {"SHIPPED", "DELIVERED"},
     SHIPPED |-> {"DELIVERED"},
     DELIVERED |-> {}]

AllowedTransitions ==
    [PENDING_SHIPMENT |-> {"SHIPPED"},
     SHIPPED |-> {"DELIVERED"},
     DELIVERED |-> {}]

CanTransition(current, next) ==
    /\ current # next
    /\ next \in AllowedTransitions[current]

(* What prepareStatusUpdate makes of a message, from the order it reads.  The
   route validates with it and the worker applies with it. *)
Prepared(m) ==
    LET order == orders[m.orderId]
    IN  CASE ~Stored(m.orderId)          -> "not_found"
          [] Stored(m.orderId) /\ HasEvent(order, m.eventId) -> "duplicate"
          [] Stored(m.orderId) /\ ~HasEvent(order, m.eventId)
               /\ ~CanTransition(order.status, m.status)     -> "conflict"
          [] OTHER                       -> "apply"

----------------------------------------------------------------------------
(* States *)

Waiting  == {"new", "validated"}
Replies  == {"200", "202", "400", "404", "409", "429", "500", "dropped"}

Write == [msg : Message, version : Nat]

TypeOK ==
    /\ orders \in Collection
    /\ statusQueue \in Seq(Message)
    /\ callback \in [Callbacks -> Waiting \cup Replies]
    /\ callbackMsg \in [Callbacks -> Message \cup {NoMessage}]
    /\ \A c \in Callbacks :
          callback[c] \in {"validated", "202"} <=> callbackMsg[c] # NoMessage
    /\ drainPc \in [Drains -> {"idle", "prepare", "append", "recheck", "requeue"}]
    /\ drainMsg \in [Drains -> Message \cup {NoMessage}]
    /\ \A d \in Drains : drainPc[d] = "idle" <=> drainMsg[d] = NoMessage
    /\ drainVersion \in [Drains -> Nat]
    /\ strayWrites \in SUBSET Write
    /\ accepted \in SUBSET Message
    /\ faults \in 0..MaxFaults

Init ==
    /\ orders = [o \in OrderIds |-> NoDocument]
    /\ statusQueue = << >>
    /\ callback = [c \in Callbacks |-> "new"]
    /\ callbackMsg = [c \in Callbacks |-> NoMessage]
    /\ drainPc = [d \in Drains |-> "idle"]
    /\ drainMsg = [d \in Drains |-> NoMessage]
    /\ drainVersion = [d \in Drains |-> 0]
    /\ strayWrites = {}
    /\ accepted = {}
    /\ faults = 0

----------------------------------------------------------------------------
(* Orders come into being (module OrderCreation has the whole request) *)

CreateOrder(o, key, hash) ==
    /\ UniqueIndexesAccept(o, NewOrder(key, hash))
    /\ InsertOne(o, NewOrder(key, hash))
    /\ UNCHANGED updateVars

----------------------------------------------------------------------------
(* The status route *)

QueueUnchanged == UNCHANGED <<statusQueue, accepted>>
DrainsUnchanged == UNCHANGED <<drainPc, drainMsg, drainVersion, strayWrites>>
CallbacksUnchanged == UNCHANGED <<callback, callbackMsg>>

(* Refused by the rate limiter, the schema, the missing key or the unparsable
   timestamp, or the read of the order fails: no state is touched. *)
RefuseCallback(c) ==
    /\ callback[c] = "new"
    /\ \E reply \in {"400", "429", "500"} :
          callback' = [callback EXCEPT ![c] = reply]
    /\ UNCHANGED <<orders, callbackMsg, faults>>
    /\ QueueUnchanged /\ DrainsUnchanged

(* Faulty variant: the message is queued before the answer of the read is known. *)
ValidateAndQueueCallback(c, m) ==
    /\ callback[c] = "new"
    /\ callback' = [callback EXCEPT ![c] = "validated"]
    /\ callbackMsg' = [callbackMsg EXCEPT ![c] = m]
    /\ statusQueue' = Append(statusQueue, m)
    /\ UNCHANGED <<orders, faults, accepted>>
    /\ DrainsUnchanged

(* validateStatusUpdate reads the order; its outcome decides the reply. *)
ValidateCallback(c, m) ==
    /\ callback[c] = "new"
    /\ callback' = [callback EXCEPT ![c] =
            CASE Prepared(m) = "not_found" -> "404"
              [] Prepared(m) = "duplicate" -> "200"
              [] Prepared(m) = "conflict"  -> "409"
              [] Prepared(m) = "apply"     -> "validated"]
    /\ callbackMsg' =
            [callbackMsg EXCEPT ![c] = IF Prepared(m) = "apply" THEN m ELSE @]
    /\ UNCHANGED <<orders, faults>>
    /\ QueueUnchanged /\ DrainsUnchanged

(* enqueueStatusUpdate and the 202, whatever happened since the read. *)
EnqueueCallback(c) ==
    /\ callback[c] = "validated"
    /\ callback' = [callback EXCEPT ![c] = "202"]
    /\ statusQueue' = Append(statusQueue, callbackMsg[c])
    /\ accepted' = accepted \cup {callbackMsg[c]}
    /\ UNCHANGED <<orders, callbackMsg, faults>>
    /\ DrainsUnchanged

----------------------------------------------------------------------------
(* The queue drains *)

(* Faulty variant: the message is read but stays in the queue. *)
PeekMessage(d) ==
    /\ drainPc[d] = "idle"
    /\ statusQueue # << >>
    /\ drainPc' = [drainPc EXCEPT ![d] = "prepare"]
    /\ drainMsg' = [drainMsg EXCEPT ![d] = Head(statusQueue)]
    /\ UNCHANGED <<orders, statusQueue, drainVersion, strayWrites, accepted, faults>>
    /\ CallbacksUnchanged

(* consumeOne takes the oldest message and hands it to applyStatusUpdate. *)
Dequeue(d) ==
    /\ drainPc[d] = "idle"
    /\ statusQueue # << >>
    /\ statusQueue' = Tail(statusQueue)
    /\ drainPc' = [drainPc EXCEPT ![d] = "prepare"]
    /\ drainMsg' = [drainMsg EXCEPT ![d] = Head(statusQueue)]
    /\ UNCHANGED <<orders, drainVersion, strayWrites, accepted, faults>>
    /\ CallbacksUnchanged

(* The handler returned: consumeOne returns the message and the loop goes on. *)
Finish(d) ==
    /\ drainPc' = [drainPc EXCEPT ![d] = "idle"]
    /\ drainMsg' = [drainMsg EXCEPT ![d] = NoMessage]
    /\ drainVersion' = [drainVersion EXCEPT ![d] = 0]

(* The handler threw: consumeOne is about to put the message back. *)
Fail(d) ==
    /\ drainPc' = [drainPc EXCEPT ![d] = "requeue"]
    /\ drainVersion' = [drainVersion EXCEPT ![d] = 0]
    /\ UNCHANGED drainMsg

(* prepareStatusUpdate on the worker's side: the order is read again. *)
Prepare(d) ==
    /\ drainPc[d] = "prepare"
    /\ \/ /\ Prepared(drainMsg[d]) = "apply"
          /\ drainPc' = [drainPc EXCEPT ![d] = "append"]
          /\ drainVersion' = [drainVersion EXCEPT
                                 ![d] = orders[drainMsg[d].orderId].version]
          /\ UNCHANGED drainMsg
       \/ Prepared(drainMsg[d]) = "duplicate" /\ Finish(d)
       \/ Prepared(drainMsg[d]) \in {"not_found", "conflict"} /\ Fail(d)
    /\ UNCHANGED <<orders, strayWrites, faults>>
    /\ QueueUnchanged /\ CallbacksUnchanged

(* appendStatusEvent with the version Prepare read. *)
AppendEvent(d) ==
    LET m == drainMsg[d]
    IN  /\ drainPc[d] = "append"
        /\ \/ /\ AppendFilterMatches(m.orderId, EventOf(m), drainVersion[d])
              /\ AppendStatusEvent(m.orderId, EventOf(m))
              /\ Finish(d)
           \/ /\ ~AppendFilterMatches(m.orderId, EventOf(m), drainVersion[d])
              /\ drainPc' = [drainPc EXCEPT ![d] = "recheck"]
              /\ drainVersion' = [drainVersion EXCEPT ![d] = 0]
              /\ UNCHANGED <<orders, drainMsg>>
        /\ UNCHANGED <<strayWrites, faults>>
        /\ QueueUnchanged /\ CallbacksUnchanged

(* The lost race: success when the same event is there by now, else an error. *)
Recheck(d) ==
    LET m == drainMsg[d]
    IN  /\ drainPc[d] = "recheck"
        /\ \/ Stored(m.orderId) /\ HasEvent(orders[m.orderId], m.eventId) /\ Finish(d)
           \/ ~(Stored(m.orderId) /\ HasEvent(orders[m.orderId], m.eventId)) /\ Fail(d)
        /\ UNCHANGED <<orders, strayWrites, faults>>
        /\ QueueUnchanged /\ CallbacksUnchanged

(* Faulty variant: the failed message is dropped. *)
DropFailed(d) ==
    /\ drainPc[d] = "requeue"
    /\ Finish(d)
    /\ UNCHANGED <<orders, statusQueue, strayWrites, accepted, faults>>
    /\ CallbacksUnchanged

(* Faulty variant: the failed message goes back to the front. *)
RequeueFirst(d) ==
    /\ drainPc[d] = "requeue"
    /\ statusQueue' = <<drainMsg[d]>> \o statusQueue
    /\ Finish(d)
    /\ UNCHANGED <<orders, strayWrites, accepted, faults>>
    /\ CallbacksUnchanged

(* Faulty variant: the message variable is cleared before it is put back. *)
RequeueCleared(d) ==
    /\ drainPc[d] = "requeue"
    /\ statusQueue' = Append(statusQueue, NoMessage)
    /\ Finish(d)
    /\ UNCHANGED <<orders, strayWrites, accepted, faults>>
    /\ CallbacksUnchanged

(* consumeOne's catch: the message goes to the back, this drain ends; the
   timer starts the next one. *)
Requeue(d) ==
    /\ drainPc[d] = "requeue"
    /\ statusQueue' = Append(statusQueue, drainMsg[d])
    /\ Finish(d)
    /\ UNCHANGED <<orders, strayWrites, accepted, faults>>
    /\ CallbacksUnchanged

----------------------------------------------------------------------------
(* Faults and operations from outside *)

CountFault ==
    /\ faults < MaxFaults
    /\ faults' = faults + 1

WriteOf(d) == [msg |-> drainMsg[d], version |-> drainVersion[d]]

(* A MongoDB command of the drain fails.  A failed read has no effect; a
   failed append may still be applied later. *)
DrainFault(d) ==
    /\ CountFault
    /\ drainPc[d] \in {"prepare", "append", "recheck"}
    /\ strayWrites' = IF drainPc[d] = "append" THEN strayWrites \cup {WriteOf(d)}
                                               ELSE strayWrites
    /\ Fail(d)
    /\ UNCHANGED orders
    /\ QueueUnchanged /\ CallbacksUnchanged

(* The process dies and a new one starts: queue, requests and drains are gone,
   an append already sent is not. *)
Restart ==
    /\ CountFault
    /\ statusQueue' = << >>
    /\ accepted' = {}
    /\ callback' = [c \in Callbacks |->
                      IF callback[c] = "validated" THEN "dropped" ELSE callback[c]]
    /\ callbackMsg' = [c \in Callbacks |->
                      IF callback[c] = "validated" THEN NoMessage ELSE callbackMsg[c]]
    /\ strayWrites' = strayWrites \cup
                      {WriteOf(d) : d \in {e \in Drains : drainPc[e] = "append"}}
    /\ drainPc' = [d \in Drains |-> "idle"]
    /\ drainMsg' = [d \in Drains |-> NoMessage]
    /\ drainVersion' = [d \in Drains |-> 0]
    /\ UNCHANGED orders

(* A stray append reaches MongoDB after all, or never. *)
StrayWriteLands(w) ==
    /\ strayWrites' = strayWrites \ {w}
    /\ \/ /\ AppendFilterMatches(w.msg.orderId, EventOf(w.msg), w.version)
          /\ AppendStatusEvent(w.msg.orderId, EventOf(w.msg))
       \/ /\ ~AppendFilterMatches(w.msg.orderId, EventOf(w.msg), w.version)
          /\ UNCHANGED orders
    /\ UNCHANGED <<drainPc, drainMsg, drainVersion, faults>>
    /\ QueueUnchanged /\ CallbacksUnchanged

StrayWriteIsLost(w) ==
    /\ strayWrites' = strayWrites \ {w}
    /\ UNCHANGED <<orders, drainPc, drainMsg, drainVersion, faults>>
    /\ QueueUnchanged /\ CallbacksUnchanged

(* DELETE /queues/order-status. *)
ClearStatusQueue ==
    /\ statusQueue # << >>
    /\ statusQueue' = << >>
    /\ accepted' = accepted \ ToSet(statusQueue)
    /\ UNCHANGED <<orders, faults>>
    /\ CallbacksUnchanged /\ DrainsUnchanged

----------------------------------------------------------------------------
(* The specification *)

CallbackStep(c) ==
    \/ RefuseCallback(c)
    \/ \E m \in Message : ValidateCallback(c, m)
    \/ EnqueueCallback(c)

DrainStep(d) ==
    Dequeue(d) \/ Prepare(d) \/ AppendEvent(d) \/ Recheck(d) \/ Requeue(d)

Next ==
    \/ \E o \in OrderIds, key \in RequestIds, hash \in PayloadHashes :
          CreateOrder(o, key, hash)
    \/ \E c \in Callbacks : CallbackStep(c)
    \/ \E d \in Drains : DrainStep(d) \/ DrainFault(d)
    \/ \E w \in strayWrites : StrayWriteLands(w) \/ StrayWriteIsLost(w)
    \/ Restart
    \/ ClearStatusQueue

Spec == Init /\ [][Next]_vars

(* The poll timer keeps firing and MongoDB answers, so a drain that has
   something to do goes on; nothing is assumed about requests or faults. *)
Fairness == \A d \in Drains : WF_vars(DrainStep(d))

FairSpec == Spec /\ Fairness

----------------------------------------------------------------------------
(* Properties *)

(* How far along the lifecycle a status is. *)
Rank(status) ==
    CASE status = "PENDING_SHIPMENT" -> 1
      [] status = "SHIPPED"          -> 2
      [] status = "DELIVERED"        -> 3

(* However drains, retries and stray writes interleave, a stored order's
   history is the lifecycle up to its current status, and its version counts
   the entries: optimistic locking loses and doubles nothing. *)
LifecycleHistory ==
    \A o \in OrderIds : Stored(o) =>
        LET doc == orders[o]
        IN  /\ Len(doc.statusHistory) \in 1..3
            /\ doc.version = Len(doc.statusHistory)
            /\ Rank(doc.status) = Len(doc.statusHistory)
            /\ \A i \in 1..Len(doc.statusHistory) :
                  Rank(doc.statusHistory[i].status) = i

(* No event id is recorded twice for an order, however often Delivery sends it
   and whichever status it carries the second time. *)
EventsAppliedOnce ==
    \A o \in OrderIds : Stored(o) =>
        \A i, j \in 1..Len(orders[o].statusHistory) :
            orders[o].statusHistory[i].eventId = orders[o].statusHistory[j].eventId
                => i = j

InFlight == {drainMsg[d] : d \in {e \in Drains : drainPc[e] # "idle"}}

(* The order is in the status the message reports, or past it. *)
Reached(m) == Rank(m.status) <= Rank(orders[m.orderId].status)

(* A message validated, queued or taken for a status its order has yet to reach
   can be applied as it is: it is the next status, and its event id is new.  So
   a message the worker refuses is late, never early: waiting for another
   message can not make it applicable, and none is dropped as a duplicate
   before its status is reached. *)
NotAhead(m) ==
    /\ Stored(m.orderId)
    /\ Reached(m) \/ Prepared(m) = "apply"

NeverAhead ==
    /\ \A m \in ToSet(statusQueue) : NotAhead(m)
    /\ \A d \in Drains : drainPc[d] # "idle" => NotAhead(drainMsg[d])
    /\ \A c \in Callbacks : callback[c] = "validated" => NotAhead(callbackMsg[c])

(* An append made from a snapshot, in hand or stray, never names a version the
   order has yet to reach, and as long as that version is current its
   transition is still legal: the version alone tells a stale write. *)
Guarded(m, version) ==
    /\ Stored(m.orderId)
    /\ version <= orders[m.orderId].version
    /\ version = orders[m.orderId].version
          => CanTransition(orders[m.orderId].status, m.status)

WritesGuarded ==
    /\ \A d \in Drains : drainPc[d] = "append" => Guarded(drainMsg[d], drainVersion[d])
    /\ \A w \in strayWrites : Guarded(w.msg, w.version)

(* An event answered 202 is in the queue, in the hands of a drain, or in the
   history of its order with its status reached (maybe through another event of
   that id), until a restart or the debug route discards it. *)
AcceptedSurvives ==
    \A m \in accepted :
        \/ m \in ToSet(statusQueue)
        \/ m \in InFlight
        \/ /\ Stored(m.orderId) /\ HasEvent(orders[m.orderId], m.eventId)
           /\ Reached(m)

(* Overlapping drains never share a message: there are at most as many copies
   of it, queued and in hand, as requests with that content were accepted. *)
NoMessageForged ==
    \A m \in ToSet(statusQueue) \cup InFlight :
        Cardinality({i \in 1..Len(statusQueue) : statusQueue[i] = m})
          + Cardinality({d \in Drains : drainMsg[d] = m})
        <= Cardinality({c \in Callbacks : callback[c] = "202" /\ callbackMsg[c] = m})

(* Whatever a history records after creation was accepted from Delivery, for
   that order and with that status. *)
AppliedWasAccepted ==
    \A o \in OrderIds : Stored(o) =>
        \A i \in 2..Len(orders[o].statusHistory) :
            \E c \in Callbacks :
                /\ callback[c] = "202"
                /\ callbackMsg[c].orderId = o
                /\ EventOf(callbackMsg[c]) = orders[o].statusHistory[i]

(* The stored histories are those of the abstract lifecycle: every step of the
   queue, its drains and its faults creates an order, advances one by one
   status, or leaves the histories alone. *)
Statuses(o) ==
    IF Stored(o)
    THEN [i \in 1..Len(orders[o].statusHistory) |-> orders[o].statusHistory[i].status]
    ELSE << >>

Abstract == INSTANCE OrderLifecycle WITH history <- [o \in OrderIds |-> Statuses(o)]

ImplementsLifecycle == Abstract!Spec

(* An accepted status is eventually reached by its order (through that event or
   another one), unless a restart or the debug route discards it: messages
   that can never be applied do not hold up the others. *)
AcceptedStatusReached ==
    \A m \in Message :
        m \in accepted ~> \/ m \notin accepted
                          \/ Reached(m)

(* What the README says of a 202: draining the queue persists the change, so
   an accepted event ends up in the history unless it is discarded. *)
AcceptedEventuallyApplied ==
    \A m \in Message :
        m \in accepted ~> \/ m \notin accepted
                          \/ Stored(m.orderId) /\ HasEvent(orders[m.orderId], m.eventId)
============================================================================
