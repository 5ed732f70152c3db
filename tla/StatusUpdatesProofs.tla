------------------------ MODULE StatusUpdatesProofs ------------------------
(***************************************************************************)
(* Theorems about StatusUpdates for every set of orders, keys, events,      *)
(* callbacks and drains, and any number of faults.                          *)
(***************************************************************************)
EXTENDS StatusUpdates, OrderRepositoryProofs, SequenceTheorems, TLAPS

----------------------------------------------------------------------------
(* Type correctness *)

(* Every event a message carries fits into a history. *)
LEMMA MessageEvent ==
    ASSUME NEW m \in Message
    PROVE  /\ EventOf(m) \in StatusEvent
           /\ EventOf(m).eventId = m.eventId
           /\ EventOf(m).status = m.status
           /\ m.orderId \in OrderIds
           /\ m.status \in CallbackStatus
BY DEF EventOf, Message, CallbackStatus, StatusEvent, OrderStatus

(* An append that its filter lets through keeps the collection well-formed. *)
LEMMA AppendTyped ==
    ASSUME orders \in Collection, NEW m \in Message, NEW v,
           AppendFilterMatches(m.orderId, EventOf(m), v),
           AppendStatusEvent(m.orderId, EventOf(m))
    PROVE  orders' \in Collection
BY MessageEvent, AppendedDocument DEF AppendFilterMatches

(* A created order keeps the collection well-formed. *)
LEMMA InsertTyped ==
    ASSUME orders \in Collection, NEW o \in OrderIds, NEW key \in RequestIds,
           NEW hash \in PayloadHashes, InsertOne(o, NewOrder(key, hash))
    PROVE  orders' \in Collection
<1>1. NewOrder(key, hash) \in OrderDocument
  BY NewDocument, CreatedEventIdAssumption
<1> HIDE DEF NewOrder
<1> QED BY <1>1 DEF InsertOne, Collection

(* A drain that is not idle holds a message. *)
LEMMA HeldMessage ==
    ASSUME TypeOK, NEW d \in Drains, drainPc[d] # "idle"
    PROVE  drainMsg[d] \in Message
BY DEF TypeOK

LEMMA TypeInit == Init => TypeOK
BY MaxFaultsAssumption DEF Init, TypeOK, Collection, Waiting, Replies, Write

LEMMA TypeNext == TypeOK /\ [Next]_vars => TypeOK'
<1> SUFFICES ASSUME TypeOK, [Next]_vars PROVE TypeOK'
  OBVIOUS
<1> USE NoMessageAssumption, MaxFaultsAssumption
<1>1. ASSUME NEW o \in OrderIds, NEW key \in RequestIds, NEW hash \in PayloadHashes,
             CreateOrder(o, key, hash)
      PROVE  TypeOK'
  <2>1. orders' \in Collection
    BY <1>1, InsertTyped DEF CreateOrder, TypeOK
  <2> QED BY <1>1, <2>1 DEF CreateOrder, TypeOK, updateVars
<1>2. ASSUME NEW c \in Callbacks, RefuseCallback(c)
      PROVE  TypeOK'
  BY <1>2 DEF RefuseCallback, QueueUnchanged, DrainsUnchanged, TypeOK, Waiting, Replies
<1>3. ASSUME NEW c \in Callbacks, NEW m \in Message, ValidateCallback(c, m)
      PROVE  TypeOK'
  <2>1. Prepared(m) \in {"not_found", "duplicate", "conflict", "apply"}
    BY DEF Prepared
  <2> QED BY <1>3, <2>1
          DEF ValidateCallback, QueueUnchanged, DrainsUnchanged, TypeOK, Waiting, Replies
<1>4. ASSUME NEW c \in Callbacks, EnqueueCallback(c)
      PROVE  TypeOK'
  <2>1. callbackMsg[c] \in Message
    BY <1>4 DEF EnqueueCallback, TypeOK
  <2>2. Append(statusQueue, callbackMsg[c]) \in Seq(Message)
    BY <2>1, AppendHolds DEF TypeOK
  <2> QED BY <1>4, <2>1, <2>2 DEF EnqueueCallback, DrainsUnchanged, TypeOK, Waiting, Replies
<1>5. ASSUME NEW d \in Drains, Dequeue(d)
      PROVE  TypeOK'
  <2>1. Head(statusQueue) \in Message /\ Tail(statusQueue) \in Seq(Message)
    BY <1>5, HeadTailHold DEF Dequeue, TypeOK
  <2> QED BY <1>5, <2>1 DEF Dequeue, CallbacksUnchanged, TypeOK
<1>6. ASSUME NEW d \in Drains, Prepare(d)
      PROVE  TypeOK'
  <2>1. drainMsg[d] \in Message
    BY <1>6, HeldMessage DEF Prepare
  <2>2. Prepared(drainMsg[d]) = "apply" =>
            orders[drainMsg[d].orderId].version \in Nat
    BY <2>1, MessageEvent
       DEF Prepared, TypeOK, Collection, Stored, OrderDocument
  <2>3. CASE Prepared(drainMsg[d]) = "apply" /\ ~Finish(d) /\ ~Fail(d)
    <3>1. /\ drainPc' = [drainPc EXCEPT ![d] = "append"]
          /\ drainVersion' = [drainVersion EXCEPT ![d] = orders[drainMsg[d].orderId].version]
          /\ UNCHANGED drainMsg
      BY <1>6, <2>3 DEF Prepare
    <3>2. UNCHANGED <<orders, statusQueue, accepted, callback, callbackMsg, strayWrites, faults>>
      BY <1>6 DEF Prepare, QueueUnchanged, CallbacksUnchanged
    <3>3. drainPc[d] = "prepare"
      BY <1>6 DEF Prepare
    <3> QED BY <2>2, <2>3, <3>1, <3>2, <3>3 DEF TypeOK
  <2>4. CASE Finish(d)
    BY <1>6, <2>4 DEF Prepare, Finish, QueueUnchanged, CallbacksUnchanged, TypeOK
  <2>5. CASE Fail(d)
    BY <1>6, <2>5 DEF Prepare, Fail, QueueUnchanged, CallbacksUnchanged, TypeOK
  <2> QED BY <1>6, <2>3, <2>4, <2>5 DEF Prepare, TypeOK
<1>7. ASSUME NEW d \in Drains, AppendEvent(d)
      PROVE  TypeOK'
  <2>1. drainMsg[d] \in Message
    BY <1>7, HeldMessage DEF AppendEvent
  <2>2. orders' \in Collection
    BY <1>7, <2>1, AppendTyped DEF AppendEvent, TypeOK
  <2>3. CASE Finish(d)
    BY <1>7, <2>2, <2>3 DEF AppendEvent, Finish, QueueUnchanged, CallbacksUnchanged, TypeOK
  <2>4. CASE /\ drainPc' = [drainPc EXCEPT ![d] = "recheck"]
             /\ drainVersion' = [drainVersion EXCEPT ![d] = 0]
             /\ UNCHANGED drainMsg
    BY <1>7, <2>2, <2>4 DEF AppendEvent, QueueUnchanged, CallbacksUnchanged, TypeOK
  <2> QED BY <1>7, <2>3, <2>4 DEF AppendEvent
<1>8. ASSUME NEW d \in Drains, Recheck(d)
      PROVE  TypeOK'
  <2>1. CASE Finish(d)
    BY <1>8, <2>1 DEF Recheck, Finish, QueueUnchanged, CallbacksUnchanged, TypeOK
  <2>2. CASE Fail(d)
    BY <1>8, <2>2 DEF Recheck, Fail, QueueUnchanged, CallbacksUnchanged, TypeOK
  <2> QED BY <1>8, <2>1, <2>2 DEF Recheck
<1>9. ASSUME NEW d \in Drains, Requeue(d)
      PROVE  TypeOK'
  <2>1. drainMsg[d] \in Message
    BY <1>9, HeldMessage DEF Requeue
  <2>2. Append(statusQueue, drainMsg[d]) \in Seq(Message)
    BY <2>1, AppendHolds DEF TypeOK
  <2> QED BY <1>9, <2>2 DEF Requeue, Finish, CallbacksUnchanged, TypeOK
<1>10. ASSUME NEW d \in Drains, DrainFault(d)
       PROVE  TypeOK'
  <2>1. drainMsg[d] \in Message
    BY <1>10, HeldMessage DEF DrainFault
  <2>2. WriteOf(d) \in Write
    BY <2>1 DEF WriteOf, Write, TypeOK
  <2>3. strayWrites' \in SUBSET Write
    BY <1>10, <2>2 DEF DrainFault, TypeOK
  <2> QED BY <1>10, <2>3
          DEF DrainFault, CountFault, Fail, QueueUnchanged, CallbacksUnchanged, TypeOK
<1>11. ASSUME NEW w \in strayWrites, StrayWriteLands(w)
       PROVE  TypeOK'
  <2>1. w.msg \in Message
    BY DEF TypeOK, Write
  <2>2. orders' \in Collection
    BY <1>11, <2>1, AppendTyped DEF StrayWriteLands, TypeOK
  <2> QED BY <1>11, <2>2 DEF StrayWriteLands, QueueUnchanged, CallbacksUnchanged, TypeOK
<1>12. ASSUME NEW w \in strayWrites, StrayWriteIsLost(w)
       PROVE  TypeOK'
  BY <1>12 DEF StrayWriteIsLost, QueueUnchanged, CallbacksUnchanged, TypeOK
<1>13. CASE Restart
  <2>1. \A d \in Drains : drainPc[d] = "append" => WriteOf(d) \in Write
    BY HeldMessage DEF WriteOf, Write, TypeOK
  <2>2. strayWrites' \in SUBSET Write
    BY <1>13, <2>1 DEF Restart, TypeOK
  <2>3. /\ callback' \in [Callbacks -> Waiting \cup Replies]
        /\ callbackMsg' \in [Callbacks -> Message \cup {NoMessage}]
        /\ \A c \in Callbacks :
              callback'[c] \in {"validated", "202"} <=> callbackMsg'[c] # NoMessage
    BY <1>13 DEF Restart, TypeOK, Waiting, Replies
  <2> QED BY <1>13, <2>2, <2>3 DEF Restart, CountFault, TypeOK
<1>14. CASE ClearStatusQueue
  BY <1>14 DEF ClearStatusQueue, CallbacksUnchanged, DrainsUnchanged, TypeOK
<1>15. CASE UNCHANGED vars
  BY <1>15 DEF vars, updateVars, TypeOK
<1> QED
  BY <1>1, <1>2, <1>3, <1>4, <1>5, <1>6, <1>7, <1>8, <1>9, <1>10, <1>11, <1>12,
     <1>13, <1>14, <1>15
     DEF Next, CallbackStep, DrainStep

(* The variables keep their types: in particular a drain holds a message exactly
   while it is at work, and a request exactly from its validation on. *)
THEOREM TypeCorrect == Spec => []TypeOK
BY TypeInit, TypeNext, PTL DEF Spec

----------------------------------------------------------------------------
(* What a step does to the collection *)

(* Every step leaves the orders alone, inserts one, or appends an event that is
   new to its order and a legal transition from its status. *)
LegalCreate ==
    \E o \in OrderIds, key \in RequestIds, hash \in PayloadHashes :
        ~Stored(o) /\ InsertOne(o, NewOrder(key, hash))

LegalAppend(m) ==
    /\ Stored(m.orderId)
    /\ CanTransition(orders[m.orderId].status, m.status)
    /\ ~HasEvent(orders[m.orderId], m.eventId)
    /\ AppendStatusEvent(m.orderId, EventOf(m))

OrdersStep ==
    \/ UNCHANGED orders
    \/ LegalCreate
    \/ \E m \in Message : LegalAppend(m)

LEMMA GuardedAppend ==
    ASSUME NEW m \in Message, NEW v, Guarded(m, v),
           AppendFilterMatches(m.orderId, EventOf(m), v),
           AppendStatusEvent(m.orderId, EventOf(m))
    PROVE  LegalAppend(m)
BY MessageEvent DEF Guarded, AppendFilterMatches, LegalAppend

LEMMA StepOnOrders ==
    ASSUME TypeOK, WritesGuarded, [Next]_vars
    PROVE  OrdersStep
<1>1. ASSUME NEW o \in OrderIds, NEW key \in RequestIds, NEW hash \in PayloadHashes,
             CreateOrder(o, key, hash)
      PROVE  LegalCreate
  BY <1>1 DEF CreateOrder, UniqueIndexesAccept, LegalCreate
<1>2. ASSUME NEW d \in Drains, AppendEvent(d)
      PROVE  OrdersStep
  <2>1. drainMsg[d] \in Message /\ Guarded(drainMsg[d], drainVersion[d])
    BY <1>2, HeldMessage DEF AppendEvent, WritesGuarded
  <2> QED BY <1>2, <2>1, GuardedAppend DEF AppendEvent, OrdersStep
<1>3. ASSUME NEW w \in strayWrites, StrayWriteLands(w)
      PROVE  OrdersStep
  <2>1. w.msg \in Message /\ Guarded(w.msg, w.version)
    BY DEF WritesGuarded, TypeOK, Write
  <2> QED BY <1>3, <2>1, GuardedAppend DEF StrayWriteLands, OrdersStep
<1> QED
  BY <1>1, <1>2, <1>3
     DEF Next, CallbackStep, DrainStep, RefuseCallback, ValidateCallback, EnqueueCallback,
         Dequeue, Prepare, Recheck, Requeue, DrainFault, Restart, StrayWriteIsLost,
         ClearStatusQueue, OrdersStep, vars

(* The legal transitions are the successive ranks. *)
LEMMA TransitionRank ==
    ASSUME NEW s \in OrderStatus, NEW t \in OrderStatus, CanTransition(s, t)
    PROVE  Rank(s) \in 1..2 /\ Rank(t) = Rank(s) + 1
BY DEF OrderStatus, CanTransition, AllowedTransitions, Rank

LEMMA RankRange ==
    ASSUME NEW s \in OrderStatus
    PROVE  Rank(s) \in 1..3
BY DEF OrderStatus, Rank

(* A stored order stays stored, and moves forward or not at all. *)
Forward(o) ==
    /\ Stored(o)'
    /\ \/ orders'[o] = orders[o]
       \/ /\ orders'[o].version = orders[o].version + 1
          /\ Rank(orders'[o].status) = Rank(orders[o].status) + 1
    /\ \A id : HasEvent(orders[o], id) => HasEvent(orders'[o], id)

LEMMA OrdersMoveForward ==
    ASSUME TypeOK, OrdersStep, NEW o \in OrderIds, Stored(o)
    PROVE  Forward(o)
<1>1. CASE orders'[o] = orders[o]
  BY <1>1 DEF Forward, Stored
<1>2. CASE LegalCreate
  <2>1. orders'[o] = orders[o]
    BY <1>2 DEF LegalCreate, InsertOne, TypeOK, Collection
  <2> QED BY <1>1, <2>1
<1>3. ASSUME NEW m \in Message, LegalAppend(m)
      PROVE  Forward(o)
  <2> DEFINE event == EventOf(m)
  <2>1. /\ m.orderId \in OrderIds /\ event \in StatusEvent
        /\ event.eventId = m.eventId /\ event.status = m.status
    BY MessageEvent
  <2>2. CASE m.orderId # o
    <3>1. orders'[o] = orders[o]
      BY <1>3, <2>1, <2>2, AppendedDocument DEF LegalAppend, TypeOK
    <3> QED BY <1>1, <3>1
  <2>3. CASE m.orderId = o
    <3>1. /\ orders' \in Collection /\ orders'[o] \in OrderDocument
          /\ orders'[o].status = m.status
          /\ orders'[o].statusHistory = Append(orders[o].statusHistory, event)
          /\ orders'[o].version = orders[o].version + 1
      BY <1>3, <2>1, <2>3, AppendedDocument DEF LegalAppend, TypeOK
    <3>2. Stored(o)'
      BY <3>1, NoDocumentAssumption DEF Stored
    <3>3. orders[o] \in OrderDocument
      BY DEF Stored, TypeOK, Collection
    <3>4. Rank(m.status) = Rank(orders[o].status) + 1
      BY <1>3, <2>3, <3>3, MessageEvent, TransitionRank
         DEF LegalAppend, OrderDocument, CallbackStatus, OrderStatus
    <3>5. ASSUME NEW id, HasEvent(orders[o], id)
          PROVE  HasEvent(orders'[o], id)
      <4> DEFINE h == orders[o].statusHistory
      <4>1. h \in Seq(StatusEvent)
        BY <3>3 DEF OrderDocument
      <4>2. PICK i \in 1..Len(h) : h[i].eventId = id
        BY <3>5 DEF HasEvent
      <4>3. i \in 1..Len(Append(h, event)) /\ Append(h, event)[i] = h[i]
        BY <4>1, <4>2, <2>1
      <4> QED BY <3>1, <4>2, <4>3 DEF HasEvent
    <3> QED BY <3>1, <3>2, <3>4, <3>5 DEF Forward
  <2> QED BY <2>2, <2>3
<1> QED BY <1>1, <1>2, <1>3 DEF OrdersStep

----------------------------------------------------------------------------
(* The histories *)

LEMMA HistoryStep ==
    ASSUME TypeOK, LifecycleHistory, EventsAppliedOnce, OrdersStep
    PROVE  LifecycleHistory' /\ EventsAppliedOnce'
<1> DEFINE History(o) ==
             LET doc == orders[o]
             IN  /\ Len(doc.statusHistory) \in 1..3
                 /\ doc.version = Len(doc.statusHistory)
                 /\ Rank(doc.status) = Len(doc.statusHistory)
                 /\ \A i \in 1..Len(doc.statusHistory) :
                       Rank(doc.statusHistory[i].status) = i
           Once(o) ==
             \A i, j \in 1..Len(orders[o].statusHistory) :
               orders[o].statusHistory[i].eventId = orders[o].statusHistory[j].eventId
                 => i = j
<1> SUFFICES ASSUME NEW o \in OrderIds, Stored(o)'
             PROVE  History(o)' /\ Once(o)'
  BY DEF LifecycleHistory, EventsAppliedOnce
<1>1. CASE orders'[o] = orders[o]
  BY <1>1 DEF LifecycleHistory, EventsAppliedOnce, Stored
<1>2. CASE LegalCreate
  <2>1. PICK p \in OrderIds, key \in RequestIds, hash \in PayloadHashes :
           ~Stored(p) /\ InsertOne(p, NewOrder(key, hash))
    BY <1>2 DEF LegalCreate
  <2>2. CASE p # o
    BY <1>1, <2>1, <2>2 DEF InsertOne, TypeOK, Collection
  <2>3. CASE p = o
    <3>1. orders'[o] = NewOrder(key, hash)
      BY <2>1, <2>3 DEF InsertOne, TypeOK, Collection
    <3>2. Rank("PENDING_SHIPMENT") = 1
      BY DEF Rank
    <3>3. /\ Len(orders'[o].statusHistory) = 1 /\ orders'[o].version = 1
          /\ orders'[o].status = "PENDING_SHIPMENT"
          /\ orders'[o].statusHistory[1].status = "PENDING_SHIPMENT"
      BY <3>1, NewDocument, CreatedEventIdAssumption
    <3>4. \A i \in 1..1 : i = 1
      OBVIOUS
    <3> QED BY <3>2, <3>3, <3>4
  <2> QED BY <2>2, <2>3
<1>3. ASSUME NEW m \in Message, LegalAppend(m), m.orderId = o
      PROVE  History(o)' /\ Once(o)'
  <2> DEFINE h == orders[o].statusHistory
             event == EventOf(m)
  <2>1. Stored(o) /\ orders[o] \in OrderDocument /\ h \in Seq(StatusEvent)
    BY <1>3 DEF LegalAppend, Stored, TypeOK, Collection, OrderDocument
  <2>2. /\ orders'[o].status = m.status
        /\ orders'[o].statusHistory = Append(h, event)
        /\ orders'[o].version = orders[o].version + 1
        /\ event \in StatusEvent /\ event.eventId = m.eventId /\ event.status = m.status
    BY <1>3, <2>1, MessageEvent, AppendedDocument DEF LegalAppend, TypeOK
  <2>3. /\ Len(h) \in 1..3 /\ orders[o].version = Len(h)
        /\ Rank(orders[o].status) = Len(h)
        /\ \A i \in 1..Len(h) : Rank(h[i].status) = i
    BY <2>1 DEF LifecycleHistory
  <2>4. Rank(orders[o].status) \in 1..2 /\ Rank(m.status) = Rank(orders[o].status) + 1
    BY <1>3, <2>1, MessageEvent, TransitionRank
       DEF LegalAppend, OrderDocument, CallbackStatus, OrderStatus
  <2>5. /\ Len(Append(h, event)) = Len(h) + 1
        /\ Append(h, event)[Len(h) + 1] = event
        /\ \A i \in 1..Len(h) : Append(h, event)[i] = h[i]
    BY <2>1, <2>2
  <2>6. \A i \in 1..Len(h) : h[i].eventId # m.eventId
    BY <1>3 DEF LegalAppend, HasEvent
  <2>7. \A i, j \in 1..Len(h) : h[i].eventId = h[j].eventId => i = j
    BY <2>1 DEF EventsAppliedOnce
  <2> HIDE DEF h, event
  <2>8. History(o)'
    <3>1. \A i \in 1..Len(Append(h, event)) : Rank(Append(h, event)[i].status) = i
      BY <2>2, <2>3, <2>4, <2>5
    <3> QED BY <2>2, <2>3, <2>4, <2>5, <3>1
  <2>9. Once(o)'
    <3> SUFFICES ASSUME NEW i \in 1..Len(h) + 1, NEW j \in 1..Len(h) + 1,
                        Append(h, event)[i].eventId = Append(h, event)[j].eventId
                 PROVE  i = j
      BY <2>2, <2>5
    <3>1. CASE i = Len(h) + 1 /\ j \in 1..Len(h)
      BY <3>1, <2>2, <2>5, <2>6
    <3>2. CASE j = Len(h) + 1 /\ i \in 1..Len(h)
      BY <3>2, <2>2, <2>5, <2>6
    <3>3. CASE i \in 1..Len(h) /\ j \in 1..Len(h)
      BY <3>3, <2>5, <2>7
    <3> QED BY <2>3, <3>1, <3>2, <3>3
  <2> QED BY <2>8, <2>9
<1>4. ASSUME NEW m \in Message, LegalAppend(m), m.orderId # o
      PROVE  History(o)' /\ Once(o)'
  <2>1. orders'[o] = orders[o]
    BY <1>4, MessageEvent, AppendedDocument DEF LegalAppend, TypeOK
  <2> QED BY <1>1, <2>1
<1> QED BY <1>1, <1>2, <1>3, <1>4 DEF OrdersStep

----------------------------------------------------------------------------
(* Writes and messages against the orders they are for *)

(* A guarded write stays guarded and a message stays not ahead, because the
   order only moves forward. *)
LEMMA GuardedStable ==
    ASSUME TypeOK, NEW m \in Message, NEW v \in Nat, Guarded(m, v), Forward(m.orderId)
    PROVE  Guarded(m, v)'
<1>1. orders[m.orderId].version \in Nat
  BY MessageEvent DEF Guarded, Stored, TypeOK, Collection, OrderDocument
<1>2. CASE orders'[m.orderId] = orders[m.orderId]
  BY <1>2 DEF Guarded, Forward
<1>3. CASE orders'[m.orderId].version = orders[m.orderId].version + 1
  BY <1>1, <1>3 DEF Guarded, Forward
<1> QED BY <1>2, <1>3 DEF Forward

(* What it means to be applicable, and not ahead, without the four outcomes. *)
LEMMA ApplicableIs ==
    \A m : Prepared(m) = "apply" <=>
              /\ Stored(m.orderId)
              /\ ~HasEvent(orders[m.orderId], m.eventId)
              /\ CanTransition(orders[m.orderId].status, m.status)
BY DEF Prepared

LEMMA NotAheadIs ==
    \A m : NotAhead(m) <=>
              /\ orders[m.orderId] # NoDocument
              /\ \/ Rank(m.status) <= Rank(orders[m.orderId].status)
                 \/ /\ ~HasEvent(orders[m.orderId], m.eventId)
                    /\ CanTransition(orders[m.orderId].status, m.status)
BY ApplicableIs DEF NotAhead, Reached, Stored

LEMMA NotAheadStable ==
    ASSUME TypeOK, NEW m \in Message, NotAhead(m), Forward(m.orderId)
    PROVE  NotAhead(m)'
<1> DEFINE o == m.orderId
<1>1. /\ orders[o].status \in OrderStatus /\ m.status \in OrderStatus
      /\ Rank(orders[o].status) \in 1..3 /\ Rank(m.status) \in 1..3
  <2>1. orders \in Collection /\ o \in OrderIds /\ m.status \in CallbackStatus
    BY MessageEvent DEF TypeOK
  <2>2. orders[o] \in OrderDocument
    BY <2>1 DEF NotAhead, Stored, Collection
  <2>3. orders[o].status \in OrderStatus /\ m.status \in OrderStatus
    BY <2>1, <2>2 DEF OrderDocument, CallbackStatus, OrderStatus
  <2> QED BY <2>3, RankRange
<1>2. CASE orders'[o] = orders[o]
  <2>1. Stored(o)' /\ (Reached(m) => Reached(m)')
    BY <1>2 DEF NotAhead, Reached, Stored
  <2>2. Prepared(m)' = Prepared(m)
    BY <1>2 DEF Prepared, Stored
  <2> QED BY <2>1, <2>2 DEF NotAhead
<1>3. CASE Rank(orders'[o].status) = Rank(orders[o].status) + 1
  <2>1. Rank(m.status) <= Rank(orders[o].status) + 1
    <3>1. CASE Reached(m)
      BY <1>1, <3>1 DEF Reached
    <3>2. CASE Prepared(m) = "apply"
      <4>1. CanTransition(orders[o].status, m.status)
        BY <3>2, ApplicableIs
      <4> QED BY <1>1, <4>1, TransitionRank
    <3> QED BY <3>1, <3>2 DEF NotAhead
  <2>2. Reached(m)'
    BY <1>3, <2>1 DEF Reached
  <2> QED BY <2>2 DEF NotAhead, Forward
<1> QED BY <1>2, <1>3 DEF Forward

(* What prepareStatusUpdate lets through is not ahead, and its version makes the
   write a guarded one. *)
LEMMA PreparedToApply ==
    ASSUME TypeOK, NEW m \in Message, Prepared(m) = "apply"
    PROVE  /\ NotAhead(m)
           /\ Guarded(m, orders[m.orderId].version)
<1>1. Stored(m.orderId) /\ CanTransition(orders[m.orderId].status, m.status)
  BY DEF Prepared
<1>2. orders[m.orderId] \in OrderDocument
  BY <1>1, MessageEvent DEF Stored, TypeOK, Collection
<1> QED BY <1>1, <1>2 DEF NotAhead, Guarded, OrderDocument

LEMMA WritesGuardedStep ==
    ASSUME TypeOK, TypeOK', WritesGuarded, OrdersStep, [Next]_vars
    PROVE  WritesGuarded'
<1> DEFINE After(m, v) ==
             /\ orders'[m.orderId] # NoDocument
             /\ v <= orders'[m.orderId].version
             /\ v = orders'[m.orderId].version
                   => CanTransition(orders'[m.orderId].status, m.status)
<1>1. \A m \in Message, v \in Nat : Guarded(m, v) => After(m, v)
  <2> SUFFICES ASSUME NEW m \in Message, NEW v \in Nat, Guarded(m, v)
               PROVE  Guarded(m, v)'
    BY DEF Guarded, Stored
  <2>1. Forward(m.orderId)
    BY OrdersMoveForward, MessageEvent DEF Guarded
  <2> QED BY <2>1, GuardedStable
<1>2. \A d \in Drains : drainPc[d] = "append" => After(drainMsg[d], drainVersion[d])
  BY <1>1, HeldMessage DEF TypeOK, WritesGuarded
<1>3. \A w \in strayWrites : After(w.msg, w.version)
  BY <1>1 DEF TypeOK, Write, WritesGuarded
<1>0. (/\ \A d \in Drains : drainPc'[d] = "append" => After(drainMsg'[d], drainVersion'[d])
       /\ \A w \in strayWrites' : After(w.msg, w.version))
      => WritesGuarded'
  BY DEF WritesGuarded, Guarded, Stored
<1> HIDE DEF After
<1>4. ASSUME NEW d \in Drains, DrainFault(d)
      PROVE  WritesGuarded'
  BY <1>0, <1>2, <1>3, <1>4 DEF DrainFault, Fail, WriteOf, TypeOK
<1>5. CASE Restart
  <2>1. \A w \in strayWrites' :
            w \in strayWrites \/ \E d \in Drains : drainPc[d] = "append" /\ w = WriteOf(d)
    BY <1>5 DEF Restart
  <2>2. \A w \in strayWrites' : After(w.msg, w.version)
    BY <1>2, <1>3, <2>1 DEF WriteOf
  <2> QED BY <1>0, <1>5, <2>2 DEF Restart
<1>6. ASSUME NEW d \in Drains, Prepare(d)
      PROVE  WritesGuarded'
  <2>1. UNCHANGED orders /\ strayWrites' = strayWrites
    BY <1>6 DEF Prepare
  <2>2. CASE /\ Prepared(drainMsg[d]) = "apply"
             /\ drainPc' = [drainPc EXCEPT ![d] = "append"]
             /\ drainVersion' = [drainVersion EXCEPT
                                    ![d] = orders[drainMsg[d].orderId].version]
             /\ UNCHANGED drainMsg
    <3>1. drainMsg[d] \in Message
      BY <1>6, HeldMessage DEF Prepare
    <3>2. Guarded(drainMsg[d], orders[drainMsg[d].orderId].version)
      BY <2>2, <3>1, PreparedToApply
    <3>3. After(drainMsg[d], orders[drainMsg[d].orderId].version)
      BY <2>1, <3>2 DEF Guarded, Stored, After
    <3> QED BY <1>0, <1>2, <1>3, <2>1, <2>2, <3>3 DEF TypeOK
  <2>3. CASE Finish(d)
    BY <1>0, <1>2, <1>3, <2>1, <2>3 DEF Finish, TypeOK
  <2>4. CASE Fail(d)
    BY <1>0, <1>2, <1>3, <2>1, <2>4 DEF Fail, TypeOK
  <2> QED BY <1>6, <2>2, <2>3, <2>4 DEF Prepare
<1>7. ASSUME NEW d \in Drains, Dequeue(d) \/ AppendEvent(d) \/ Recheck(d) \/ Requeue(d)
      PROVE  WritesGuarded'
  <2>1. /\ strayWrites' = strayWrites
        /\ drainPc'[d] # "append"
        /\ \A e \in Drains \ {d} :
              /\ drainPc'[e] = drainPc[e] /\ drainMsg'[e] = drainMsg[e]
              /\ drainVersion'[e] = drainVersion[e]
    BY <1>7 DEF Dequeue, AppendEvent, Recheck, Requeue, Finish, Fail, TypeOK
  <2> QED BY <1>0, <1>2, <1>3, <2>1
<1>8. ASSUME UNCHANGED <<drainPc, drainMsg, drainVersion>>, strayWrites' \subseteq strayWrites
      PROVE  WritesGuarded'
  BY <1>0, <1>2, <1>3, <1>8
<1> QED
  BY <1>4, <1>5, <1>6, <1>7, <1>8
     DEF Next, CallbackStep, DrainStep, CreateOrder, RefuseCallback, ValidateCallback,
         EnqueueCallback, StrayWriteLands, StrayWriteIsLost, ClearStatusQueue,
         DrainsUnchanged, vars, updateVars

LEMMA NeverAheadStep ==
    ASSUME TypeOK, TypeOK', NeverAhead, OrdersStep, [Next]_vars
    PROVE  NeverAhead'
<1> DEFINE After(m) ==
             /\ orders'[m.orderId] # NoDocument
             /\ \/ Rank(m.status) <= Rank(orders'[m.orderId].status)
                \/ /\ ~HasEvent(orders'[m.orderId], m.eventId)
                   /\ CanTransition(orders'[m.orderId].status, m.status)
<1>a. \A m : NotAhead(m)' <=> After(m)
  <2>1. (\A m : NotAhead(m) <=>
              /\ orders[m.orderId] # NoDocument
              /\ \/ Rank(m.status) <= Rank(orders[m.orderId].status)
                 \/ /\ ~HasEvent(orders[m.orderId], m.eventId)
                    /\ CanTransition(orders[m.orderId].status, m.status))'
    BY NotAheadIs, PTL
  <2> QED BY <2>1
<1> HIDE DEF After
<1>1. \A m \in Message : NotAhead(m) => After(m)
  <2> SUFFICES ASSUME NEW m \in Message, NotAhead(m) PROVE NotAhead(m)'
    BY <1>a
  <2>1. Forward(m.orderId)
    BY OrdersMoveForward, MessageEvent DEF NotAhead
  <2> QED BY <2>1, NotAheadStable
<1>2. \A m \in ToSet(statusQueue) : After(m)
  BY <1>1, ToSetElements DEF TypeOK, NeverAhead
<1>3. \A d \in Drains : drainPc[d] # "idle" => After(drainMsg[d])
  BY <1>1, HeldMessage DEF NeverAhead
<1>4. \A c \in Callbacks : callback[c] = "validated" => After(callbackMsg[c])
  BY <1>1 DEF TypeOK, NeverAhead
<1>0. (/\ \A m \in ToSet(statusQueue') : After(m)
       /\ \A d \in Drains : drainPc'[d] # "idle" => After(drainMsg'[d])
       /\ \A c \in Callbacks : callback'[c] = "validated" => After(callbackMsg'[c]))
      => NeverAhead'
  BY <1>a DEF NeverAhead
<1>5. ASSUME NEW c \in Callbacks, NEW m \in Message, ValidateCallback(c, m)
      PROVE  NeverAhead'
  <2>1. CASE Prepared(m) = "apply"
    <3>1. After(m)
      BY <1>1, <2>1, PreparedToApply
    <3> QED BY <1>0, <1>2, <1>3, <1>4, <1>5, <2>1, <3>1
            DEF ValidateCallback, QueueUnchanged, DrainsUnchanged, TypeOK
  <2>2. CASE Prepared(m) # "apply"
    <3>1. Prepared(m) \in {"not_found", "duplicate", "conflict", "apply"}
      BY DEF Prepared
    <3>2. callback'[c] # "validated" /\ callbackMsg' = callbackMsg
          /\ \A b \in Callbacks \ {c} : callback'[b] = callback[b]
      BY <1>5, <2>2, <3>1 DEF ValidateCallback, TypeOK
    <3> QED BY <1>0, <1>2, <1>3, <1>4, <1>5, <3>2
            DEF ValidateCallback, QueueUnchanged, DrainsUnchanged
  <2> QED BY <2>1, <2>2
<1>6. ASSUME NEW c \in Callbacks, EnqueueCallback(c)
      PROVE  NeverAhead'
  <2>1. callbackMsg[c] \in Message /\ After(callbackMsg[c])
    BY <1>4, <1>6 DEF EnqueueCallback, TypeOK
  <2>2. ToSet(statusQueue') = ToSet(statusQueue) \cup {callbackMsg[c]}
    BY <1>6, <2>1, AppendHolds DEF EnqueueCallback, TypeOK
  <2> QED BY <1>0, <1>2, <1>3, <1>4, <1>6, <2>1, <2>2
          DEF EnqueueCallback, DrainsUnchanged, TypeOK
<1>7. ASSUME NEW d \in Drains, Dequeue(d)
      PROVE  NeverAhead'
  <2>1. ToSet(statusQueue) = {Head(statusQueue)} \cup ToSet(statusQueue')
    BY <1>7, HeadTailHold DEF Dequeue, TypeOK
  <2> QED BY <1>0, <1>2, <1>3, <1>4, <1>7, <2>1 DEF Dequeue, CallbacksUnchanged, TypeOK
<1>8. ASSUME NEW d \in Drains, Requeue(d)
      PROVE  NeverAhead'
  <2>1. drainMsg[d] \in Message /\ After(drainMsg[d])
    BY <1>3, <1>8, HeldMessage DEF Requeue
  <2>2. ToSet(statusQueue') = ToSet(statusQueue) \cup {drainMsg[d]}
    BY <1>8, <2>1, AppendHolds DEF Requeue, TypeOK
  <2> QED BY <1>0, <1>2, <1>3, <1>4, <1>8, <2>1, <2>2
          DEF Requeue, Finish, CallbacksUnchanged, TypeOK
<1>9. ASSUME NEW d \in Drains, Prepare(d) \/ AppendEvent(d) \/ Recheck(d) \/ DrainFault(d)
      PROVE  NeverAhead'
  <2>1. /\ statusQueue' = statusQueue /\ callback' = callback /\ callbackMsg' = callbackMsg
        /\ drainPc'[d] # "idle" => drainPc[d] # "idle" /\ drainMsg'[d] = drainMsg[d]
        /\ \A e \in Drains \ {d} : drainPc'[e] = drainPc[e] /\ drainMsg'[e] = drainMsg[e]
    BY <1>9 DEF Prepare, AppendEvent, Recheck, DrainFault, Finish, Fail, QueueUnchanged,
                CallbacksUnchanged, TypeOK
  <2> QED BY <1>0, <1>2, <1>3, <1>4, <2>1
<1>10. CASE Restart \/ ClearStatusQueue
  <2>1. ToSet(statusQueue') = {}
    BY <1>10 DEF Restart, ClearStatusQueue, ToSet
  <2> QED BY <1>0, <1>3, <1>4, <1>10, <2>1
          DEF Restart, ClearStatusQueue, CallbacksUnchanged, DrainsUnchanged, TypeOK
<1>11. ASSUME NEW c \in Callbacks, RefuseCallback(c)
       PROVE  NeverAhead'
  BY <1>0, <1>2, <1>3, <1>4, <1>11
     DEF RefuseCallback, QueueUnchanged, DrainsUnchanged, TypeOK
<1>12. ASSUME UNCHANGED <<statusQueue, callback, callbackMsg, drainPc, drainMsg>>
       PROVE  NeverAhead'
  BY <1>0, <1>2, <1>3, <1>4, <1>12
<1> QED
  BY <1>5, <1>6, <1>7, <1>8, <1>9, <1>10, <1>11, <1>12
     DEF Next, CallbackStep, DrainStep, CreateOrder, StrayWriteLands, StrayWriteIsLost,
         QueueUnchanged, CallbacksUnchanged, vars, updateVars

----------------------------------------------------------------------------
(* Accepted events *)

(* A message in hand that is recorded under its event id has its status reached,
   and one that is appended reaches it. *)
LEMMA RecordedIsReached ==
    ASSUME NEW m, NotAhead(m), HasEvent(orders[m.orderId], m.eventId)
    PROVE  Reached(m)
BY ApplicableIs DEF NotAhead

LEMMA ReachedStable ==
    ASSUME TypeOK, NEW m \in Message, Stored(m.orderId), Reached(m), Forward(m.orderId)
    PROVE  Reached(m)'
<1>1. Rank(orders[m.orderId].status) \in 1..3 /\ Rank(m.status) \in 1..3
  BY MessageEvent, RankRange
     DEF Stored, TypeOK, Collection, OrderDocument, CallbackStatus, OrderStatus
<1>2. CASE orders'[m.orderId] = orders[m.orderId]
  BY <1>2 DEF Reached
<1>3. CASE Rank(orders'[m.orderId].status) = Rank(orders[m.orderId].status) + 1
  BY <1>1, <1>3 DEF Reached
<1> QED BY <1>2, <1>3 DEF Forward

LEMMA AcceptedSurvivesStep ==
    ASSUME TypeOK, TypeOK', NeverAhead, AcceptedSurvives, OrdersStep, [Next]_vars
    PROVE  AcceptedSurvives'
<1> DEFINE Queued(m) == m \in ToSet(statusQueue)
           Held(m) == \E d \in Drains : drainPc[d] # "idle" /\ drainMsg[d] = m
           Applied(m) == /\ Stored(m.orderId) /\ HasEvent(orders[m.orderId], m.eventId)
                         /\ Reached(m)
<1>1. \A m \in accepted : Queued(m) \/ Held(m) \/ Applied(m)
  BY DEF AcceptedSurvives, InFlight
<1>2. SUFFICES \A m \in accepted' : Queued(m)' \/ Held(m)' \/ Applied(m)'
  BY DEF AcceptedSurvives, InFlight
<1>3. \A m \in Message : Applied(m) => Applied(m)'
  <2> SUFFICES ASSUME NEW m \in Message, Applied(m) PROVE Applied(m)'
    OBVIOUS
  <2>1. Forward(m.orderId)
    BY OrdersMoveForward, MessageEvent
  <2>2. Reached(m)'
    BY <2>1, ReachedStable
  <2> QED BY <2>1, <2>2 DEF Forward
<1>4. accepted \subseteq Message /\ accepted' \subseteq Message
  BY DEF TypeOK
<1>5. ASSUME NEW c \in Callbacks, EnqueueCallback(c)
      PROVE  \A m \in accepted' : Queued(m)' \/ Held(m)' \/ Applied(m)'
  <2>1. callbackMsg[c] \in Message
    BY <1>5 DEF EnqueueCallback, TypeOK
  <2>2. ToSet(statusQueue') = ToSet(statusQueue) \cup {callbackMsg[c]}
    BY <1>5, <2>1, AppendHolds DEF EnqueueCallback, TypeOK
  <2>3. accepted' = accepted \cup {callbackMsg[c]} /\ orders' = orders
        /\ drainPc' = drainPc /\ drainMsg' = drainMsg
    BY <1>5 DEF EnqueueCallback, DrainsUnchanged
  <2> QED BY <1>1, <2>2, <2>3 DEF Stored, Reached
<1>6. ASSUME NEW d \in Drains, Dequeue(d)
      PROVE  \A m \in accepted' : Queued(m)' \/ Held(m)' \/ Applied(m)'
  <2>1. ToSet(statusQueue) = {Head(statusQueue)} \cup ToSet(statusQueue')
    BY <1>6, HeadTailHold DEF Dequeue, TypeOK
  <2>2. \A m \in Message : Held(m) => Held(m)'
    BY <1>6 DEF Dequeue, TypeOK
  <2>3. drainPc'[d] # "idle" /\ drainMsg'[d] = Head(statusQueue)
    BY <1>6 DEF Dequeue, TypeOK
  <2> QED BY <1>1, <1>3, <1>4, <1>6, <2>1, <2>2, <2>3 DEF Dequeue
<1>7. ASSUME NEW d \in Drains, Requeue(d)
      PROVE  \A m \in accepted' : Queued(m)' \/ Held(m)' \/ Applied(m)'
  <2>1. drainMsg[d] \in Message
    BY <1>7, HeldMessage DEF Requeue
  <2>2. ToSet(statusQueue') = ToSet(statusQueue) \cup {drainMsg[d]}
    BY <1>7, <2>1, AppendHolds DEF Requeue, TypeOK
  <2>3. \A m \in Message : Held(m) => Held(m)' \/ m = drainMsg[d]
    BY <1>7 DEF Requeue, Finish, TypeOK
  <2> QED BY <1>1, <1>3, <1>4, <1>7, <2>2, <2>3 DEF Requeue
<1>8. ASSUME NEW d \in Drains, Prepare(d) \/ AppendEvent(d) \/ Recheck(d) \/ DrainFault(d)
      PROVE  \A m \in accepted' : Queued(m)' \/ Held(m)' \/ Applied(m)'
  <2>1. statusQueue' = statusQueue /\ accepted' = accepted
    BY <1>8 DEF Prepare, AppendEvent, Recheck, DrainFault, QueueUnchanged
  <2>2. drainMsg[d] \in Message
    BY <1>8, HeldMessage DEF Prepare, AppendEvent, Recheck, DrainFault
  <2> PICK m \in Message : m = drainMsg[d]
    BY <2>2
  <2>n. NotAhead(m)
    BY <1>8 DEF NeverAhead, Prepare, AppendEvent, Recheck, DrainFault
  <2>3. \/ drainPc'[d] # "idle" /\ drainMsg'[d] = drainMsg[d]
        \/ Applied(m)'
    <3>1. CASE Prepare(d)
      <4>1. Prepared(drainMsg[d]) = "duplicate" => Applied(m)
        BY <2>n, RecordedIsReached DEF Prepared
      <4>2. \/ drainPc'[d] # "idle" /\ drainMsg'[d] = drainMsg[d]
            \/ Prepared(drainMsg[d]) = "duplicate"
        BY <3>1 DEF Prepare, Fail, TypeOK
      <4>3. orders' = orders
        BY <3>1 DEF Prepare
      <4>4. Applied(m) => Applied(m)'
        BY <4>3 DEF Stored, Reached
      <4> HIDE DEF Applied
      <4> QED BY <4>1, <4>2, <4>4
    <3>2. CASE AppendEvent(d)
      <4>1. CASE /\ AppendFilterMatches(drainMsg[d].orderId, EventOf(drainMsg[d]),
                                        drainVersion[d])
                 /\ AppendStatusEvent(drainMsg[d].orderId, EventOf(drainMsg[d]))
        <5> DEFINE h == orders[m.orderId].statusHistory
                   event == EventOf(m)
        <5>1. Stored(m.orderId)
          BY <4>1 DEF AppendFilterMatches
        <5>2. orders[m.orderId] \in OrderDocument /\ h \in Seq(StatusEvent)
          BY <5>1, <2>2, MessageEvent DEF Stored, TypeOK, Collection, OrderDocument
        <5>3. /\ event \in StatusEvent
              /\ event.eventId = m.eventId /\ event.status = m.status
          BY MessageEvent
        <5>4. /\ orders'[m.orderId] \in OrderDocument
              /\ orders'[m.orderId].statusHistory = Append(h, event)
              /\ orders'[m.orderId].status = m.status
          <6>1. orders \in Collection /\ m.orderId \in OrderIds
            BY MessageEvent DEF TypeOK
          <6>2. AppendStatusEvent(m.orderId, event)
            BY <4>1
          <6> QED BY <5>1, <5>3, <6>1, <6>2, AppendedDocument
        <5>r. Reached(m)'
          <6>1. Rank(m.status) \in 1..3
            BY MessageEvent, RankRange DEF CallbackStatus, OrderStatus
          <6>2. Rank(orders'[m.orderId].status) = Rank(m.status)
            BY <5>4
          <6> QED BY <6>1, <6>2 DEF Reached
        <5> HIDE DEF h, event
        <5>5. /\ Len(Append(h, event)) = Len(h) + 1 /\ Len(h) \in Nat
              /\ Append(h, event)[Len(h) + 1] = event
          BY <5>2, <5>3
        <5>6. Len(h) + 1 \in 1..Len(Append(h, event))
          BY <5>5
        <5>7. HasEvent(orders'[m.orderId], m.eventId)
          BY <5>3, <5>4, <5>5, <5>6 DEF HasEvent
        <5>8. orders'[m.orderId] # NoDocument
          BY <5>4, NoDocumentAssumption
        <5> QED BY <5>7, <5>8, <5>r DEF Stored
      <4>2. CASE drainPc'[d] # "idle" /\ drainMsg'[d] = drainMsg[d]
        BY <4>2
      <4> QED BY <3>2, <4>1, <4>2 DEF AppendEvent, TypeOK
    <3>3. CASE Recheck(d)
      <4>1. HasEvent(orders[m.orderId], m.eventId) => Reached(m)
        BY <2>n, RecordedIsReached
      <4> QED BY <3>3, <4>1 DEF Recheck, Fail, TypeOK, Stored, Reached
    <3>4. CASE DrainFault(d)
      BY <3>4 DEF DrainFault, Fail, TypeOK
    <3> QED BY <1>8, <3>1, <3>2, <3>3, <3>4
  <2>4. \A e \in Drains \ {d} : drainPc'[e] = drainPc[e] /\ drainMsg'[e] = drainMsg[e]
    BY <1>8 DEF Prepare, AppendEvent, Recheck, DrainFault, Finish, Fail, TypeOK
  <2>5. \A n \in Message : Held(n) => Held(n)' \/ Applied(n)'
    BY <2>3, <2>4
  <2> QED BY <1>1, <1>3, <1>4, <2>1, <2>5
<1>9. CASE Restart
  BY <1>9 DEF Restart
<1>10. CASE ClearStatusQueue
  BY <1>1, <1>3, <1>4, <1>10 DEF ClearStatusQueue, DrainsUnchanged
<1>11. ASSUME UNCHANGED <<statusQueue, accepted, drainPc, drainMsg>>
       PROVE  \A m \in accepted' : Queued(m)' \/ Held(m)' \/ Applied(m)'
  BY <1>1, <1>3, <1>4, <1>11
<1> QED
  BY <1>5, <1>6, <1>7, <1>8, <1>9, <1>10, <1>11
     DEF Next, CallbackStep, DrainStep, CreateOrder, RefuseCallback, ValidateCallback,
         StrayWriteLands, StrayWriteIsLost, QueueUnchanged, DrainsUnchanged, vars, updateVars

----------------------------------------------------------------------------
(* The inductive invariant and what follows from it *)

(* The safety properties are inductive only together: histories stay legal
   because pending writes are guarded, writes are guarded because histories only
   move forward, and accepted events reach a history through both. *)
IInv ==
    /\ TypeOK
    /\ LifecycleHistory
    /\ EventsAppliedOnce
    /\ WritesGuarded
    /\ NeverAhead
    /\ AcceptedSurvives

LEMMA IInvInit == Init => IInv
<1> SUFFICES ASSUME Init PROVE IInv
  OBVIOUS
<1>1. TypeOK
  BY TypeInit
<1>2. \A o \in OrderIds : ~Stored(o)
  BY DEF Init, Stored
<1>3. ToSet(statusQueue) = {}
  BY DEF Init, ToSet
<1> QED
  BY <1>1, <1>2, <1>3
     DEF Init, IInv, LifecycleHistory, EventsAppliedOnce, WritesGuarded, NeverAhead,
         AcceptedSurvives

LEMMA IInvNext == IInv /\ [Next]_vars => IInv'
<1> SUFFICES ASSUME IInv, [Next]_vars PROVE IInv'
  OBVIOUS
<1>1. TypeOK'
  BY TypeNext DEF IInv
<1>2. OrdersStep
  BY StepOnOrders DEF IInv
<1>3. LifecycleHistory' /\ EventsAppliedOnce'
  BY <1>2, HistoryStep DEF IInv
<1>4. WritesGuarded'
  BY <1>1, <1>2, WritesGuardedStep DEF IInv
<1>5. NeverAhead'
  BY <1>1, <1>2, NeverAheadStep DEF IInv
<1>6. AcceptedSurvives'
  BY <1>1, <1>2, AcceptedSurvivesStep DEF IInv
<1> QED BY <1>1, <1>3, <1>4, <1>5, <1>6 DEF IInv

LEMMA IInvariant == Spec => []IInv
BY IInvInit, IInvNext, PTL DEF Spec

(* For any number of drains, requests, restarts and failed commands, a stored
   order's history is the lifecycle up to its status, and its version counts it. *)
THEOREM HistoryIsLifecycle == Spec => []LifecycleHistory
<1>1. IInv => LifecycleHistory
  BY DEF IInv
<1> QED BY <1>1, IInvariant, PTL

(* No event id enters a history twice. *)
THEOREM EventsAreAppliedOnce == Spec => []EventsAppliedOnce
<1>1. IInv => EventsAppliedOnce
  BY DEF IInv
<1> QED BY <1>1, IInvariant, PTL

(* A write made from a stale snapshot is always recognised by its version. *)
THEOREM StaleWritesAreGuarded == Spec => []WritesGuarded
<1>1. IInv => WritesGuarded
  BY DEF IInv
<1> QED BY <1>1, IInvariant, PTL

(* No message runs ahead of its order. *)
THEOREM MessagesAreNeverAhead == Spec => []NeverAhead
<1>1. IInv => NeverAhead
  BY DEF IInv
<1> QED BY <1>1, IInvariant, PTL

(* Nothing answered 202 vanishes, unless a restart or the debug route discards
   the queue. *)
THEOREM AcceptedEventsSurvive == Spec => []AcceptedSurvives
<1>1. IInv => AcceptedSurvives
  BY DEF IInv
<1> QED BY <1>1, IInvariant, PTL

(* The core of "an accepted status is reached": as long as it is not, the message
   is in the pipeline, and applying it is all that is left to do, whatever is
   queued before it and whatever fails. *)
AcceptedIsOnItsWay ==
    \A m \in accepted :
        \/ Reached(m)
        \/ /\ m \in ToSet(statusQueue) \cup InFlight
           /\ Prepared(m) = "apply"

THEOREM AcceptedMessagesAreOnTheirWay == Spec => []AcceptedIsOnItsWay
<1>1. IInv => AcceptedIsOnItsWay
  <2> SUFFICES ASSUME IInv, NEW m \in accepted, ~Reached(m)
               PROVE  m \in ToSet(statusQueue) \cup InFlight /\ Prepared(m) = "apply"
    BY DEF AcceptedIsOnItsWay
  <2>1. m \in ToSet(statusQueue) \/ m \in InFlight
    BY DEF IInv, AcceptedSurvives
  <2>2. CASE m \in ToSet(statusQueue)
    BY <2>2 DEF IInv, NeverAhead, NotAhead
  <2>3. CASE m \in InFlight
    BY <2>3 DEF IInv, NeverAhead, NotAhead, InFlight
  <2> QED BY <2>1, <2>2, <2>3
<1> QED BY <1>1, IInvariant, PTL

(* The message itself, its event id with its status, is in the history. *)
Recorded(m) ==
    \E i \in 1..Len(orders[m.orderId].statusHistory) :
        orders[m.orderId].statusHistory[i] = EventOf(m)

TooLate(m) == Stored(m.orderId) /\ Reached(m) /\ ~Recorded(m)

LEMMA TooLateStays ==
    ASSUME TypeOK, OrdersStep, NEW m \in Message, TooLate(m)
    PROVE  TooLate(m)'
<1> DEFINE o == m.orderId
<1>1. Forward(o)
  BY OrdersMoveForward, MessageEvent DEF TooLate
<1>2. Reached(m)' /\ Stored(o)'
  BY <1>1, ReachedStable DEF TooLate, Forward
<1>3. CASE orders'[o] = orders[o]
  BY <1>2, <1>3 DEF TooLate, Recorded
<1>4. ASSUME NEW n \in Message, LegalAppend(n), n.orderId = o
      PROVE  ~Recorded(m)'
  <2> DEFINE h == orders[o].statusHistory
             event == EventOf(n)
  <2>1. orders[o] \in OrderDocument /\ h \in Seq(StatusEvent)
    BY <1>4, MessageEvent DEF LegalAppend, Stored, TypeOK, Collection, OrderDocument
  <2>2. event \in StatusEvent /\ orders'[o].statusHistory = Append(h, event)
    BY <1>4, <2>1, MessageEvent, AppendedDocument DEF LegalAppend, TypeOK
  <2>3. /\ Rank(n.status) = Rank(orders[o].status) + 1
        /\ Rank(orders[o].status) \in 1..3 /\ Rank(m.status) \in 1..3
    BY <1>4, <2>1, MessageEvent, TransitionRank, RankRange
       DEF LegalAppend, OrderDocument, CallbackStatus, OrderStatus
  <2>4. event # EventOf(m)
    <3>1. Rank(m.status) <= Rank(orders[o].status)
      BY DEF TooLate, Reached
    <3>2. n.status # m.status
      BY <2>3, <3>1
    <3> QED BY <3>2, MessageEvent
  <2>5. /\ Len(Append(h, event)) = Len(h) + 1 /\ Len(h) \in Nat
        /\ Append(h, event)[Len(h) + 1] = event
        /\ \A i \in 1..Len(h) : Append(h, event)[i] = h[i]
    BY <2>1, <2>2
  <2>6. \A i \in 1..Len(h) : h[i] # EventOf(m)
    BY DEF TooLate, Recorded
  <2> HIDE DEF h, event
  <2>7. \A i \in 1..Len(h) + 1 : Append(h, event)[i] # EventOf(m)
    BY <2>4, <2>5, <2>6
  <2> QED BY <2>2, <2>5, <2>7 DEF Recorded
<1>5. ASSUME NEW n \in Message, LegalAppend(n), n.orderId # o
      PROVE  orders'[o] = orders[o]
  BY <1>5, MessageEvent, AppendedDocument DEF LegalAppend, TypeOK
<1>6. ASSUME LegalCreate PROVE orders'[o] = orders[o]
  BY <1>6, MessageEvent DEF LegalCreate, InsertOne, TypeOK, Collection, TooLate
<1> QED BY <1>2, <1>3, <1>4, <1>5, <1>6 DEF OrdersStep, TooLate

(* Why a late message never leaves the queue: once its order has the status it
   reports through another event, no retry, stray write or other message ever
   gets it into the history. *)
THEOREM TooLateForever ==
    ASSUME NEW m \in Message
    PROVE  Spec => [](TooLate(m) => []TooLate(m))
<1>1. IInv /\ [Next]_vars /\ TooLate(m) => TooLate(m)'
  BY StepOnOrders, TooLateStays DEF IInv
<1> QED BY <1>1, IInvariant, PTL DEF Spec

----------------------------------------------------------------------------
(* The abstract lifecycle is implemented *)

LEMMA StatusesOf ==
    ASSUME TypeOK, NEW o \in OrderIds, Stored(o)
    PROVE  /\ Len(Statuses(o)) = Len(orders[o].statusHistory)
           /\ Statuses(o) \in Seq(OrderStatus)
           /\ \A i \in 1..Len(orders[o].statusHistory) :
                 Statuses(o)[i] = orders[o].statusHistory[i].status
<1> DEFINE h == orders[o].statusHistory
           s == [i \in 1..Len(h) |-> h[i].status]
<1>1. h \in Seq(StatusEvent)
  BY DEF Stored, TypeOK, Collection, OrderDocument
<1>2. Statuses(o) = s
  BY DEF Statuses
<1> HIDE DEF h
<1>3. \A i \in 1..Len(h) : h[i].status \in OrderStatus
  <2> SUFFICES ASSUME NEW i \in 1..Len(h) PROVE h[i].status \in OrderStatus
    OBVIOUS
  <2>1. h[i] \in StatusEvent
    BY <1>1
  <2> QED BY <2>1 DEF StatusEvent
<1>4. s \in Seq(OrderStatus) /\ Len(s) = Len(h)
  <2>1. Len(h) \in Nat
    BY <1>1
  <2>2. s \in [1..Len(h) -> OrderStatus]
    BY <1>3
  <2> QED BY <2>1, <2>2, SeqDef
<1> QED BY <1>2, <1>4 DEF h

LEMMA LifecycleSimulation ==
    ASSUME TypeOK, TypeOK', LifecycleHistory, OrdersStep
    PROVE  [Abstract!Next]_([o \in OrderIds |-> Statuses(o)])
<1> DEFINE H == [o \in OrderIds |-> Statuses(o)]
<1>1. \A o \in OrderIds : orders'[o] = orders[o] => Statuses(o)' = Statuses(o)
  BY DEF Statuses, Stored
<1>2. CASE UNCHANGED orders
  BY <1>1, <1>2
<1>3. CASE LegalCreate
  <2>1. PICK o \in OrderIds, key \in RequestIds, hash \in PayloadHashes :
           ~Stored(o) /\ InsertOne(o, NewOrder(key, hash))
    BY <1>3 DEF LegalCreate
  <2>2. /\ orders'[o] = NewOrder(key, hash)
        /\ \A p \in OrderIds \ {o} : orders'[p] = orders[p]
    BY <2>1 DEF InsertOne, TypeOK, Collection
  <2>3. H[o] = << >>
    BY <2>1 DEF Statuses
  <2>4. Stored(o)' /\ Len(orders'[o].statusHistory) = 1
        /\ orders'[o].statusHistory[1].status = "PENDING_SHIPMENT"
    BY <2>2, NewDocument, CreatedEventIdAssumption, NoDocumentAssumption DEF Stored
  <2>5. Statuses(o)' = << "PENDING_SHIPMENT" >>
    <3>1. Statuses(o)' = [i \in 1..1 |-> orders'[o].statusHistory[i].status]
      BY <2>4 DEF Statuses
    <3>2. \A i \in 1..1 : i = 1
      OBVIOUS
    <3>3. Statuses(o)' = [i \in 1..1 |-> "PENDING_SHIPMENT"]
      BY <2>4, <3>1, <3>2
    <3> QED BY <3>3
  <2>6. H' = [H EXCEPT ![o] = << "PENDING_SHIPMENT" >>]
    BY <1>1, <2>2, <2>5
  <2>7. Abstract!Create(o)
    BY <2>3, <2>6 DEF Abstract!Create, Abstract!Lifecycle
  <2> QED BY <2>7 DEF Abstract!Next
<1>4. ASSUME NEW m \in Message, LegalAppend(m)
      PROVE  Abstract!Next
  <2> DEFINE o == m.orderId
             h == orders[o].statusHistory
             event == EventOf(m)
  <2>1. /\ o \in OrderIds /\ event \in StatusEvent /\ event.status = m.status
        /\ m.status \in CallbackStatus /\ Stored(o)
    BY <1>4, MessageEvent DEF LegalAppend
  <2>2. /\ orders'[o] \in OrderDocument
        /\ orders'[o].statusHistory = Append(h, event)
        /\ \A p \in OrderIds \ {o} : orders'[p] = orders[p]
    BY <1>4, <2>1, AppendedDocument DEF LegalAppend, TypeOK
  <2>3. orders[o] \in OrderDocument /\ h \in Seq(StatusEvent)
    BY <2>1 DEF Stored, TypeOK, Collection, OrderDocument
  <2>4. /\ Rank(orders[o].status) \in 1..2
        /\ Rank(m.status) = Rank(orders[o].status) + 1
        /\ Rank(orders[o].status) = Len(h)
    BY <1>4, <2>1, <2>3, TransitionRank
       DEF LegalAppend, OrderDocument, CallbackStatus, OrderStatus, LifecycleHistory
  <2>5. Len(h) \in 1..2 /\ m.status = Abstract!Lifecycle[Len(h) + 1]
    <3>1. Abstract!Lifecycle[2] = "SHIPPED" /\ Abstract!Lifecycle[3] = "DELIVERED"
      BY DEF Abstract!Lifecycle
    <3>2. Rank("SHIPPED") = 2 /\ Rank("DELIVERED") = 3
      BY DEF Rank
    <3>3. m.status = "SHIPPED" \/ m.status = "DELIVERED"
      BY <2>1 DEF CallbackStatus
    <3> HIDE DEF h
    <3>4. CASE m.status = "SHIPPED"
      <4>1. Len(h) = 1
        BY <2>4, <3>2, <3>4
      <4> QED BY <3>1, <3>4, <4>1
    <3>5. CASE m.status = "DELIVERED"
      <4>1. Len(h) = 2
        BY <2>4, <3>2, <3>5
      <4> QED BY <3>1, <3>5, <4>1
    <3> QED BY <3>3, <3>4, <3>5
  <2>6. Stored(o)'
    BY <2>2, NoDocumentAssumption DEF Stored
  <2>7. H[o] = [i \in 1..Len(h) |-> h[i].status]
    BY <2>1 DEF Statuses
  <2>8. Statuses(o)' = [i \in 1..Len(Append(h, event)) |-> Append(h, event)[i].status]
    BY <2>2, <2>6 DEF Statuses
  <2>9. H[o] \in Seq(OrderStatus) /\ Len(H[o]) = Len(h)
    BY <2>1, StatusesOf
  <2>10. Statuses(o)' = Append(H[o], m.status)
    <3> DEFINE s == [i \in 1..Len(h) |-> h[i].status]
    <3>1. /\ Len(Append(h, event)) = Len(h) + 1
          /\ Append(h, event)[Len(h) + 1] = event
          /\ \A i \in 1..Len(h) : Append(h, event)[i] = h[i]
      BY <2>1, <2>3
    <3>2. \A i \in 1..Len(h) + 1 :
             Append(h, event)[i].status = IF i = Len(h) + 1 THEN m.status ELSE s[i]
      <4>1. event.status = m.status
        BY <2>1
      <4>2. \A i \in 1..Len(h) : s[i] = h[i].status
        OBVIOUS
      <4>3. Len(h) \in Nat /\ Len(h) + 1 \notin 1..Len(h)
        BY <2>5
      <4>4. \A i \in 1..Len(h) + 1 : i # Len(h) + 1 => i \in 1..Len(h)
        BY <4>3
      <4> HIDE DEF h, s, event
      <4> QED BY <3>1, <4>1, <4>2, <4>3, <4>4
    <3>s. H[o] = s
      BY <2>7
    <3> HIDE DEF s
    <3>3. s \in Seq(OrderStatus) /\ Len(s) = Len(h) /\ m.status \in OrderStatus
      BY <2>1, <2>9, <3>s DEF CallbackStatus, OrderStatus
    <3>4. Append(s, m.status)
             = [i \in 1..Len(h) + 1 |-> IF i = Len(h) + 1 THEN m.status ELSE s[i]]
      <4> HIDE DEF h
      <4> QED BY <2>5, <3>3
    <3>5. Statuses(o)'
             = [i \in 1..Len(h) + 1 |-> IF i = Len(h) + 1 THEN m.status ELSE s[i]]
      <4> DEFINE longer == Append(h, event)
      <4>1. Statuses(o)' = [i \in 1..Len(longer) |-> longer[i].status]
        BY <2>8
      <4>2. Len(longer) = Len(h) + 1
        BY <3>1
      <4>3. \A i \in 1..Len(h) + 1 :
               longer[i].status = IF i = Len(h) + 1 THEN m.status ELSE s[i]
        BY <3>2
      <4> HIDE DEF longer, h
      <4> QED BY <4>1, <4>2, <4>3
    <3> QED BY <3>s, <3>4, <3>5, Zenon
  <2>11. H' = [H EXCEPT ![o] = Append(H[o], m.status)]
    BY <1>1, <2>1, <2>2, <2>10
  <2>12. Abstract!Advance(o)
    <3>1. Len(Abstract!Lifecycle) = 3
      BY DEF Abstract!Lifecycle
    <3>2. Len(H[o]) \in 1..Len(Abstract!Lifecycle) - 1
      BY <2>5, <2>9, <3>1
    <3>3. H' = [H EXCEPT ![o] = Append(H[o], Abstract!Lifecycle[Len(H[o]) + 1])]
      BY <2>5, <2>9, <2>11
    <3> HIDE DEF H, o
    <3> QED BY <3>2, <3>3 DEF Abstract!Advance, H
  <2> QED BY <2>1, <2>12 DEF Abstract!Next
<1> QED BY <1>2, <1>3, <1>4 DEF OrdersStep

LEMMA LifecycleInitially == Init => Abstract!Init
BY DEF Init, Abstract!Init, Statuses, Stored

(* Whatever the queue, its drains and its faults do, the histories in the
   collection take only the steps of OrderLifecycle. *)
THEOREM LifecycleImplemented == Spec => ImplementsLifecycle
<1>1. IInv /\ IInv' /\ [Next]_vars => [Abstract!Next]_([o \in OrderIds |-> Statuses(o)])
  BY StepOnOrders, LifecycleSimulation DEF IInv
<1> QED BY <1>1, IInvariant, LifecycleInitially, PTL DEF Spec, ImplementsLifecycle, Abstract!Spec

----------------------------------------------------------------------------
(* Only what Delivery reported is applied *)

(* A request with this message was answered 202. *)
Told(m) == \E c \in Callbacks : callback[c] = "202" /\ callbackMsg[c] = m

OnlyTold ==
    /\ \A m \in ToSet(statusQueue) : Told(m)
    /\ \A d \in Drains : drainPc[d] # "idle" => Told(drainMsg[d])
    /\ \A w \in strayWrites : Told(w.msg)

LEMMA ToldStays ==
    ASSUME TypeOK, [Next]_vars, NEW m, Told(m)
    PROVE  Told(m)'
<1>1. PICK c \in Callbacks : callback[c] = "202" /\ callbackMsg[c] = m
  BY DEF Told
<1> SUFFICES callback'[c] = "202" /\ callbackMsg'[c] = callbackMsg[c]
  BY <1>1 DEF Told
<1>2. ASSUME NEW b \in Callbacks, CallbackStep(b)
      PROVE  callback'[c] = "202" /\ callbackMsg'[c] = callbackMsg[c]
  BY <1>1, <1>2
     DEF CallbackStep, RefuseCallback, ValidateCallback, EnqueueCallback, TypeOK
<1>3. CASE Restart
  BY <1>1, <1>3 DEF Restart
<1>4. CASE UNCHANGED <<callback, callbackMsg>>
  BY <1>1, <1>4
<1> QED
  BY <1>2, <1>3, <1>4
     DEF Next, DrainStep, CreateOrder, Dequeue, Prepare, AppendEvent, Recheck, Requeue,
         DrainFault, StrayWriteLands, StrayWriteIsLost, ClearStatusQueue, CallbacksUnchanged,
         vars, updateVars

LEMMA OnlyToldStep ==
    ASSUME TypeOK, TypeOK', OnlyTold, [Next]_vars
    PROVE  OnlyTold'
<1> USE DEF OnlyTold
<1>t. \A m : Told(m) => Told(m)'
  BY ToldStays
<1>1. ASSUME NEW c \in Callbacks, EnqueueCallback(c) PROVE OnlyTold'
  <2>1. callbackMsg[c] \in Message
    BY <1>1 DEF EnqueueCallback, TypeOK
  <2>2. ToSet(statusQueue') = ToSet(statusQueue) \cup {callbackMsg[c]}
    BY <1>1, <2>1, AppendHolds DEF EnqueueCallback, TypeOK
  <2>3. \A m : m = callbackMsg[c] => Told(m)'
    BY <1>1 DEF EnqueueCallback, TypeOK, Told
  <2> QED BY <1>1, <1>t, <2>2, <2>3 DEF EnqueueCallback, DrainsUnchanged, Told
<1>2. ASSUME NEW d \in Drains, Dequeue(d) PROVE OnlyTold'
  <2>1. ToSet(statusQueue) = {Head(statusQueue)} \cup ToSet(statusQueue')
    BY <1>2, HeadTailHold DEF Dequeue, TypeOK
  <2>2. drainMsg'[d] = Head(statusQueue)
        /\ \A e \in Drains \ {d} : drainMsg'[e] = drainMsg[e] /\ drainPc'[e] = drainPc[e]
    BY <1>2 DEF Dequeue, TypeOK
  <2>3. \A e \in Drains : drainPc'[e] # "idle" => \E m : m = drainMsg'[e] /\ Told(m)
    BY <2>1, <2>2
  <2>4. UNCHANGED <<callback, callbackMsg, strayWrites>>
    BY <1>2 DEF Dequeue, CallbacksUnchanged
  <2> QED BY <2>1, <2>3, <2>4 DEF Told
<1>3. ASSUME NEW d \in Drains, Requeue(d) PROVE OnlyTold'
  <2>1. drainMsg[d] \in Message /\ Told(drainMsg[d])
    BY <1>3, HeldMessage DEF Requeue
  <2>2. ToSet(statusQueue') = ToSet(statusQueue) \cup {drainMsg[d]}
    BY <1>3, <2>1, AppendHolds DEF Requeue, TypeOK
  <2>3. /\ UNCHANGED <<callback, callbackMsg, strayWrites>>
        /\ drainPc'[d] = "idle"
        /\ \A e \in Drains \ {d} : drainMsg'[e] = drainMsg[e] /\ drainPc'[e] = drainPc[e]
    BY <1>3 DEF Requeue, CallbacksUnchanged, Finish, TypeOK
  <2> QED BY <2>1, <2>2, <2>3 DEF Told
<1>4. ASSUME NEW d \in Drains, Prepare(d) \/ AppendEvent(d) \/ Recheck(d) \/ DrainFault(d)
      PROVE  OnlyTold'
  <2>1. /\ UNCHANGED <<callback, callbackMsg, statusQueue>>
        /\ \A e \in Drains : drainPc'[e] # "idle" =>
              drainPc[e] # "idle" /\ drainMsg'[e] = drainMsg[e]
    BY <1>4 DEF Prepare, AppendEvent, Recheck, DrainFault, Finish, Fail, TypeOK,
                QueueUnchanged, CallbacksUnchanged
  <2>2. \A w \in strayWrites' : w \in strayWrites \/ (w = WriteOf(d) /\ drainPc[d] = "append")
    BY <1>4 DEF Prepare, AppendEvent, Recheck, DrainFault
  <2>3. \A w \in strayWrites' : Told(w.msg)
    BY <2>2 DEF WriteOf
  <2> QED BY <2>1, <2>3 DEF Told
<1>5. CASE Restart
  <2>1. \A w \in strayWrites' : Told(w.msg)
    BY <1>5 DEF Restart, WriteOf
  <2>2. ToSet(statusQueue') = {} /\ \A d \in Drains : drainPc'[d] = "idle"
    BY <1>5 DEF Restart, ToSet
  <2> QED BY <1>t, <2>1, <2>2 DEF Told
<1>6. ASSUME UNCHANGED <<drainPc, drainMsg>>, strayWrites' \subseteq strayWrites,
             statusQueue' = statusQueue \/ statusQueue' = << >>
      PROVE  OnlyTold'
  <2>1. ToSet(statusQueue') \subseteq ToSet(statusQueue)
    BY <1>6 DEF ToSet
  <2>2. \A m \in ToSet(statusQueue') : Told(m)'
    BY <1>t, <2>1
  <2>3. \A d \in Drains : drainPc'[d] # "idle" => Told(drainMsg[d])'
    BY <1>6, <1>t DEF Told
  <2>4. \A w \in strayWrites' : Told(w.msg)'
    BY <1>6, <1>t DEF Told
  <2> QED BY <2>2, <2>3, <2>4 DEF Told
<1> QED
  BY <1>1, <1>2, <1>3, <1>4, <1>5, <1>6
     DEF Next, CallbackStep, DrainStep, CreateOrder, RefuseCallback, ValidateCallback,
         StrayWriteLands, StrayWriteIsLost, ClearStatusQueue, QueueUnchanged, DrainsUnchanged,
         vars, updateVars

(* An entry after the first comes from an append of a reported message. *)
LEMMA AppliedStep ==
    ASSUME TypeOK, OnlyTold, AppliedWasAccepted, [Next]_vars
    PROVE  AppliedWasAccepted'
<1> DEFINE Reported(o, event) == \E m \in Message : Told(m) /\ m.orderId = o /\ event = EventOf(m)
           Entries(o) == \A i \in 2..Len(orders[o].statusHistory) :
                            Reported(o, orders[o].statusHistory[i])
<1>t. \A o, event : Reported(o, event) => Reported(o, event)'
  BY ToldStays
<1>0. ASSUME NEW o \in OrderIds, Stored(o) PROVE Entries(o)
  <2> SUFFICES ASSUME NEW i \in 2..Len(orders[o].statusHistory)
               PROVE  Reported(o, orders[o].statusHistory[i])
    OBVIOUS
  <2>1. PICK c \in Callbacks : /\ callback[c] = "202" /\ callbackMsg[c].orderId = o
                               /\ EventOf(callbackMsg[c]) = orders[o].statusHistory[i]
    BY <1>0 DEF AppliedWasAccepted
  <2>2. callbackMsg[c] \in Message
    BY <2>1 DEF TypeOK
  <2> QED BY <2>1, <2>2 DEF Told
<1> SUFFICES ASSUME NEW o \in OrderIds, Stored(o)', NEW i \in 2..Len(orders'[o].statusHistory)
             PROVE  Reported(o, orders[o].statusHistory[i])'
  BY DEF AppliedWasAccepted, Told
<1> HIDE DEF Reported
<1>1. ASSUME orders'[o] = orders[o]
      PROVE  Reported(o, orders[o].statusHistory[i])'
  <2>1. Reported(o, orders[o].statusHistory[i])
    BY <1>0, <1>1 DEF Stored
  <2> QED BY <1>1, <1>t, <2>1
<1>2. ASSUME NEW p \in OrderIds, NEW key \in RequestIds, NEW hash \in PayloadHashes,
             CreateOrder(p, key, hash)
      PROVE  Reported(o, orders[o].statusHistory[i])'
  <2>1. CASE p = o
    <3>1. orders'[o] = NewOrder(key, hash)
      BY <1>2, <2>1 DEF CreateOrder, InsertOne, TypeOK, Collection
    <3>2. Len(orders'[o].statusHistory) = 1
      BY <3>1, NewDocument
    <3> QED BY <3>2
  <2>2. CASE p # o
    BY <1>1, <1>2, <2>2 DEF CreateOrder, InsertOne, TypeOK, Collection
  <2> QED BY <2>1, <2>2
<1>3. ASSUME NEW m \in Message, Told(m), NEW v,
             AppendFilterMatches(m.orderId, EventOf(m), v),
             AppendStatusEvent(m.orderId, EventOf(m))
      PROVE  Reported(o, orders[o].statusHistory[i])'
  <2>1. CASE m.orderId # o
    BY <1>1, <1>3, <2>1, MessageEvent, AppendedDocument DEF AppendFilterMatches, TypeOK
  <2>2. CASE m.orderId = o
    <3> DEFINE h == orders[o].statusHistory
               event == EventOf(m)
    <3>1. Stored(o) /\ h \in Seq(StatusEvent) /\ event \in StatusEvent
      BY <1>3, <2>2, MessageEvent
         DEF AppendFilterMatches, Stored, TypeOK, Collection, OrderDocument
    <3>2. orders'[o].statusHistory = Append(h, event)
      BY <1>3, <2>2, <3>1, MessageEvent, AppendedDocument DEF TypeOK
    <3>3. Reported(o, event)
      BY <1>3, <2>2 DEF Reported
    <3>4. \A j \in 2..Len(h) : Reported(o, h[j])
      BY <1>0, <3>1
    <3> HIDE DEF h, event
    <3>5. Append(h, event)[i] = event \/ (i \in 2..Len(h) /\ Append(h, event)[i] = h[i])
      BY <3>1, <3>2
    <3>6. \E e : e = orders'[o].statusHistory[i] /\ Reported(o, e)
      BY <3>2, <3>3, <3>4, <3>5
    <3> QED BY <3>6, <1>t
  <2> QED BY <2>1, <2>2
<1>4. ASSUME NEW d \in Drains, AppendEvent(d)
      PROVE  Reported(o, orders[o].statusHistory[i])'
  <2>1. drainMsg[d] \in Message /\ Told(drainMsg[d])
    BY <1>4, HeldMessage DEF AppendEvent, OnlyTold
  <2> QED BY <1>1, <1>3, <1>4, <2>1 DEF AppendEvent
<1>5. ASSUME NEW w \in strayWrites, StrayWriteLands(w)
      PROVE  Reported(o, orders[o].statusHistory[i])'
  <2>1. w.msg \in Message /\ Told(w.msg)
    BY DEF OnlyTold, TypeOK, Write
  <2> QED BY <1>1, <1>3, <1>5, <2>1 DEF StrayWriteLands
<1>6. ASSUME UNCHANGED orders
      PROVE  Reported(o, orders[o].statusHistory[i])'
  BY <1>1, <1>6
<1> QED
  BY <1>2, <1>4, <1>5, <1>6
     DEF Next, CallbackStep, DrainStep, RefuseCallback, ValidateCallback, EnqueueCallback,
         Dequeue, Prepare, Recheck, Requeue, DrainFault, Restart, StrayWriteIsLost,
         ClearStatusQueue, vars, updateVars

(* Whatever a history records after creation, Delivery reported it for that order
   and was answered 202, before or after any restart. *)
THEOREM AppliedEventsWereAccepted == Spec => []AppliedWasAccepted
<1> DEFINE Inv == OnlyTold /\ AppliedWasAccepted
<1>1. Init => Inv
  <2>1. Init => ToSet(statusQueue) = {} /\ \A o \in OrderIds : ~Stored(o)
    BY DEF Init, ToSet, Stored
  <2> QED BY <2>1 DEF Init, OnlyTold, AppliedWasAccepted
<1>2. TypeOK /\ TypeOK' /\ Inv /\ [Next]_vars => Inv'
  BY OnlyToldStep, AppliedStep
<1>3. Inv => AppliedWasAccepted
  OBVIOUS
<1> HIDE DEF Inv
<1> QED BY <1>1, <1>2, <1>3, TypeCorrect, PTL DEF Spec

----------------------------------------------------------------------------
(* No more copies of a message than requests that carried it *)

Queued(m) == Cardinality(Places(statusQueue, m))
Held(m) == Cardinality({d \in Drains : drainMsg[d] = m})
Carriers(m) == {c \in Callbacks : callback[c] = "202" /\ callbackMsg[c] = m}

(* NoMessageForged, for the messages that have no copy too. *)
CopiesCounted == \A m \in Message : Queued(m) + Held(m) <= Cardinality(Carriers(m))

LEMMA CountsAreNatural ==
    ASSUME TypeOK, NEW m
    PROVE  /\ Queued(m) \in Nat
           /\ Held(m) \in Nat
           /\ IsFiniteSet(Carriers(m)) /\ Cardinality(Carriers(m)) \in Nat
<1>1. Queued(m) \in Nat
  BY PlacesFinite DEF Queued, TypeOK
<1>2. {d \in Drains : drainMsg[d] = m} \in SUBSET Drains /\ Carriers(m) \in SUBSET Callbacks
  BY DEF Carriers
<1>3. IsFiniteSet({d \in Drains : drainMsg[d] = m}) /\ IsFiniteSet(Carriers(m))
  BY <1>2, ActorsAssumption, FS_Subset
<1> QED BY <1>1, <1>3, FS_CardinalityType DEF Held

(* A request answered 202 stays one. *)
LEMMA CarriersStay ==
    ASSUME TypeOK, TypeOK', [Next]_vars, NEW m
    PROVE  Cardinality(Carriers(m)) <= Cardinality(Carriers(m)')
<1>1. ASSUME NEW c \in Carriers(m) PROVE c \in Carriers(m)'
  <2>1. c \in Callbacks /\ callback[c] = "202" /\ callbackMsg[c] = m
    BY <1>1 DEF Carriers
  <2> SUFFICES callback'[c] = "202" /\ callbackMsg'[c] = callbackMsg[c]
    BY <2>1 DEF Carriers
  <2>2. ASSUME NEW b \in Callbacks, CallbackStep(b)
        PROVE  callback'[c] = "202" /\ callbackMsg'[c] = callbackMsg[c]
    BY <2>1, <2>2
       DEF CallbackStep, RefuseCallback, ValidateCallback, EnqueueCallback, TypeOK
  <2>3. CASE Restart
    BY <2>1, <2>3 DEF Restart
  <2>4. CASE UNCHANGED <<callback, callbackMsg>>
    BY <2>1, <2>4
  <2> QED
    BY <2>2, <2>3, <2>4
       DEF Next, DrainStep, CreateOrder, Dequeue, Prepare, AppendEvent, Recheck, Requeue,
           DrainFault, StrayWriteLands, StrayWriteIsLost, ClearStatusQueue,
           CallbacksUnchanged, vars, updateVars
<1>2. IsFiniteSet(Carriers(m)')
  BY CountsAreNatural, ActorsAssumption, FS_Subset DEF Carriers
<1>3. Carriers(m) \in SUBSET (Carriers(m)')
  BY <1>1
<1> QED BY <1>2, <1>3, FS_Subset

LEMMA DrainsCounted ==
    ASSUME NEW d \in Drains, NEW m, NEW f, NEW g, \A e \in Drains \ {d} : g[e] = f[e]
    PROVE  Cardinality(Holders(Drains, g, m)) + One(f[d], m)
             = Cardinality(Holders(Drains, f, m)) + One(g[d], m)
<1>1. IsFiniteSet(Drains)
  BY ActorsAssumption
<1> QED BY <1>1, UpdateCounts

(* A message that comes into a drain leaves the queue, and the other way round;
   only a request that is answered 202 adds a copy. *)
LEMMA CopiesStep ==
    ASSUME TypeOK, TypeOK', CopiesCounted, [Next]_vars
    PROVE  CopiesCounted'
<1> SUFFICES ASSUME NEW m \in Message
             PROVE  Queued(m)' + Held(m)' <= Cardinality(Carriers(m)')
  BY DEF CopiesCounted
<1> m # NoMessage
  BY NoMessageAssumption
<1>0. Queued(m) + Held(m) <= Cardinality(Carriers(m))
  BY DEF CopiesCounted
<1>n. /\ Queued(m) \in Nat /\ Held(m) \in Nat
      /\ IsFiniteSet(Carriers(m)) /\ Cardinality(Carriers(m)) \in Nat
  BY CountsAreNatural
<1>p. /\ Queued(m)' \in Nat /\ Held(m)' \in Nat
      /\ IsFiniteSet(Carriers(m)') /\ Cardinality(Carriers(m)') \in Nat
  <2>1. Queued(m)' \in Nat
    BY PlacesFinite DEF Queued, TypeOK
  <2>2. /\ {d \in Drains : drainMsg'[d] = m} \in SUBSET Drains
        /\ Carriers(m)' \in SUBSET Callbacks
    BY DEF Carriers
  <2>3. IsFiniteSet({d \in Drains : drainMsg'[d] = m}) /\ IsFiniteSet(Carriers(m)')
    BY <2>2, ActorsAssumption, FS_Subset
  <2> QED BY <2>1, <2>3, FS_CardinalityType DEF Held
<1>s. Cardinality(Carriers(m)) <= Cardinality(Carriers(m)')
  BY CarriersStay
(* Emptying the queue or a hand leaves no more copies than there were. *)
<1>e. ASSUME Queued(m)' + Held(m)' <= Queued(m) + Held(m)
      PROVE  Queued(m)' + Held(m)' <= Cardinality(Carriers(m)')
  BY <1>0, <1>n, <1>p, <1>s, <1>e
<1>q. statusQueue' = statusQueue => Queued(m)' = Queued(m)
  BY DEF Queued
<1>c. statusQueue' = << >> => Queued(m)' = 0
  <2> SUFFICES ASSUME statusQueue' = << >> PROVE Queued(m)' = 0
    OBVIOUS
  <2>1. Places(statusQueue, m)' = {}
    BY DEF Places
  <2> QED BY <2>1, FS_EmptySet DEF Queued
<1>h. drainMsg' = drainMsg => Held(m)' = Held(m)
  BY DEF Held
(* What one drain does to the copies in hand. *)
<1>d. ASSUME NEW d \in Drains, \A e \in Drains \ {d} : drainMsg'[e] = drainMsg[e]
      PROVE  Held(m)' + One(drainMsg[d], m) = Held(m) + One(drainMsg'[d], m)
  <2>2. Cardinality(Holders(Drains, drainMsg', m)) + One(drainMsg[d], m)
          = Cardinality(Holders(Drains, drainMsg, m)) + One(drainMsg'[d], m)
    BY <1>d, DrainsCounted
  <2> QED BY <2>2 DEF Held, Holders
<1>1. ASSUME NEW c \in Callbacks, EnqueueCallback(c)
      PROVE  Queued(m)' + Held(m)' <= Cardinality(Carriers(m)')
  <2>1. callbackMsg[c] \in Message /\ callback[c] = "validated"
    BY <1>1 DEF EnqueueCallback, TypeOK
  <2>2. Queued(m)' = Queued(m) + One(callbackMsg[c], m)
    BY <1>1, <2>1, AppendCounts DEF EnqueueCallback, TypeOK, Queued
  <2>3. Held(m)' = Held(m)
    BY <1>1, <1>h DEF EnqueueCallback, DrainsUnchanged
  <2>4. CASE callbackMsg[c] = m
    <3>1. Carriers(m)' = Carriers(m) \cup {c} /\ c \notin Carriers(m)
      BY <1>1, <2>1, <2>4 DEF EnqueueCallback, Carriers, TypeOK
    <3>2. Cardinality(Carriers(m)') = Cardinality(Carriers(m)) + 1
      BY <1>n, <3>1, FS_AddElement
    <3> QED BY <1>0, <1>n, <2>2, <2>3, <2>4, <3>2 DEF One
  <2>5. CASE callbackMsg[c] # m
    BY <1>e, <1>n, <2>2, <2>3, <2>5 DEF One
  <2> QED BY <2>4, <2>5
<1>2. ASSUME NEW d \in Drains, Dequeue(d)
      PROVE  Queued(m)' + Held(m)' <= Cardinality(Carriers(m)')
  <2>1. Queued(m) = Queued(m)' + One(Head(statusQueue), m)
    BY <1>2, TailCounts DEF Dequeue, TypeOK, Queued
  <2>2. /\ drainMsg[d] = NoMessage /\ drainMsg'[d] = Head(statusQueue)
        /\ \A e \in Drains \ {d} : drainMsg'[e] = drainMsg[e]
    BY <1>2 DEF Dequeue, TypeOK
  <2>3. Held(m)' = Held(m) + One(Head(statusQueue), m)
    BY <1>d, <1>n, <1>p, <2>2 DEF One
  <2> QED BY <1>e, <1>n, <1>p, <2>1, <2>3 DEF One
<1>3. ASSUME NEW d \in Drains, Requeue(d)
      PROVE  Queued(m)' + Held(m)' <= Cardinality(Carriers(m)')
  <2>1. drainMsg[d] \in Message
    BY <1>3, HeldMessage DEF Requeue
  <2>2. Queued(m)' = Queued(m) + One(drainMsg[d], m)
    BY <1>3, <2>1, AppendCounts DEF Requeue, TypeOK, Queued
  <2>3. /\ drainMsg'[d] = NoMessage
        /\ \A e \in Drains \ {d} : drainMsg'[e] = drainMsg[e]
    BY <1>3 DEF Requeue, Finish, TypeOK
  <2>4. Held(m)' + One(drainMsg[d], m) = Held(m)
    BY <1>d, <1>n, <2>3 DEF One
  <2> QED BY <1>e, <1>n, <1>p, <2>2, <2>4 DEF One
<1>4. ASSUME NEW d \in Drains, Prepare(d) \/ AppendEvent(d) \/ Recheck(d) \/ DrainFault(d)
      PROVE  Queued(m)' + Held(m)' <= Cardinality(Carriers(m)')
  <2>1. /\ statusQueue' = statusQueue
        /\ drainMsg'[d] \in {drainMsg[d], NoMessage}
        /\ \A e \in Drains \ {d} : drainMsg'[e] = drainMsg[e]
    BY <1>4 DEF Prepare, AppendEvent, Recheck, DrainFault, Finish, Fail, TypeOK,
                QueueUnchanged
  <2>2. Held(m)' <= Held(m)
    BY <1>d, <1>n, <1>p, <2>1 DEF One
  <2> QED BY <1>e, <1>n, <1>p, <1>q, <2>1, <2>2
<1>5. CASE Restart
  <2>1. {d \in Drains : drainMsg'[d] = m} = {}
    BY <1>5 DEF Restart
  <2>2. Held(m)' = 0
    BY <2>1, FS_EmptySet DEF Held
  <2> QED BY <1>5, <1>c, <1>p, <2>2 DEF Restart
<1>6. ASSUME drainMsg' = drainMsg, statusQueue' = statusQueue \/ statusQueue' = << >>
      PROVE  Queued(m)' + Held(m)' <= Cardinality(Carriers(m)')
  BY <1>c, <1>e, <1>h, <1>n, <1>q, <1>6
<1> QED
  BY <1>1, <1>2, <1>3, <1>4, <1>5, <1>6
     DEF Next, CallbackStep, DrainStep, CreateOrder, RefuseCallback, ValidateCallback,
         StrayWriteLands, StrayWriteIsLost, ClearStatusQueue, QueueUnchanged, DrainsUnchanged,
         vars, updateVars

(* Drains that overlap never share or copy a message: of each content there are at
   most as many messages as requests were accepted with it. *)
THEOREM NoMessageIsForged == Spec => []NoMessageForged
<1>1. Init => CopiesCounted
  <2> SUFFICES ASSUME Init, NEW m \in Message
               PROVE  Queued(m) + Held(m) <= Cardinality(Carriers(m))
    BY DEF CopiesCounted
  <2>1. Places(statusQueue, m) = {} /\ {d \in Drains : drainMsg[d] = m} = {}
    BY NoMessageAssumption DEF Init, Places
  <2>2. Carriers(m) = {}
    BY DEF Init, Carriers
  <2> QED BY <2>1, <2>2, FS_EmptySet DEF Queued, Held
<1>2. TypeOK /\ TypeOK' /\ CopiesCounted /\ [Next]_vars => CopiesCounted'
  BY CopiesStep
<1>3. TypeOK /\ CopiesCounted => NoMessageForged
  <2> SUFFICES ASSUME TypeOK, CopiesCounted, NEW m \in ToSet(statusQueue) \cup InFlight
               PROVE  Queued(m) + Held(m) <= Cardinality(Carriers(m))
    BY DEF NoMessageForged, Queued, Held, Carriers, Places
  <2>1. m \in Message
    BY ToSetElements DEF InFlight, TypeOK
  <2> QED BY <2>1 DEF CopiesCounted
<1> QED BY <1>1, <1>2, <1>3, TypeCorrect, PTL DEF Spec
============================================================================
