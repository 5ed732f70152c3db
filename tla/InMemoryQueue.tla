---------------------------- MODULE InMemoryQueue ----------------------------
(***************************************************************************)
(* The queue store of outbound-event-service.ts: one array of messages, each *)
(* tagged with the name of its queue, behind both queues of the service; the *)
(* client that sends to it; and the consumers, whose consumeOne takes a       *)
(* message out of the array before its handler runs and appends it again      *)
(* when the handler throws.                                                  *)
(*                                                                           *)
(* The store has no awaits, so each of its operations is atomic; a handler    *)
(* awaits, so everything can happen while it has its message.  The handlers  *)
(* are those of modules StatusUpdates and Shipment; here they return or throw. *)
(***************************************************************************)
EXTENDS Naturals, SequencesExt

CONSTANTS
    Queues,         \* the queue names
    Payloads,       \* messages that get sent, each of them once
    Consumers,      \* drains that can be under way at once
    QueueOf,        \* the queue each of them drains
    Poison,         \* payloads whose handler always throws
    Nothing,        \* what an idle consumer handles
    MaxFailures     \* bound on the other failures of handlers

VARIABLES
    messages,       \* the array
    serving,        \* the message each consumer has in its handler
    sent,           \* history: the messages in the order they were sent
    started,        \* history: payloads that have reached a handler
    handled,        \* history: payloads whose handler returned
    cleared,        \* history: payloads discarded by a clear
    failures        \* failures so far, those of poison apart

historyVars == <<sent, started, handled, cleared>>
vars == <<messages, serving, historyVars, failures>>

----------------------------------------------------------------------------
(* States *)

QueueMessage == [queueName : Queues, payload : Payloads]

ASSUME QueueOfAssumption == QueueOf \in [Consumers -> Queues]
ASSUME NothingAssumption == Nothing \notin QueueMessage
ASSUME MaxFailuresAssumption == MaxFailures \in Nat

Idle(c) == serving[c] = Nothing

(* A consumer only ever has a message of its own queue. *)
TypeOK ==
    /\ messages \in Seq(QueueMessage)
    /\ serving \in [Consumers -> QueueMessage \cup {Nothing}]
    /\ \A c \in Consumers : ~Idle(c) => serving[c].queueName = QueueOf[c]
    /\ sent \in Seq(QueueMessage)
    /\ started \in SUBSET Payloads
    /\ handled \in SUBSET Payloads
    /\ cleared \in SUBSET Payloads
    /\ failures \in 0..MaxFailures

Init ==
    /\ messages = << >>
    /\ serving = [c \in Consumers |-> Nothing]
    /\ sent = << >>
    /\ started = {}
    /\ handled = {}
    /\ cleared = {}
    /\ failures = 0

----------------------------------------------------------------------------
(* The store *)

(* store.enqueue pushes. *)
Enqueue(msg) == messages' = Append(messages, msg)

(* Faulty variant: the newest message of the queue. *)
LastIndex(q) == SelectLastInSeq(messages, LAMBDA msg : msg.queueName = q)

(* Faulty variant: any message will do. *)
AnyIndex(q) == IF messages = << >> THEN 0 ELSE 1

(* findIndex with the consumer's predicate: 0 when the queue is empty. *)
FirstIndex(q) == SelectInSeq(messages, LAMBDA msg : msg.queueName = q)

(* Faulty variant: the message is found and left where it is. *)
KeepAt(i) == UNCHANGED messages

(* splice(idx, 1) *)
TakeOut(i) == messages' = RemoveAt(messages, i)

(* Faulty variant: the whole array is reset. *)
WithoutAny(q) == << >>

(* The k-th of a set of positions. *)
Nth(I, k) == CHOOSE i \in I : Cardinality({j \in I : j <= i}) = k

(* Array.filter: the elements of s that are in keep, in their order. *)
Filter(s, keep) ==
    LET I == {i \in 1..Len(s) : s[i] \in keep}
    IN  [k \in 1..Cardinality(I) |-> s[Nth(I, k)]]

OfQueue(q) == {msg \in QueueMessage : msg.queueName = q}

(* clearQueue keeps the messages of the other queues. *)
Without(q) == Filter(messages, QueueMessage \ OfQueue(q))

----------------------------------------------------------------------------
(* The client and the consumers *)

IsSent(p) == \E i \in 1..Len(sent) : sent[i].payload = p

(* sendMessage *)
SendMessage(q, p) ==
    LET msg == [queueName |-> q, payload |-> p]
    IN  /\ ~IsSent(p)
        /\ Enqueue(msg)
        /\ sent' = Append(sent, msg)
        /\ UNCHANGED <<serving, started, handled, cleared, failures>>

(* consumeOne up to the handler's first await.  An empty queue is no step. *)
ConsumeOne(c) ==
    LET i == FirstIndex(QueueOf[c])
    IN  /\ Idle(c)
        /\ i # 0
        /\ TakeOut(i)
        /\ serving' = [serving EXCEPT ![c] = messages[i]]
        /\ started' = started \cup {messages[i].payload}
        /\ UNCHANGED <<sent, handled, cleared, failures>>

(* The handler returned. *)
HandlerReturns(c) ==
    /\ ~Idle(c)
    /\ serving[c].payload \notin Poison
    /\ serving' = [serving EXCEPT ![c] = Nothing]
    /\ handled' = handled \cup {serving[c].payload}
    /\ UNCHANGED <<messages, sent, started, cleared, failures>>

(* Faulty variant: the message goes back to the front. *)
EnqueueFirst(msg) == messages' = <<msg>> \o messages

(* consumeOne's catch appends the message again. *)
PutBack(msg) == Enqueue(msg)

HandlerThrows(c) ==
    /\ ~Idle(c)
    /\ \/ serving[c].payload \in Poison /\ UNCHANGED failures
       \/ /\ serving[c].payload \notin Poison
          /\ failures < MaxFailures
          /\ failures' = failures + 1
    /\ PutBack(serving[c])
    /\ serving' = [serving EXCEPT ![c] = Nothing]
    /\ UNCHANGED historyVars

(* DELETE on one of the queues. *)
ClearQueue(q) ==
    /\ messages # << >>
    /\ messages' = Without(q)
    /\ cleared' = cleared \cup {messages[i].payload :
                        i \in {j \in 1..Len(messages) : messages[j].queueName = q}}
    /\ UNCHANGED <<serving, sent, started, handled, failures>>

----------------------------------------------------------------------------
(* The specification *)

(* What a handler does unless something fails: poison throws. *)
HandlerSettles(c) ==
    \/ HandlerReturns(c)
    \/ ~Idle(c) /\ serving[c].payload \in Poison /\ HandlerThrows(c)

Next ==
    \/ \E q \in Queues : ClearQueue(q) \/ \E p \in Payloads : SendMessage(q, p)
    \/ \E c \in Consumers : ConsumeOne(c) \/ HandlerReturns(c) \/ HandlerThrows(c)

Spec == Init /\ [][Next]_vars

(* The timer keeps draining, and handlers settle. *)
Fairness == \A c \in Consumers : WF_vars(ConsumeOne(c) \/ HandlerSettles(c))

FairSpec == Spec /\ Fairness

----------------------------------------------------------------------------
(* Properties *)

Copies(p) ==
    Cardinality({i \in 1..Len(messages) : messages[i].payload = p})
      + Cardinality({c \in Consumers : ~Idle(c) /\ serving[c].payload = p})

(* Nothing is lost or doubled while consumers of both queues, failures and clears
   interleave: a message that was sent is in one place, once, or its handler
   returned, or its own queue was cleared. *)
EachMessageOnce ==
    \A i \in 1..Len(sent) :
        LET p == sent[i].payload
        IN  Copies(p) = IF p \in handled \cup cleared THEN 0 ELSE 1

(* Messages of a queue reach a handler for the first time in the order they were
   sent, however the other queue is drained and whatever fails: none is
   overtaken by a younger one before it was tried, unless it was discarded. *)
TriedInOrder ==
    \A j \in 1..Len(sent) : \A i \in 1..j-1 :
        (/\ sent[i].queueName = sent[j].queueName
         /\ sent[j].payload \in started)
            => sent[i].payload \in started \cup cleared

(* The one array behaves as an independent FIFO queue per name. *)
PayloadsOf(q) ==
    LET own == Filter(messages, OfQueue(q))
    IN  [i \in 1..Len(own) |-> own[i].payload]

Queued == INSTANCE FifoQueues WITH queue <- [q \in Queues |-> PayloadsOf(q)]

ImplementsFifoQueues == Queued!Spec

(* A message is handled in the end unless it is poison or discarded: messages
   that always fail hold up neither their own queue nor the other one. *)
EventuallyHandled ==
    \A p \in Payloads \ Poison : IsSent(p) ~> p \in handled \cup cleared
============================================================================
