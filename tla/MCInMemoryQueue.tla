--------------------------- MODULE MCInMemoryQueue ---------------------------
(* The two queues of the service, one with two overlapping drains and one with a
   single drain; one of the three messages is poison. *)
EXTENDS InMemoryQueue

CONSTANTS created, status, c1, c2, c3, p1, p2, p3

MCQueues == {created, status}
MCConsumers == {c1, c2, c3}
MCQueueOf == (c1 :> created) @@ (c2 :> status) @@ (c3 :> status)
MCPayloads == {p1, p2, p3}
MCPoison == {p3}

(* Filter is SelectSeq, on every array of up to three messages. *)
ASSUME FilterIsSelectSeq ==
    \A n \in 0..3 : \A s \in [1..n -> QueueMessage] : \A q \in Queues :
        Filter(s, OfQueue(q)) = SelectSeq(s, LAMBDA msg : msg.queueName = q)
============================================================================
