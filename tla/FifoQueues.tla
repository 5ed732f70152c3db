----------------------------- MODULE FifoQueues -----------------------------
(***************************************************************************)
(* What producers and consumers are promised of the queues: one independent *)
(* FIFO queue per name.  A consumer takes the oldest message of its queue;   *)
(* a message whose handler fails goes to the back of the queue it came from; *)
(* clearing a queue removes what is in it and nothing else.                  *)
(***************************************************************************)
EXTENDS Sequences

CONSTANTS Queues, Payloads, Consumers, Nothing

VARIABLES
    queue,      \* the payloads of each queue, oldest first
    serving     \* what each consumer is handling, with the queue it is from

Init ==
    /\ queue = [q \in Queues |-> << >>]
    /\ serving = [c \in Consumers |-> Nothing]

Send(q, p) ==
    /\ queue' = [queue EXCEPT ![q] = Append(queue[q], p)]
    /\ UNCHANGED serving

Take(c, q) ==
    /\ serving[c] = Nothing
    /\ queue[q] # << >>
    /\ serving' = [serving EXCEPT ![c] = [queueName |-> q, payload |-> Head(queue[q])]]
    /\ queue' = [queue EXCEPT ![q] = Tail(queue[q])]

Done(c) ==
    /\ serving[c] # Nothing
    /\ serving' = [serving EXCEPT ![c] = Nothing]
    /\ UNCHANGED queue

PutBack(c) ==
    /\ serving[c] # Nothing
    /\ LET q == serving[c].queueName
       IN  queue' = [queue EXCEPT ![q] = Append(queue[q], serving[c].payload)]
    /\ serving' = [serving EXCEPT ![c] = Nothing]

Clear(q) ==
    /\ queue' = [queue EXCEPT ![q] = << >>]
    /\ UNCHANGED serving

Next ==
    \/ \E q \in Queues : Clear(q) \/ \E p \in Payloads : Send(q, p)
    \/ \E c \in Consumers : Done(c) \/ PutBack(c) \/ \E q \in Queues : Take(c, q)

Spec == Init /\ [][Next]_<<queue, serving>>
=============================================================================
