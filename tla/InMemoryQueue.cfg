CONSTANTS
  Queues <- MCQueues
  Payloads <- MCPayloads
  Consumers <- MCConsumers
  QueueOf <- MCQueueOf
  Poison <- MCPoison
  MaxFailures = 2
  Nothing = Nothing
  created = created
  status = status
  c1 = c1
  c2 = c2
  c3 = c3
  p1 = p1
  p2 = p2
  p3 = p3
SPECIFICATION FairSpec
CHECK_DEADLOCK FALSE
INVARIANTS
  TypeOK
  EachMessageOnce
  TriedInOrder
PROPERTIES
  ImplementsFifoQueues
  EventuallyHandled
