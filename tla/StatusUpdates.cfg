CONSTANTS
  OrderIds = {o1, o2}
  RequestIds <- MCRequestIds
  PayloadHashes = {h1}
  EventIds <- MCEventIds
  ShipmentIds = {s1}
  Callbacks = {c1, c2, c3}
  Drains = {d1, d2}
  MaxFaults = 1
  NoDocument = NoDocument
  NoShipment = NoShipment
  NoMessage = NoMessage
  e1 = e1
  e2 = e2
  k1 = k1
SPECIFICATION FairSpec
CHECK_DEADLOCK FALSE
INVARIANTS
  TypeOK
  LifecycleHistory
  EventsAppliedOnce
  WritesGuarded
  NeverAhead
  AcceptedSurvives
  NoMessageForged
  AppliedWasAccepted
PROPERTIES
  ImplementsLifecycle
  AcceptedStatusReached
