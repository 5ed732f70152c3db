CONSTANTS
  OrderIds <- MCOrderIds
  RequestIds <- MCRequestIds
  PayloadHashes = {h1}
  EventIds <- MCEventIds
  ShipmentIds = {s1, s2, s3, s4}
  Workers = {w1, w2}
  Undeliverable <- MCUndeliverable
  MaxRetries = 1
  MaxFaults = 2
  NoDocument = NoDocument
  NoShipment = NoShipment
  NoOrder = NoOrder
  o1 = o1
  o2 = o2
  o3 = o3
  k1 = k1
  k2 = k2
SPECIFICATION FairSpec
CHECK_DEADLOCK FALSE
INVARIANTS
  TypeOK
  SoleHandler
  DueIsHandled
  DuplicatesNeedFaults
PROPERTIES
  ImplementsLedger
  DueIsShipped
