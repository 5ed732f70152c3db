CONSTANTS
  OrderIds = {o1, o2}
  RequestIds <- MCRequestIds
  PayloadHashes <- MCPayloadHashes
  EventIds <- MCEventIds
  ShipmentIds = {s1, s2, s3}
  Requests = {r1, r2}
  Payloads <- MCPayloads
  Callbacks = {c1}
  Drains = {d1}
  Workers = {w1}
  Undeliverable = {}
  MaxRetries = 0
  MaxFaults = 1
  NoDocument = NoDocument
  NoShipment = NoShipment
  NoMessage = NoMessage
  NoOrder = NoOrder
  None = None
  k1 = k1
  e1 = e1
SPECIFICATION FairSpec
CHECK_DEADLOCK FALSE
PROPERTIES
  ImplementsCreation
  ImplementsUpdates
  ImplementsShipment
  CreatedIsShipped
