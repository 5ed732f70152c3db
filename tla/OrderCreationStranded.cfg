CONSTANTS
  OrderIds = {o1, o2}
  RequestIds <- MCRequestIds
  PayloadHashes <- MCPayloadHashes
  EventIds <- MCEventIds
  ShipmentIds = {s1}
  Requests = {r1, r2}
  Payloads <- MCPayloads
  MaxFaults = 1
  NoDocument = NoDocument
  NoShipment = NoShipment
  None = None
  alice = alice
  k1 = k1
  k2 = k2
SPECIFICATION FairSpec
CHECK_DEADLOCK FALSE
PROPERTIES
  NoStrandedOrder
