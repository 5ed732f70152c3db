CONSTANTS
  OrderIds = {o1, o2, o3}
  RequestIds <- MCRequestIds
  PayloadHashes <- MCPayloadHashes
  EventIds <- MCEventIds
  ShipmentIds = {s1}
  Requests = {r1, r2, r3}
  Payloads <- MCPayloads
  MaxFaults = 0
  NoDocument = NoDocument
  NoShipment = NoShipment
  None = None
  alice = alice
  k1 = k1
  k2 = k2
SPECIFICATION Spec
CHECK_DEADLOCK FALSE
INVARIANTS
  DocumentedReplies
