SPECIFICATION FairSpec
CONSTANTS
  s1 = s1
  s2 = s2
  v1 = v1
  p1 = p1
  p2 = p2
  Publishers = {p1, p2}
  Subs = {s1, s2}
  v2 = v2
  Vehicles = {v1, v2}
  VehicleOf <- MCVehicleOf
  Fleet = Fleet
  Wants <- MCWants
  BrokerCap = 1
  HubCap = 1
  MaxPings <- MCMaxPings
INVARIANTS
  TypeOK
  NoSendOnClosed
  FeedIsFaithful
PROPERTIES
  NobodyWaitsForAClient
CHECK_DEADLOCK FALSE
