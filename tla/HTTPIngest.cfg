SPECIFICATION MCFairSpec
CONSTANTS
  d1 = d1
  d2 = d2
  k1 = k1
  k2 = k2
  v1 = v1
  v2 = v2
  p1 = p1
  p2 = p2
  p3 = p3
  p4 = p4
  h1 = h1
  h2 = h2
  ip1 = ip1
  ip2 = ip2
  NoVehicle = NoVehicle
  NoTime = NoTime
  NoKey = NoKey
  NoIP = NoIP
  Never = Never
  Pings = {p1, p2, p3, p4}
  Body <- MCBody
  Batches <- MCBatches
  Vehicles = {v1, v2}
  Devices = {d1, d2}
  Keys = {k1, k2}
  Requests = {h1, h2}
  IPOf <- MCIPOf
  MaxBatch = 2
  MaxAge = 1
  MaxAhead = 1
  Interval = 1
  MaxNow = 2
  MaxEdits = 1
  MaxFaults = 1
CHECK_DEADLOCK FALSE
INVARIANTS
  TypeOK
  LastSeenIsFresh
PROPERTIES
  WritesArePermitted
  ContractSpec
  BatchesSettle
