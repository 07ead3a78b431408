SPECIFICATION FairSpec
CONSTANTS
  d1 = d1
  d2 = d2
  h1 = h1
  h2 = h2
  v1 = v1
  v2 = v2
  c1 = c1
  c2 = c2
  Devices = {d1}
  Vehicles = {v1, v2}
  NoVehicle = NoVehicle
  NoDevice = NoDevice
  Handlers = {h1}
  st901 = st901
  unknown = unknown
  Models = {st901, unknown}
  ModelOf <- MCModelOf
  Encoders <- MCEncoders
  CommandsEnabled = TRUE
  Commands = {c1}
  NoCommand = NoCommand
  Speeds = {5, 6}
  NoSpeed = NoSpeed
  TTLs = {0}
  MaxSpeedKmh = 5
  MaxFixAge = 1
  MaxQueueAge = 1
  ClockSkew = 0
  MaxTime = 2
  MaxFaults = 2
PROPERTIES
  InterlockRunsAtDelivery
