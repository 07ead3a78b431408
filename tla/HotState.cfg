SPECIFICATION Spec
CONSTANTS
  Vehicles = {v1}
  NoVehicle = NoVehicle
  Handlers = {h1, h2}
  NoHandler = NoHandler
  Times = {1, 2}
  NeverSeen = NeverSeen
  Speeds = {4, 5}
  MovingThreshold = 5
  EventBus = TRUE
  MaxFaults = 2
INVARIANTS
  TypeOK
  LockHasOwner
  RegistryAnnounced
PROPERTIES
  MaintenanceKept
