SPECIFICATION MCSpec
CONSTANTS
  S1 = S1
  V1 = V1
  Conns = {C1, C2, C3}
  NoConn = NoConn
  MaxConns = 2
  Serials = {S1, S2}
  Blank = Blank
  Vehicles = {V1}
  NoVehicle = NoVehicle
  MaxFrames = 2
  MaxEdits = 1
  MaxFaults = 1
INVARIANTS
  TypeOK
  SlotsMatchConnections
  FramesStayWithTheirDevice
PROPERTIES
  ServerContract
  SlotsComeBack
CHECK_DEADLOCK FALSE
