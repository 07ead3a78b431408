SPECIFICATION MCSpec
CONSTANTS
  r1 = r1
  r2 = r2
  r3 = r3
  v1 = v1
  v2 = v2
  Records = {r1, r2, r3}
  Usable = {r1, r2}
  Times = {1, 2}
  TsOf <- MCTsOf
  Vehicles = {v1, v2}
  NoVehicle = NoVehicle
  Conns = {1, 2}
  NoConn = NoConn
  MaxPacket = 2
  MaxEdits = 1
  MaxFaults = 1
INVARIANTS
  TypeOK
PROPERTIES
  ContractSpec
  UploadsDrain
