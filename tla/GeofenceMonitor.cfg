SPECIFICATION MCSpec
CONSTANTS
  v1 = v1
  v2 = v2
  n1 = n1
  n2 = n2
  here = here
  gateway = gateway
  h1 = h1
  h2 = h2
  Vehicles = {v1}
  NoVehicle = NoVehicle
  Names = {n1, n2}
  Key <- MCKey
  Places = {here}
  Scopes <- MCScopes
  Times = {1, 2}
  Default <- MCDefault
  Configured <- MCConfigured
  Processes = {gateway}
  Refreshing = {gateway}
  Handlers = {h1, h2}
  ProcessOf <- MCProcessOf
  MaxEdits = 1
  MaxFaults = 1
INVARIANTS
  TypeOK
  EventsAreTrue
  CrossingsAreReported
PROPERTIES
  EditsTakeEffect
