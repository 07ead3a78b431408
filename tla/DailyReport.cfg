SPECIFICATION DaySpec
CONSTANTS
  Minutes = {0, 5, 25, 46}
  PlaceAt <- MCPlaceAt
  PingSpeeds <- MCPingSpeeds
  Records <- MCRecords
  Levels = {104}
  Posted <- MCPosted
  Element = 89
  MaxPings = 3
INVARIANTS
  DayTypeOK
  ReportMatchesTrack
  EventsMatchTrack
CHECK_DEADLOCK FALSE
