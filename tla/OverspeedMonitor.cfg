\* Two ingests of one vehicle; limit 80 by default, lifted or 100 by an
\* operator; speeds that stand, are clear at the boundary, in the band, over,
\* over both limits, and implausible.
SPECIFICATION Spec
CONSTANTS
  Handlers = {h1, h2}
  Times = {1, 2, 3, 4}
  Speeds = {0, 75, 78, 90, 110, 300}
  Limits = {0, 100}
  NoLimit = NoLimit
  DefaultLimit = 80
  Hysteresis = 5
  Implausible = 300
  MinBreachDuration = 2
  DefaultMinDuration = 30
  MaxFaults = 1
INVARIANTS
  TypeOK
  AlertsAreSustained
  AlertedIsRaised
  AlertsMatchStretches
