SPECIFICATION Spec
CONSTANTS
  Ids = {a, b, c}
  Drivers = {d1, d2}
  Removable = {d1}
  newest = newest
  oldest = oldest
  Queues = {newest, oldest}
  Capacity <- MCCapacity
  Policy <- MCPolicy
  MaxSensors = 2
  MaxSubscriptions = 3
  MaxSequence = 3
  MaxEras = 1
  MaxAroundReset = 1
SYMMETRY Symmetry
INVARIANTS TypeOK DriversReleased NumberedInOrder GapsCounted ResultTruthful
CHECK_DEADLOCK FALSE
