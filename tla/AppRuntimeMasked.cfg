SPECIFICATION Spec
CONSTANTS
  Sensors = 2
  Capacity <- MCCapacity
  Policy <- MCPolicy
  Budget <- MCBudget
  TxCapacity = 2
  SensorFaults = {"IO", "NOT_READY"}
  DisplayFaults = {"IO", "NOT_READY"}
  MaxEvents = 4
INVARIANT FirstErrorKept
