SPECIFICATION Spec
CONSTANTS
  Sensors = 2
  Capacity <- MCCapacity
  Policy <- MCPolicy
  Budget <- MCBudget
  TxCapacity = 2
  SensorFaults = {"IO"}
  DisplayFaults = {"IO", "NOT_READY"}
  MaxEvents = 6
INVARIANTS FirstErrorKept EveryConsumerAdvances UpToDate
PROPERTY QueuesDrain
