SPECIFICATION Spec
CONSTANTS
  LeastInt <- MCLeast
  GreatestInt = 7
  Chain <- MCChain
  Values <- MCValues
INVARIANTS WindowOutputs HullKept
PROPERTIES LimitRespected EmaApproaches
