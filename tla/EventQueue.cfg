SPECIFICATION BothSpec
CONSTANTS
  Capacity = 3
  CounterMod = 4
  MaxPushed = 8
  ItemSize = 2
INVARIANTS AllAccounted NewestKept SameQueue
PROPERTY ImplementsFifo
CHECK_DEADLOCK FALSE
