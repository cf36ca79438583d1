CONSTANTS
  SlotCount = 2
  ConnectLen = 2
  PublishLen = 3
  WorkCapacity = 5
  Keepalive = 2
  ConnectTimeout = 2
  BackoffInitial = 1
  BackoffMax = 1
  ClockMod = 4
  PollGaps <- MCGaps
  PeerPackets <- MixedPackets
  Leftovers <- NothingLeft
  MaxInbound = 6
  MaxMsgs = 3
  MaxDropped = 1
SPECIFICATION Spec
INVARIANTS
  TypeOK
  LinkMatchesState
  StreamIntact
  SessionOnlyIfAccepted
  WorkBufferExclusive
  ExactlyOnceInOrder
  DeadlinesHonoured
PROPERTY ImplementsOutbox
