CONSTANTS
  SlotCount = 2
  ConnectLen = 2
  PublishLen = 2
  WorkCapacity = 4
  Keepalive = 3
  ConnectTimeout = 5
  BackoffInitial = 1
  BackoffMax = 2
  ClockMod = 10
  PollGaps <- MCGaps
  PeerPackets <- NoPackets
  Leftovers <- NothingLeft
  MaxInbound = 4
  MaxMsgs = 3
  MaxDropped = 0
SPECIFICATION SessionSpec
PROPERTIES
  DeadBrokerNoticed
  EveryMessageDelivered
