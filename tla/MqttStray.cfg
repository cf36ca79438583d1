CONSTANTS
  SlotCount = 1
  ConnectLen = 1
  PublishLen = 1
  WorkCapacity = 5
  Keepalive = 3
  ConnectTimeout = 2
  BackoffInitial = 1
  BackoffMax = 3
  ClockMod = 8
  PollGaps <- MCGaps
  PeerPackets <- StrayPackets
  Leftovers <- NothingLeft
  MaxInbound = 5
  MaxMsgs = 1
  MaxDropped = 0
SPECIFICATION TimersSpec
INVARIANT IdleSessionEnds
