CONSTANTS
  SlotCount = 2
  ConnectLen = 2
  PublishLen = 2
  WorkCapacity = 5
  Keepalive = 10000
  ConnectTimeout = 50
  BackoffInitial = 1000
  BackoffMax = 1000
  ClockMod = 20000
  PollGaps <- MCGaps
  PeerPackets <- Pushable
  Leftovers <- RingContents
  MaxInbound = 12
  MaxMsgs = 12
  MaxDropped = 12
  MaxCaptures = 16
  RxDepth = 2
  EventsPerStep <- OneOrTwo
  EventCapacity = 5
  FlushLimit = 16
  DrainRounds = 8
  TesterMsgs = 1
  TesterPushes = 3
SPECIFICATION DemoSpec
INVARIANTS
  HandedInOrder
  OnlyTheBurstLoses
  AnswersFresh
PROPERTY DemoFinishes
