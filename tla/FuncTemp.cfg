SPECIFICATION Spec
CONSTANTS
  Values <- MCValues
  Gaps <- MCGaps
  SamplePeriod = 2
  PublishChange = 2
  ForcePeriod = 5
  ErrorThreshold = 0
  DefaultThreshold = 3
  ErrorsMax = 3
  ClockMod = 10
  MaxFails = 5
  NoValue = NoValue
INVARIANTS QualityTruthful ValueClose SampledOnSchedule ForcedInTime
