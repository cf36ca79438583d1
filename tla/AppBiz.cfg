SPECIFICATION PathSpec
CONSTANTS
  s1 = s1
  s2 = s2
  s3 = s3
  States <- MCStates
  Ids <- MCIds
  Values <- MCValues
  Capacity <- MCCapacity
  AlarmOn = 127
  AlarmOff <- MCAlarmOff
  Addresses <- MCAddresses
  MaxDevices = 2
  AddressOf <- MCAddressOf
  Registers <- MCRegisters
  PpmScale = 1000
  Gain = 8
  Offset = 1
  LeastInt <- MCLeast
  GreatestInt = 200000
INVARIANTS ResultOfWindow AlarmTracksCrossing ReadingsTrue
