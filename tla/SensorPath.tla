------------------------------ MODULE SensorPath ------------------------------
(***************************************************************************)
(* From the register to the result: TMP75 sensors that share a bus, read,  *)
(* range checked and calibrated by the temperature driver, whose events    *)
(* the business application evaluates.  The drivers publish every sample   *)
(* and have no filters; when and with which quality a driver publishes is  *)
(* in FuncTemp.  A step is one sample of one sensor, up to its evaluation. *)
(***************************************************************************)
EXTENDS AppBiz, Tmp75, I2cBus

CONSTANTS
  AddressOf,     \* of each sensor
  Registers,     \* what a temperature register may hold
  PpmScale,      \* FUNC_TEMP_PPM_SCALE
  Gain, Offset,  \* calibration_gain_ppm, calibration_offset_mdeg_c
  LeastInt, GreatestInt

ASSUME PathAssumption ==
  /\ AddressOf \in [Ids -> Addresses]
  /\ Registers \subseteq Byte \X Byte
  /\ PpmScale \in Nat \ {0} /\ Gain \in Int /\ Gain > -PpmScale
  /\ Offset \in Int /\ LeastInt \in Int /\ GreatestInt \in Int

VARIABLE truth   \* observer: the registers behind each sensor's last readings

pvars == <<vars, bus, truth>>

MinTemp == -55000
MaxTemp == 125000

(* The range check of func_temp_poll.  Mutant: only the upper end.           *)
InRangeUpperOnly(raw) == raw <= MaxTemp
InRange(raw) == raw >= MinTemp /\ raw <= MaxTemp

Calibrated(raw) ==
  Saturated(DivRoundNearest(raw * (PpmScale + Gain), PpmScale) + Offset,
            LeastInt, GreatestInt)

Remember(id, register) ==
  truth' = [truth EXCEPT ![id] =
              IF Len(@) = Capacity[id] THEN Append(Tail(@), register)
                                       ELSE Append(@, register)]

SampleGood(id, register, reply) ==
  LET raw == Decoded(RegRead(AddressOf[id], reply).bytes) IN
  /\ RegRead(AddressOf[id], reply).status = "OK"
  /\ InRange(raw)
  /\ HandleValid(id, Calibrated(raw))
  /\ Remember(id, register)

SampleBad(id, reply) ==
  LET read == RegRead(AddressOf[id], reply) IN
  /\ read.status = "OK" => ~InRange(Decoded(read.bytes))
  /\ \E quality \in {"STALE", "ERROR"} : HandleInvalid(id, quality)
  /\ UNCHANGED truth

Sample(id) ==
  \E register \in Registers : \E reply \in Replies(register) :
    /\ staging' = StagingAfter(AddressOf[id], reply)
    /\ UNCHANGED inUse
    /\ \/ SampleGood(id, register, reply)
       \/ SampleBad(id, reply)
       \/ HandleUnknown(id) /\ UNCHANGED truth

PlugIn(address) == BusRegister(address) /\ UNCHANGED <<vars, truth>>

PathInit == Init /\ BusInit /\ truth = [id \in States |-> <<>>]

PathNext ==
  \/ \E id \in Ids : Sample(id)
  \/ \E address \in Addresses : PlugIn(address)

PathSpec == PathInit /\ [][PathNext]_pvars

-----------------------------------------------------------------------------
(* The value v may be made of the register: its temperature, which is in      *)
(* range, times the gain and rounded, plus the offset.                       *)
Nearby(n, d) == {n \div d, n \div d + 1}
Candidates(register) == Nearby(1000 * Sixteenths(register), 16)
IsCalibrated(v, raw) == IsNearest(v - Offset, raw * (PpmScale + Gain), PpmScale)
IsMadeOf(v, register) ==
  \E raw \in Candidates(register) \cap MinTemp..MaxTemp :
    IsTemperature(raw, register) /\ IsCalibrated(v, raw)

(* Every reading that entered a result was made of the sensor's own register  *)
(* at that sample, exactly rounded: never of bytes a short or failed transfer *)
(* or another device on the bus left in the staging buffer.                  *)
ReadingsTrue ==
  \A id \in States :
    /\ Len(recent[id]) = Len(truth[id])
    /\ \A i \in 1..Len(recent[id]) : IsMadeOf(recent[id][i], truth[id][i])
=============================================================================
