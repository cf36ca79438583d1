-------------------------- MODULE SensorPath_proofs --------------------------
(* From the register to the result, for every calibration, register content,  *)
(* bus, window and pair of limits.  First the business application: its alarm *)
(* remembers the limit crossed last and its result is that of the last        *)
(* readings of its sensor.  Then the path behind the readings: the register   *)
(* is decoded to the nearest millidegree, and what enters a result was read   *)
(* from the sensor itself.                                                    *)
EXTENDS SensorPath, CommonLemmas

(* All that is needed of the other fields is that they do not hide the alarm. *)
AlarmKept ==
  /\ DOMAIN latest = States
  /\ \A id \in States : "alarm" \in DOMAIN latest[id] /\ latest[id].alarm \in BOOLEAN
  /\ crossing \in [States -> {"on", "off"}]
  /\ AlarmTracksCrossing

Crossed(before, value) ==
  IF value >= AlarmOn THEN "on" ELSE IF value <= AlarmOff THEN "off" ELSE before

(* The hysteresis and the limit crossed last go together.                     *)
LEMMA AlarmFollows ==
  ASSUME NEW alarm \in BOOLEAN, NEW before \in {"on", "off"}, NEW value \in Int,
         AlarmOff < AlarmOn => (alarm <=> before = "on")
  PROVE  /\ AlarmAfter(alarm, value) \in BOOLEAN
         /\ AlarmOff < AlarmOn =>
              (AlarmAfter(alarm, value) <=> Crossed(before, value) = "on")
<1>1. AlarmOn \in Int /\ AlarmOff \in Int
  BY BizAssumption
<1>2. AlarmAfter(alarm, value) \in BOOLEAN
  BY DEF AlarmAfter
<1> SUFFICES ASSUME AlarmOff < AlarmOn
             PROVE  AlarmAfter(alarm, value) <=> Crossed(before, value) = "on"
  BY <1>2
<1>3. ~(value >= AlarmOn /\ value <= AlarmOff)
  BY <1>1
<1>4. CASE alarm
  <2>1. AlarmAfter(alarm, value) <=> ~(value <= AlarmOff)
    BY <1>4 DEF AlarmAfter
  <2>2. Crossed(before, value) = "on" <=> ~(value <= AlarmOff)
    BY <1>3, <1>4 DEF Crossed
  <2> QED
    BY <2>1, <2>2
<1>5. CASE ~alarm
  <2>1. AlarmAfter(alarm, value) <=> value >= AlarmOn
    BY <1>5 DEF AlarmAfter
  <2>2. Crossed(before, value) = "on" <=> value >= AlarmOn
    BY <1>3, <1>5 DEF Crossed
  <2> QED
    BY <2>1, <2>2
<1> QED
  BY <1>4, <1>5

LEMMA ValidKeeps ==
  ASSUME AlarmKept, NEW id \in Ids, NEW value \in Values, HandleValid(id, value)
  PROVE  AlarmKept'
<1>1. id \in States /\ value \in Int
  BY BizAssumption DEF HandleValid
<1>2. /\ latest' = [latest EXCEPT ![id] = Refreshed(id, value)]
      /\ crossing' = [crossing EXCEPT ![id] = Crossed(crossing[id], value)]
  BY DEF HandleValid, Crossed
<1>3. /\ AlarmAfter(latest[id].alarm, value) \in BOOLEAN
      /\ AlarmOff < AlarmOn => (AlarmAfter(latest[id].alarm, value)
                                 <=> Crossed(crossing[id], value) = "on")
  BY <1>1, AlarmFollows DEF AlarmKept, AlarmTracksCrossing
<1>4. /\ "alarm" \in DOMAIN Refreshed(id, value)
      /\ Refreshed(id, value).alarm = AlarmAfter(latest[id].alarm, value)
  BY DEF Refreshed
<1>5. DOMAIN latest' = States /\ crossing' \in [States -> {"on", "off"}]
  BY <1>2 DEF AlarmKept, Crossed
<1>6. ASSUME NEW other \in States
      PROVE  /\ "alarm" \in DOMAIN latest'[other] /\ latest'[other].alarm \in BOOLEAN
             /\ AlarmOff < AlarmOn => (latest'[other].alarm <=> crossing'[other] = "on")
  <2>1. CASE other = id
    BY <1>1, <1>2, <1>3, <1>4, <2>1 DEF AlarmKept
  <2>2. CASE other # id
    BY <1>2, <2>2 DEF AlarmKept, AlarmTracksCrossing
  <2> QED
    BY <2>1, <2>2
<1> QED
  BY <1>5, <1>6 DEF AlarmKept, AlarmTracksCrossing

LEMMA InvalidKeeps ==
  ASSUME AlarmKept, NEW id \in Ids, NEW quality, HandleInvalid(id, quality)
  PROVE  AlarmKept'
<1>1. /\ latest' = [latest EXCEPT ![id].quality = quality]
      /\ crossing' = crossing
  BY DEF HandleInvalid
<1>2. DOMAIN latest' = States /\ crossing' \in [States -> {"on", "off"}]
  BY <1>1 DEF AlarmKept
<1>3. ASSUME NEW other \in States
      PROVE  /\ "alarm" \in DOMAIN latest'[other]
             /\ latest'[other].alarm = latest[other].alarm
  <2>1. CASE other # id
    BY <1>1, <2>1 DEF AlarmKept
  <2>2. CASE other = id
    <3>1. latest'[id] = [latest[id] EXCEPT !.quality = quality]
      BY <1>1, <2>2 DEF AlarmKept
    <3> QED
      BY <3>1, <2>2 DEF AlarmKept
  <2> QED
    BY <2>1, <2>2
<1> QED
  BY <1>1, <1>2, <1>3 DEF AlarmKept, AlarmTracksCrossing

(* The alarm of every sensor is that of the last limit crossed.               *)
THEOREM AlarmCorrect == Spec => []AlarmTracksCrossing
<1>1. Init => AlarmKept
  <2> SUFFICES ASSUME Init PROVE AlarmKept
    OBVIOUS
  <2>1. latest = [id \in States |-> NoResult] /\ crossing = [id \in States |-> "off"]
    BY DEF Init
  <2>2. "alarm" \in DOMAIN NoResult /\ NoResult.alarm = FALSE
    BY DEF NoResult
  <2> QED
    BY <2>1, <2>2 DEF AlarmKept, AlarmTracksCrossing
<1>2. AlarmKept /\ [Next]_vars => AlarmKept'
  <2> SUFFICES ASSUME AlarmKept, [Next]_vars PROVE AlarmKept'
    OBVIOUS
  <2>1. CASE \E id \in Ids, value \in Values : HandleValid(id, value)
    BY <2>1, ValidKeeps
  <2>2. CASE \E id \in Ids, quality \in {"STALE", "ERROR"} : HandleInvalid(id, quality)
    BY <2>2, InvalidKeeps
  <2>3. CASE \E id \in Ids : HandleUnknown(id)
    BY <2>3 DEF HandleUnknown, vars, statistics, AlarmKept, AlarmTracksCrossing
  <2>4. CASE UNCHANGED vars
    BY <2>4 DEF vars, statistics, AlarmKept, AlarmTracksCrossing
  <2> QED
    BY <2>1, <2>2, <2>3, <2>4 DEF Next
<1> QED
  BY <1>1, <1>2, PTL DEF Spec, AlarmKept

-----------------------------------------------------------------------------
(* The rounded mean is the nearest integer to the mean.                      *)
LEMMA AverageNearest ==
  ASSUME NEW s \in Int, NEW c \in Nat \ {0}
  PROVE  IsNearest(Average(s, c), s, c)
<1>1. PICK h \in Nat : h = c \div 2 /\ 2 * h <= c /\ c <= 2 * h + 1
  <2>1. c \div 2 \in Nat /\ 2 * (c \div 2) <= c /\ c <= 2 * (c \div 2) + 1
    OBVIOUS
  <2> QED
    BY <2>1
<1>2. ASSUME NEW m \in Nat
      PROVE  \E q, p \in Nat : /\ q = (m + h) \div c /\ p = q * c
                               /\ p <= m + h /\ m + h < p + c
  <2>1. PICK x \in Nat : x = m + h
    BY <1>1
  <2>2. x \div c \in Nat
    OBVIOUS
  <2>3. x - (x \div c) * c >= 0
    OBVIOUS
  <2>4. x - (x \div c) * c < c
    OBVIOUS
  <2>5. PICK q \in Nat : q = x \div c
    BY <2>2
  <2>6. PICK p \in Nat : p = q * c
    BY <2>5
  <2> QED
    BY <2>1, <2>3, <2>4, <2>5, <2>6
<1>3. CASE s >= 0
  <2>1. PICK q \in Nat, p \in Nat : /\ q = (s + h) \div c /\ p = q * c
                                    /\ p <= s + h /\ s + h < p + c
    BY <1>2, <1>3
  <2>2. Average(s, c) = q
    BY <1>1, <1>3, <2>1 DEF Average, Truncated, Magnitude, Half
  <2>3. Magnitude(p) = p /\ Magnitude(s) = s /\ Magnitude(c) = c
    BY <1>3, <2>1 DEF Magnitude
  <2>4. 2 * Magnitude(s - p) <= c
    BY <1>1, <1>3, <2>1 DEF Magnitude
  <2>5. 2 * Magnitude(s - p) = c => p > s
    BY <1>1, <1>3, <2>1 DEF Magnitude
  <2> QED
    BY <2>1, <2>2, <2>3, <2>4, <2>5 DEF IsNearest
<1>4. CASE s < 0
  <2>0. PICK m \in Nat : m = -s
    BY <1>4
  <2>1. PICK q \in Nat, p \in Nat : /\ q = (m + h) \div c /\ p = q * c
                                    /\ p <= m + h /\ m + h < p + c
    BY <1>2
  <2>2. Average(s, c) = -q
    <3>1. s - h < 0 /\ ~(c < 0) /\ -(s - h) = m + h
      BY <1>1, <1>4, <2>0
    <3>2. Average(s, c) = Truncated(s - h, c)
      BY <1>1, <1>4 DEF Average, Half
    <3>3. Magnitude(s - h) = m + h /\ Magnitude(c) = c
      BY <3>1 DEF Magnitude
    <3> QED
      BY <2>1, <3>1, <3>2, <3>3 DEF Truncated
  <2>3. Magnitude(-p) = p /\ Magnitude(s) = m /\ Magnitude(c) = c /\ (-q) * c = -p
    BY <1>4, <2>0, <2>1 DEF Magnitude
  <2>4. 2 * Magnitude(s - (-p)) <= c
    BY <1>1, <1>4, <2>0, <2>1 DEF Magnitude
  <2>5. 2 * Magnitude(s - (-p)) = c => p > m
    BY <1>1, <1>4, <2>0, <2>1 DEF Magnitude
  <2> QED
    BY <2>2, <2>3, <2>4, <2>5 DEF IsNearest
<1> QED
  BY <1>3, <1>4
(* The result.                                                                *)

(* The window of a sensor holds its last readings, counted and summed.        *)
Remembers(id) ==
  /\ recent[id] \in Seq(Int)
  /\ Holds(window[id], windowNext[id], recent[id], Capacity[id])
  /\ windowCount[id] = Len(recent[id])
  /\ sum[id] = Total(recent[id])

Tables ==
  /\ DOMAIN window = States /\ DOMAIN windowNext = States
  /\ DOMAIN windowCount = States /\ DOMAIN sum = States
  /\ DOMAIN latest = States /\ DOMAIN recent = States

IsResult(result, readings) ==
  LET values == {readings[i] : i \in 1..Len(readings)} IN
  /\ result.sampleCount = Len(readings)
  /\ result.minimum = Least(values) /\ result.maximum = Greatest(values)
  /\ IsNearest(result.average, Total(readings), Len(readings))

ResultFields == {"sampleCount", "minimum", "maximum", "average"}

WindowKept ==
  /\ Tables
  /\ \A id \in States : /\ Remembers(id)
                        /\ ResultFields \subseteq DOMAIN latest[id]
                        /\ recent[id] # <<>> => IsResult(latest[id], recent[id])

(* One reading, for the sensor it belongs to.                                 *)
LEMMA ValidRemembers ==
  ASSUME WindowKept, NEW id \in Ids, NEW value \in Int, HandleValid(id, value)
  PROVE  /\ Remembers(id)'
         /\ recent'[id] # <<>> /\ IsResult(latest'[id], recent'[id])
         /\ ResultFields \subseteq DOMAIN latest'[id]
<1>1. id \in States
  BY DEF HandleValid
<1>2. PICK c \in Nat \ {0} : c = Capacity[id]
  BY <1>1, BizAssumption
<1>3. PICK r \in Seq(Int) : r = recent[id]
  BY <1>1 DEF WindowKept, Remembers
<1>4. PICK w, next : w = window[id] /\ next = windowNext[id]
  OBVIOUS
<1>5. /\ Holds(w, next, r, c)
      /\ windowCount[id] = Len(r) /\ sum[id] = Total(r)
  BY <1>1, <1>2, <1>3, <1>4 DEF WindowKept, Remembers
<1>6. Full(id) <=> Len(r) = c
  BY <1>2, <1>5 DEF Full
<1>7. PICK r2 : r2 = IF Len(r) = c THEN Append(Tail(r), value) ELSE Append(r, value)
  OBVIOUS
<1>8. PICK w2, next2 : w2 = Overwritten(w, next, value) /\ next2 = NextIn(next, c)
  OBVIOUS
<1>9. /\ recent'[id] = r2 /\ windowNext'[id] = next2 /\ window'[id] = w2
  BY <1>1, <1>2, <1>3, <1>4, <1>7, <1>8 DEF HandleValid, WindowKept, Tables, Overwritten, NextIn, NextSlot
<1>10. /\ windowCount'[id] = (IF Len(r) = c THEN Len(r) ELSE Len(r) + 1)
       /\ sum'[id] = Total(r) + value - (IF Len(r) = c THEN w[next] ELSE 0)
  BY <1>1, <1>4, <1>5, <1>6 DEF HandleValid, WindowKept, Tables
<1>11. Len(r) \in Nat /\ Len(r) <= c /\ Total(r) \in Int
  BY <1>5, LenProperties, TotalAppend DEF Holds
<1>12. /\ r2 \in Seq(Int) /\ r2 # <<>> /\ Holds(w2, next2, r2, c)
       /\ Len(r2) = windowCount'[id] /\ Total(r2) = sum'[id]
  <2>1. CASE Len(r) = c
    <3>1. r2 = Append(Tail(r), value)
      BY <1>7, <2>1
    <3>2. r2 \in Seq(Int) /\ r2 # <<>> /\ Holds(w2, next2, r2, c)
      BY <1>5, <1>8, <2>1, <3>1, RingTurns
    <3>3. Len(r2) = c /\ Total(r2) = Total(r) + value - w[next]
      BY <1>5, <2>1, <3>1, RingTurns
    <3> QED
      BY <1>10, <2>1, <3>2, <3>3
  <2>2. CASE Len(r) # c
    <3>1. Len(r) < c
      BY <1>11, <2>2
    <3>2. r2 = Append(r, value)
      BY <1>7, <2>2
    <3>3. r2 \in Seq(Int) /\ r2 # <<>> /\ Holds(w2, next2, r2, c)
      BY <1>5, <1>8, <3>1, <3>2, RingFills
    <3>4. Len(r2) = Len(r) + 1 /\ Total(r2) = Total(r) + value
      BY <1>5, <3>1, <3>2, RingFills
    <3> QED
      BY <1>10, <1>11, <2>2, <3>3, <3>4
  <2> QED
    BY <2>1, <2>2
<1>13. Remembers(id)'
  BY <1>2, <1>9, <1>12 DEF Remembers
<1>14. PICK n \in Nat \ {0} : n = Len(r2)
  BY <1>12, LenProperties, EmptySeq
<1>15. latest'[id] = Refreshed(id, value)
  BY <1>1 DEF HandleValid, WindowKept, Tables
<1>16. Filled(id) = {r2[k] : k \in 1..Len(r2)}
  <2>1. FirstSlots(w2, Len(r2)) = Readings(r2)
    BY <1>12, SameReadings
  <2> QED
    BY <1>9, <1>12, <2>1 DEF Filled, FirstSlots, Readings
<1>17. IsNearest(Average(sum'[id], windowCount'[id]), Total(r2), Len(r2))
  <2>1. Total(r2) \in Int
    BY <1>12, TotalAppend
  <2>2. IsNearest(Average(Total(r2), n), Total(r2), n)
    BY <2>1, AverageNearest
  <2> QED
    BY <1>12, <1>14, <2>2
<1>18. /\ Refreshed(id, value).sampleCount = windowCount'[id]
       /\ Refreshed(id, value).minimum = Least(Filled(id))
       /\ Refreshed(id, value).maximum = Greatest(Filled(id))
       /\ Refreshed(id, value).average = Average(sum'[id], windowCount'[id])
       /\ ResultFields \subseteq DOMAIN Refreshed(id, value)
  BY DEF Refreshed, ResultFields
<1>19. IsResult(latest'[id], r2)
  BY <1>12, <1>15, <1>16, <1>17, <1>18 DEF IsResult
<1> QED
  BY <1>9, <1>12, <1>13, <1>15, <1>18, <1>19

LEMMA ValidKeepsWindow ==
  ASSUME WindowKept, NEW id \in Ids, NEW value \in Int, HandleValid(id, value)
  PROVE  WindowKept'
<1>1. id \in States
  BY DEF HandleValid
<1>2. Tables'
  BY DEF HandleValid, WindowKept, Tables
<1>3. ASSUME NEW other \in States, other # id
      PROVE  /\ window'[other] = window[other] /\ windowNext'[other] = windowNext[other]
             /\ windowCount'[other] = windowCount[other] /\ sum'[other] = sum[other]
             /\ latest'[other] = latest[other] /\ recent'[other] = recent[other]
  BY <1>3 DEF HandleValid, WindowKept, Tables
<1>4. ASSUME NEW other \in States
      PROVE  /\ Remembers(other)'
             /\ ResultFields \subseteq DOMAIN latest'[other]
             /\ recent'[other] # <<>> => IsResult(latest'[other], recent'[other])
  <2>1. CASE other = id
    BY <2>1, ValidRemembers
  <2>2. CASE other # id
    BY <1>3, <2>2 DEF WindowKept, Remembers
  <2> QED
    BY <2>1, <2>2
<1> QED
  BY <1>2, <1>4 DEF WindowKept

LEMMA InvalidKeepsWindow ==
  ASSUME WindowKept, NEW id \in Ids, NEW quality, HandleInvalid(id, quality)
  PROVE  WindowKept'
<1>1. /\ latest' = [latest EXCEPT ![id].quality = quality]
      /\ UNCHANGED <<window, windowNext, windowCount, sum, recent>>
  BY DEF HandleInvalid
<1>2. Tables'
  BY <1>1 DEF WindowKept, Tables
<1>3. ASSUME NEW other \in States, NEW field \in ResultFields
      PROVE  /\ field \in DOMAIN latest'[other]
             /\ latest'[other][field] = latest[other][field]
  <2>1. field \in DOMAIN latest[other] /\ field # "quality"
    BY DEF WindowKept, ResultFields
  <2>2. CASE other # id
    BY <1>1, <2>1, <2>2 DEF WindowKept, Tables
  <2>3. CASE other = id
    <3>1. latest'[id] = [latest[id] EXCEPT !.quality = quality]
      BY <1>1, <2>3 DEF WindowKept, Tables
    <3> QED
      BY <2>1, <2>3, <3>1
  <2> QED
    BY <2>2, <2>3
<1>4. ASSUME NEW other \in States
      PROVE  /\ Remembers(other)'
             /\ ResultFields \subseteq DOMAIN latest'[other]
             /\ recent'[other] # <<>> => IsResult(latest'[other], recent'[other])
  <2>1. Remembers(other)'
    BY <1>1 DEF WindowKept, Remembers
  <2>2. ResultFields \subseteq DOMAIN latest'[other]
    BY <1>3
  <2>3. /\ latest'[other].sampleCount = latest[other].sampleCount
        /\ latest'[other].minimum = latest[other].minimum
        /\ latest'[other].maximum = latest[other].maximum
        /\ latest'[other].average = latest[other].average
    BY <1>3 DEF ResultFields
  <2>4. recent'[other] # <<>> => IsResult(latest'[other], recent'[other])
    BY <1>1, <2>3 DEF WindowKept, IsResult
  <2> QED
    BY <2>1, <2>2, <2>4
<1> QED
  BY <1>2, <1>4 DEF WindowKept

(* The result of every sensor is the minimum, maximum and rounded mean of its *)
(* last readings, for any sensors, window sizes and readings.                *)
THEOREM ResultCorrect == Spec => []ResultOfWindow
<1>1. Init => WindowKept
  <2> SUFFICES ASSUME Init PROVE WindowKept
    OBVIOUS
  <2>1. Tables
    BY DEF Init, Tables
  <2>2. ASSUME NEW id \in States
        PROVE  /\ Remembers(id) /\ ResultFields \subseteq DOMAIN latest[id]
               /\ recent[id] = <<>>
    <3>1. PICK c \in Nat \ {0} : c = Capacity[id]
      BY BizAssumption
    <3>2. /\ recent[id] = <<>> /\ windowNext[id] = 0 /\ windowCount[id] = 0 /\ sum[id] = 0
          /\ latest[id] = NoResult /\ window[id] = [i \in 0..c - 1 |-> 0]
      BY <3>1 DEF Init
    <3>3. <<>> \in Seq(Int) /\ Len(<<>>) = 0
      BY EmptySeq
    <3>4. Holds(window[id], 0, <<>>, c)
      BY <3>1, <3>2, <3>3 DEF Holds
    <3>5. Total(<<>>) = 0
      BY <3>3, TotalIsPart DEF IsPart
    <3>6. Remembers(id)
      BY <3>1, <3>2, <3>3, <3>4, <3>5 DEF Remembers
    <3>7. ResultFields \subseteq DOMAIN NoResult
      BY DEF NoResult, ResultFields
    <3> QED
      BY <3>2, <3>6, <3>7
  <2> QED
    BY <2>1, <2>2 DEF WindowKept
<1>2. WindowKept /\ [Next]_vars => WindowKept'
  <2> SUFFICES ASSUME WindowKept, [Next]_vars PROVE WindowKept'
    OBVIOUS
  <2>1. CASE \E id \in Ids, value \in Values : HandleValid(id, value)
    BY <2>1, ValidKeepsWindow, BizAssumption
  <2>2. CASE \E id \in Ids, quality \in {"STALE", "ERROR"} : HandleInvalid(id, quality)
    BY <2>2, InvalidKeepsWindow
  <2>3. CASE UNCHANGED vars
    BY <2>3 DEF vars, statistics, WindowKept, Tables, Remembers
  <2>4. CASE \E id \in Ids : HandleUnknown(id)
    BY <2>3, <2>4 DEF HandleUnknown
  <2> QED
    BY <2>1, <2>2, <2>3, <2>4 DEF Next
<1>3. WindowKept => ResultOfWindow
  BY DEF WindowKept, ResultOfWindow, IsResult
<1> QED
  BY <1>1, <1>2, <1>3, PTL DEF Spec

-----------------------------------------------------------------------------
(* The register.                                                              *)

LEMMA SixteenthOf ==
  ASSUME NEW x \in Int, NEW q \in Int, 16 * q <= x, x < 16 * q + 16
  PROVE  x \div 16 = q
OBVIOUS

LEMMA CodeIsSixteenths ==
  ASSUME NEW register \in Byte \X Byte
  PROVE  /\ SignedCode(Be16(register)) = Sixteenths(register)
         /\ Sixteenths(register) \in Int
<1>0. PICK hi \in Byte, lo \in Byte : register = <<hi, lo>>
  OBVIOUS
<1>1. hi \in 0..255 /\ lo \in 0..255 /\ register = <<hi, lo>>
  BY <1>0 DEF Byte
<1>2. Be16(register) = 256 * hi + lo
  BY <1>1 DEF Be16
<1>3. PICK x \in Int : x = 256 * hi + lo
  BY <1>1
<1>4. PICK q \in Int : 16 * q <= x /\ x < 16 * q + 16
  BY <1>3, x \div 16 \in Int, 16 * (x \div 16) <= x, x < 16 * (x \div 16) + 16
<1>5. x \div 16 = q
  BY <1>4, SixteenthOf
<1>6. CASE hi < 128
  <2>1. Sixteenths(register) = q
    BY <1>1, <1>3, <1>5, <1>6 DEF Sixteenths
  <2>2. ~(q >= 2048)
    BY <1>1, <1>3, <1>4, <1>6
  <2> QED
    BY <1>2, <1>3, <1>5, <2>1, <2>2 DEF SignedCode
<1>7. CASE hi >= 128
  <2>1. PICK y \in Int : y = 256 * (hi - 256) + lo
    BY <1>1
  <2>2. Sixteenths(register) = y \div 16
    BY <1>1, <1>7, <2>1 DEF Sixteenths
  <2>3. q - 4096 \in Int /\ 16 * (q - 4096) <= y /\ y < 16 * (q - 4096) + 16
    BY <1>1, <1>3, <1>4, <2>1
  <2>4. y \div 16 = q - 4096
    BY <2>1, <2>3, SixteenthOf
  <2>5. q >= 2048
    BY <1>1, <1>3, <1>4, <1>7
  <2> QED
    BY <1>2, <1>3, <1>4, <1>5, <2>2, <2>4, <2>5 DEF SignedCode
<1> QED
  BY <1>1, <1>6, <1>7

(* proto_temp_tmp75_decode_mdeg_c returns the temperature in the register to  *)
(* the nearest millidegree: for every register.                               *)
THEOREM DecodedNearest ==
  ASSUME NEW register \in Byte \X Byte
  PROVE  /\ Decoded(register) \in Int
         /\ IsTemperature(Decoded(register), register)
<1>1. PICK c \in Int : c = Sixteenths(register)
  BY CodeIsSixteenths
<1>2. Decoded(register) = DivRoundNearest(c * 625, 10)
  BY <1>1, CodeIsSixteenths DEF Decoded
<1>3. PICK n \in Int : n = c * 625
  BY <1>1
<1>4. PICK r \in Int : r = DivRoundNearest(n, 10)
  BY <1>3, RoundedNearest
<1>5. IsNearest(r, n, 10)
  BY <1>3, <1>4, RoundedNearest
<1>6. /\ 2 * Magnitude(n - r * 10) <= 10
      /\ 2 * Magnitude(n - r * 10) = 10 => Magnitude(r * 10) > Magnitude(n)
  BY <1>5 DEF IsNearest, Magnitude
<1>8. 1000 * c * 10 = 16 * n
  BY <1>3
<1>9. /\ 10 * Magnitude(1000 * c - r * 16) = 16 * Magnitude(n - r * 10)
      /\ 10 * Magnitude(r * 16) = 16 * Magnitude(r * 10)
      /\ 10 * Magnitude(1000 * c) = 16 * Magnitude(n)
  BY <1>3, <1>4, <1>8 DEF Magnitude
<1>10. /\ Magnitude(1000 * c - r * 16) \in Int /\ Magnitude(n - r * 10) \in Int
       /\ Magnitude(r * 16) \in Int /\ Magnitude(r * 10) \in Int
       /\ Magnitude(1000 * c) \in Int /\ Magnitude(n) \in Int
  BY <1>3, <1>4 DEF Magnitude
<1>11. /\ 2 * Magnitude(1000 * c - r * 16) <= 16
       /\ 2 * Magnitude(1000 * c - r * 16) = 16 => Magnitude(r * 16) > Magnitude(1000 * c)
  BY <1>6, <1>9, <1>10
<1>12. IsNearest(r, 1000 * c, 16)
  BY <1>11, Magnitude(16) = 16 DEF IsNearest, Magnitude
<1> QED
  BY <1>1, <1>2, <1>3, <1>4, <1>12 DEF IsTemperature

(* The nearest integer is one of the two beside the quotient.                 *)
LEMMA NearestIsNearby ==
  ASSUME NEW r \in Int, NEW n \in Int, IsNearest(r, n, 16)
  PROVE  r \in Nearby(n, 16)
<1>1. 2 * Magnitude(n - r * 16) <= 16
  BY DEF IsNearest, Magnitude
<1>2. n - r * 16 <= 8 /\ r * 16 - n <= 8
  BY <1>1 DEF Magnitude
<1>3. n \div 16 \in Int /\ n - (n \div 16) * 16 \in 0..15
  OBVIOUS
<1> QED
  BY <1>2, <1>3 DEF Nearby

-----------------------------------------------------------------------------
(* The bus.                                                                   *)

(* A register read that succeeds returns the register: no byte that was in    *)
(* the staging buffer before.                                                 *)
LEMMA ReadIsRegister ==
  ASSUME NEW register \in Byte \X Byte, NEW reply \in Replies(register), NEW address,
         RegRead(address, reply).status = "OK"
  PROVE  /\ RegRead(address, reply).bytes[1] = register[1]
         /\ RegRead(address, reply).bytes[2] = register[2]
<1> DEFINE transfer == Transferred(address, reply)
           stage    == StagingAfter(address, reply)
<1>1. RegRead(address, reply) = transfer
      /\ (transfer.status = "OK" => Len(transfer.bytes) = 2)
  BY DEF RegRead, Failure, ReadCapacity
<1>2. transfer.status = "OK" /\ Len(transfer.bytes) = 2
  BY <1>1
<1>3. /\ address \in inUse /\ reply.status = "OK" /\ ~(reply.completed > 2)
      /\ transfer = [status |-> "OK", bytes |-> SubSeq(stage, 1, reply.completed)]
  BY <1>2 DEF Transferred, Failure, ReadCapacity
<1>4. reply.completed \in {1, 2}
      /\ (reply.completed = 2 => reply.wrote = register)
  BY <1>3 DEF Replies
<1>5. Len(SubSeq(stage, 1, reply.completed)) = reply.completed
  BY <1>4
<1>6. reply.wrote = register
  BY <1>2, <1>3, <1>4, <1>5
<1>7. stage = [i \in 1..2 |-> IF i <= Len(register) THEN register[i] ELSE staging[i]]
  BY <1>3, <1>6 DEF StagingAfter, ReadCapacity
<1>8. PICK hi \in Byte, lo \in Byte : register = <<hi, lo>>
  OBVIOUS
<1>9. stage = <<hi, lo>>
  BY <1>7, <1>8
<1>10. \A i \in 1..2 : stage[i] \in Byte
  BY <1>8, <1>9
<1> HIDE DEF stage, transfer
<1>11. reply.completed = 2
  BY <1>2, <1>3, <1>4, <1>5
<1>12. transfer.bytes = SubSeq(stage, 1, 2)
  BY <1>3, <1>11
<1>13. SubSeq(stage, 1, 2)[1] = stage[1] /\ SubSeq(stage, 1, 2)[2] = stage[2]
  <2>1. \A i \in 1..2 : SubSeq(stage, 1, 2)[i] = stage[1 + i - 1]
    BY <1>10, SubSeqProperties, 2 - 1 + 1 = 2
  <2> QED
    BY <2>1
<1> QED
  BY <1>1, <1>8, <1>9, <1>12, <1>13

-----------------------------------------------------------------------------
(* From the reading to the result.                                            *)

(* Saturation would be visible in a result; the calibrations in question keep *)
(* every temperature in range within the type.                               *)
Unsaturated ==
  \A raw \in MinTemp..MaxTemp :
    DivRoundNearest(raw * (PpmScale + Gain), PpmScale) + Offset \in LeastInt..GreatestInt

LEMMA MadeOf ==
  ASSUME NEW v, NEW bytes, NEW code, code \in Candidates(bytes),
         code \in MinTemp..MaxTemp, IsTemperature(code, bytes), IsCalibrated(v, code)
  PROVE  IsMadeOf(v, bytes)
BY Zenon DEF IsMadeOf

LEMMA CalibratedIsMade ==
  ASSUME Unsaturated, NEW register \in Byte \X Byte, InRange(Decoded(register))
  PROVE  /\ Calibrated(Decoded(register)) \in Int
         /\ IsMadeOf(Calibrated(Decoded(register)), register)
<1>1. PICK raw \in Int : raw = Decoded(register)
  BY DecodedNearest
<1>2. IsTemperature(raw, register)
  BY <1>1, DecodedNearest
<1>3. MinTemp \in Int /\ MaxTemp \in Int
  BY SMT DEF MinTemp, MaxTemp
<1>4. raw \in MinTemp..MaxTemp
  BY <1>1, <1>3 DEF InRange
<1>5. PICK n \in Int : n = raw * (PpmScale + Gain)
  BY PathAssumption
<1>6. PICK q \in Int : q = DivRoundNearest(n, PpmScale)
  BY PathAssumption, RoundedNearest
<1>7. IsNearest(q, n, PpmScale)
  BY <1>6, PathAssumption, RoundedNearest
<1>8. q + Offset \in LeastInt..GreatestInt
  BY <1>4, <1>5, <1>6 DEF Unsaturated
<1>9. Calibrated(raw) = q + Offset
  BY <1>5, <1>6, <1>8, PathAssumption DEF Calibrated, Saturated
<1>10. raw \in Candidates(register)
  BY <1>2, CodeIsSixteenths, NearestIsNearby DEF IsTemperature, Candidates
<1>11. PICK v \in Int : v = q + Offset
  BY PathAssumption
<1>12. IsCalibrated(v, raw)
  <2>1. v - Offset = q
    BY <1>11, PathAssumption
  <2> QED
    BY <1>5, <1>7, <2>1, Zenon DEF IsCalibrated
<1>13. IsMadeOf(v, register)
  BY <1>2, <1>4, <1>10, <1>12, MadeOf, Zenon
<1> QED
  BY <1>1, <1>9, <1>11, <1>13

(* What enters a window that slides, in step with what enters another.        *)
Slid(s, x, capacity) ==
  IF Len(s) = capacity THEN Append(Tail(s), x) ELSE Append(s, x)

LEMMA SlidTogether ==
  ASSUME NEW s \in Seq(Int), NEW t \in Seq(Byte \X Byte), NEW c \in Nat \ {0},
         NEW v \in Int, NEW register \in Byte \X Byte,
         Len(s) = Len(t), IsMadeOf(v, register),
         \A i \in 1..Len(s) : IsMadeOf(s[i], t[i])
  PROVE  /\ Slid(s, v, c) \in Seq(Int) /\ Slid(t, register, c) \in Seq(Byte \X Byte)
         /\ Len(Slid(s, v, c)) = Len(Slid(t, register, c))
         /\ \A i \in 1..Len(Slid(s, v, c)) :
              IsMadeOf(Slid(s, v, c)[i], Slid(t, register, c)[i])
<1>1. ASSUME NEW u \in Seq(Int), NEW w \in Seq(Byte \X Byte), Len(u) = Len(w),
             \A i \in 1..Len(u) : IsMadeOf(u[i], w[i])
      PROVE  /\ Append(u, v) \in Seq(Int) /\ Append(w, register) \in Seq(Byte \X Byte)
             /\ Len(Append(u, v)) = Len(Append(w, register))
             /\ \A i \in 1..Len(Append(u, v)) :
                  IsMadeOf(Append(u, v)[i], Append(w, register)[i])
  <2>1. /\ Append(u, v) \in Seq(Int) /\ Append(w, register) \in Seq(Byte \X Byte)
        /\ Len(Append(u, v)) = Len(u) + 1 /\ Len(Append(w, register)) = Len(w) + 1
    BY <1>1, AppendProperties
  <2>2. /\ \A i \in 1..Len(u) : Append(u, v)[i] = u[i]
        /\ Append(u, v)[Len(u) + 1] = v
    BY AppendProperties
  <2>3. /\ \A i \in 1..Len(w) : Append(w, register)[i] = w[i]
        /\ Append(w, register)[Len(w) + 1] = register
    BY AppendProperties
  <2>4. ASSUME NEW i \in 1..Len(u) + 1
        PROVE  IsMadeOf(Append(u, v)[i], Append(w, register)[i])
    <3>1. CASE i = Len(u) + 1
      <4>1. Append(u, v)[i] = v
        BY <2>2, <3>1
      <4>2. Append(w, register)[i] = register
        BY <1>1, <2>3, <3>1
      <4> QED
        BY <4>1, <4>2
    <3>2. CASE i \in 1..Len(u)
      <4>1. Append(u, v)[i] = u[i]
        BY <2>2, <3>2
      <4>2. Append(w, register)[i] = w[i]
        BY <1>1, <2>3, <3>2
      <4>3. IsMadeOf(u[i], w[i])
        BY <1>1, <3>2
      <4> QED
        BY <4>1, <4>2, <4>3
    <3>3. Len(u) \in Nat
      BY LenProperties
    <3>4. i = Len(u) + 1 \/ i \in 1..Len(u)
      BY <3>3
    <3> QED
      BY <3>1, <3>2, <3>4
  <2> QED
    BY <1>1, <2>1, <2>4
<1>2. CASE Len(s) = c
  <2>1. s # <<>> /\ t # <<>>
    BY <1>2, EmptySeq
  <2>2. /\ Tail(s) \in Seq(Int) /\ Len(Tail(s)) = Len(s) - 1
        /\ \A i \in 1..Len(Tail(s)) : Tail(s)[i] = s[i + 1]
    BY <2>1, HeadTailProperties
  <2>3. /\ Tail(t) \in Seq(Byte \X Byte) /\ Len(Tail(t)) = Len(t) - 1
        /\ \A i \in 1..Len(Tail(t)) : Tail(t)[i] = t[i + 1]
    BY <2>1, HeadTailProperties
  <2>4. \A i \in 1..Len(Tail(s)) : IsMadeOf(Tail(s)[i], Tail(t)[i])
    <3>1. ASSUME NEW i \in 1..Len(Tail(s)) PROVE IsMadeOf(Tail(s)[i], Tail(t)[i])
      <4>1. i + 1 \in 1..Len(s) /\ Tail(s)[i] = s[i + 1] /\ Tail(t)[i] = t[i + 1]
        BY <2>2, <2>3
      <4> QED
        BY <4>1
    <3> QED
      BY <3>1
  <2>5. Len(Tail(s)) = Len(Tail(t))
    BY <2>2, <2>3
  <2>6. Slid(s, v, c) = Append(Tail(s), v) /\ Slid(t, register, c) = Append(Tail(t), register)
    BY <1>2 DEF Slid
  <2> QED
    BY <1>1, <2>2, <2>3, <2>4, <2>5, <2>6
<1>3. CASE Len(s) # c
  <2>1. Slid(s, v, c) = Append(s, v) /\ Slid(t, register, c) = Append(t, register)
    BY <1>3 DEF Slid
  <2> QED
    BY <1>1, <2>1
<1> QED
  BY <1>2, <1>3

(* What the samples keep.                                                     *)
ReadingsKept ==
  /\ recent \in [States -> Seq(Int)] /\ truth \in [States -> Seq(Byte \X Byte)]
  /\ ReadingsTrue

LEMMA GoodKeeps ==
  ASSUME Unsaturated, ReadingsKept, NEW id, NEW register \in Registers,
         NEW reply \in Replies(register), SampleGood(id, register, reply)
  PROVE  ReadingsKept'
<1>1. register \in Byte \X Byte
  BY PathAssumption
<1>2. PICK bytes : bytes = RegRead(AddressOf[id], reply).bytes
  OBVIOUS
<1>3. bytes[1] = register[1] /\ bytes[2] = register[2]
  BY <1>1, <1>2, ReadIsRegister DEF SampleGood
<1>4. Decoded(bytes) = Decoded(register)
  BY <1>3 DEF Decoded, Be16
<1>5. PICK v : v = Calibrated(Decoded(register))
  OBVIOUS
<1>6. InRange(Decoded(register)) /\ HandleValid(id, v) /\ Remember(id, register)
  BY <1>2, <1>4, <1>5 DEF SampleGood
<1>7. v \in Int /\ IsMadeOf(v, register)
  BY <1>1, <1>5, <1>6, CalibratedIsMade
<1>8. id \in States /\ Capacity[id] \in Nat \ {0}
  BY <1>6, BizAssumption DEF HandleValid
<1>9. PICK s \in Seq(Int), t \in Seq(Byte \X Byte) : s = recent[id] /\ t = truth[id]
  BY <1>8 DEF ReadingsKept
<1>10. /\ recent' = [recent EXCEPT ![id] = Slid(s, v, Capacity[id])]
       /\ truth' = [truth EXCEPT ![id] = Slid(t, register, Capacity[id])]
  BY <1>6, <1>9 DEF HandleValid, Remember, Slid
<1>11. Len(s) = Len(t) /\ \A i \in 1..Len(s) : IsMadeOf(s[i], t[i])
  BY <1>8, <1>9 DEF ReadingsKept, ReadingsTrue
<1>12. PICK s2, t2 : s2 = Slid(s, v, Capacity[id]) /\ t2 = Slid(t, register, Capacity[id])
  OBVIOUS
<1>13. PICK c \in Nat \ {0} : c = Capacity[id]
  BY <1>8
<1>14. /\ Slid(s, v, c) \in Seq(Int) /\ Slid(t, register, c) \in Seq(Byte \X Byte)
       /\ Len(Slid(s, v, c)) = Len(Slid(t, register, c))
       /\ \A i \in 1..Len(Slid(s, v, c)) :
            IsMadeOf(Slid(s, v, c)[i], Slid(t, register, c)[i])
  BY <1>1, <1>7, <1>11, SlidTogether, Zenon
<1>15. /\ s2 \in Seq(Int) /\ t2 \in Seq(Byte \X Byte)
       /\ Len(s2) = Len(t2) /\ \A i \in 1..Len(s2) : IsMadeOf(s2[i], t2[i])
  BY <1>12, <1>13, <1>14, Zenon
<1>16. recent' = [recent EXCEPT ![id] = s2] /\ truth' = [truth EXCEPT ![id] = t2]
  BY <1>10, <1>12
<1>17. recent' \in [States -> Seq(Int)] /\ truth' \in [States -> Seq(Byte \X Byte)]
  BY <1>15, <1>16 DEF ReadingsKept
<1>18. ASSUME NEW other \in States
       PROVE  /\ Len(recent'[other]) = Len(truth'[other])
              /\ \A i \in 1..Len(recent'[other]) : IsMadeOf(recent'[other][i], truth'[other][i])
  <2>1. CASE other = id
    <3>1. recent'[other] = s2 /\ truth'[other] = t2
      BY <1>8, <1>16, <2>1 DEF ReadingsKept
    <3> QED
      BY <1>15, <3>1
  <2>2. CASE other # id
    <3>1. recent'[other] = recent[other] /\ truth'[other] = truth[other]
      BY <1>16, <2>2 DEF ReadingsKept
    <3> QED
      BY <3>1 DEF ReadingsKept, ReadingsTrue
  <2> QED
    BY <2>1, <2>2
<1> QED
  BY <1>17, <1>18 DEF ReadingsKept, ReadingsTrue

(* Every reading that entered a result was made of the sensor's own register, *)
(* exactly rounded, whatever the bus did: for every set of sensors, registers *)
(* and addresses, and every calibration that does not saturate.               *)
THEOREM ReadingsCorrect ==
  ASSUME Unsaturated PROVE PathSpec => []ReadingsTrue
<1>1. PathInit => ReadingsKept
  <2> SUFFICES ASSUME PathInit PROVE ReadingsKept
    OBVIOUS
  <2>1. recent = [id \in States |-> <<>>] /\ truth = [id \in States |-> <<>>]
    BY DEF PathInit, Init
  <2>2. Len(<<>>) = 0
    OBVIOUS
  <2> QED
    BY <2>1, <2>2 DEF ReadingsKept, ReadingsTrue
<1>2. ReadingsKept /\ [PathNext]_pvars => ReadingsKept'
  <2> SUFFICES ASSUME ReadingsKept, [PathNext]_pvars PROVE ReadingsKept'
    OBVIOUS
  <2>1. CASE UNCHANGED <<recent, truth>>
    BY <2>1 DEF ReadingsKept, ReadingsTrue
  <2>2. ASSUME NEW id \in Ids, NEW register \in Registers, NEW reply \in Replies(register),
               SampleGood(id, register, reply)
        PROVE  ReadingsKept'
    BY <2>2, GoodKeeps
  <2>3. ASSUME NEW id, NEW reply, SampleBad(id, reply)
        PROVE  UNCHANGED <<recent, truth>>
    BY <2>3 DEF SampleBad, HandleInvalid
  <2>4. ASSUME NEW id, HandleUnknown(id) /\ UNCHANGED truth
        PROVE  UNCHANGED <<recent, truth>>
    BY <2>4 DEF HandleUnknown, vars
  <2>5. ASSUME NEW address, PlugIn(address)
        PROVE  UNCHANGED <<recent, truth>>
    BY <2>5 DEF PlugIn, vars
  <2>6. ASSUME UNCHANGED pvars PROVE UNCHANGED <<recent, truth>>
    BY <2>6 DEF pvars, vars
  <2>7. ASSUME NEW id \in Ids, Sample(id) PROVE ReadingsKept'
    BY <2>1, <2>2, <2>3, <2>4, <2>7 DEF Sample
  <2> QED
    BY <2>1, <2>5, <2>6, <2>7 DEF PathNext
<1> QED
  BY <1>1, <1>2, PTL DEF PathSpec, ReadingsKept
=============================================================================
