---------------------------- MODULE BeaconProofs ----------------------------
(* Proofs about Beacon, for every configuration of the intervals, any      *)
(* speeds and courses, any corrections of the clock and any lag.           *)
EXTENDS Beacon, TLAPS

\* Unless something upset it, the stamp of the last beacon is at least as recent
\* as the position last on the air.
StampCovers ==
  /\ sentAt <= real
  /\ excuse \cap {"asked", "clock", "status"} = {} => now - last_beacon <= real - sentAt

\* What was set back since a beacon succeeded, and a check of a time that is
\* still to come, are owed to a setting of the clock.
BackByClock == "clock" \notin excuse => setBack = 0 /\ max_beacon_check <= now

\* The stamp of the last beacon is no younger than the position on the air, up
\* to what the clock was set back.
StampBounds == "mute" \notin excuse => real - sentAt <= now - last_beacon + setBack

\* Between two iterations nothing waits; the rest of an iteration is later than
\* its beginning by MaxLag at most.
InStep == IF pc = "select" THEN 0 ELSE MaxLag

\* At the last check the silence was no longer than the longest interval.
SilenceSinceCheck ==
  "mute" \notin excuse =>
    /\ real - sentAt <= Longest + (now - max_beacon_check) + setBack
    /\ real - sentAt <= Longest + InStep + setBack

\* While the clock is steady last_moving is the time of the last movement or,
\* once should_beacon has asked for the report of the stop, 0.
MovementStamp ==
  /\ now > 0 /\ movedAt <= real
  /\ steady => last_moving = 0 \/ now - last_moving = real - movedAt
  /\ steady /\ movedAt >= 0 /\ last_moving = 0 =>
       /\ real > movedAt
       /\ sentAt > movedAt \/ "mute" \in excuse

\* A stop that is to be reported was not yet due at the last check.
Pending ==
  /\ movedAt >= 0 /\ steady
  /\ excuse \cap {"mute", "nolock", "clock"} = {}
  /\ sentAt <= movedAt
StopDue == IF AfterStop > MinGap THEN AfterStop ELSE MinGap
StopSinceCheck ==
  Pending =>
    /\ real - movedAt <= StopDue + (now - max_beacon_check)
    /\ real - movedAt <= StopDue + InStep

IInv ==
  /\ TypeOK /\ StampCovers
  /\ BackByClock /\ StampBounds /\ SilenceSinceCheck
  /\ MovementStamp /\ StopSinceCheck

-----------------------------------------------------------------------------
(* The intervals.                                                          *)

LEMMA LongestIsLongest ==
  /\ Longest \in Nat
  /\ AtRest <= Longest /\ LowInt <= Longest /\ HighInt <= Longest /\ MinGap <= Longest
<1> DEFINE R == Rates \cup {MinGap}
<1>1. \E r \in R : \A s \in R : s <= r
  BY BeaconAssumption DEF Rates
<1>2. Longest \in R /\ \A s \in R : s <= Longest
  BY <1>1 DEF Longest
<1>3. QED
  BY <1>2, BeaconAssumption DEF Rates

LEMMA ShortestIsShortest ==
  /\ Shortest \in Nat /\ Shortest > 0
  /\ Shortest <= AtRest /\ Shortest <= LowInt /\ Shortest <= HighInt
<1>1. \E r \in Rates : \A s \in Rates : r <= s
  BY BeaconAssumption DEF Rates
<1>2. Shortest \in Rates /\ \A s \in Rates : Shortest <= s
  BY <1>1 DEF Shortest
<1>3. QED
  BY <1>2, BeaconAssumption DEF Rates

\* A quotient lies between the numbers whose multiples its dividend lies between.
LEMMA QuotientBetween ==
  ASSUME NEW p \in Int, NEW s \in Nat, s > 0, NEW a \in Int, NEW b \in Int,
         a * s <= p, p <= b * s
  PROVE  p \div s \in Int /\ a <= p \div s /\ p \div s <= b
<1> DEFINE q == p \div s
<1>1. q \in Int /\ s * q <= p /\ p < s * q + s
  BY SMT
<1> HIDE DEF q
<1>2. a < q + 1
  <2>1. a * s < (q + 1) * s
    BY <1>1
  <2>2. QED
    BY <1>1, <2>1
<1>3. q < b + 1
  <2>1. q * s < (b + 1) * s
    BY <1>1
  <2>2. QED
    BY <1>1, <2>1
<1>4. QED
  BY <1>1, <1>2, <1>3 DEF q

LEMMA FractionBetween ==
  ASSUME Mph100 \in Nat, LowSpeed * 100 <= Mph100, Mph100 <= HighSpeed * 100
  PROVE  Fraction \in Int /\ Shortest <= Fraction /\ Fraction <= Longest
<1> DEFINE s == (HighSpeed - LowSpeed) * 100
           x == HighSpeed * 100 - Mph100
           d == LowInt - HighInt
<1>1. s \in Nat /\ s > 0 /\ x \in Int /\ 0 <= x /\ x <= s
  BY BeaconAssumption
<1>2. LowInt \in Nat /\ HighInt \in Nat /\ d \in Int
  BY BeaconAssumption DEF Rates
<1>3. Fraction = HighInt + (d * x) \div s
  BY DEF Fraction
<1> HIDE DEF s, x, d
<1>4. CASE d >= 0
  <2>1. 0 * s <= d * x /\ d * x <= d * s
    BY <1>1, <1>2, <1>4
  <2>2. (d * x) \div s \in Int /\ 0 <= (d * x) \div s /\ (d * x) \div s <= d
    BY <1>1, <1>2, <2>1, QuotientBetween
  <2>3. QED
    BY <1>2, <1>3, <2>2, LongestIsLongest, ShortestIsShortest DEF d
<1>5. CASE d < 0
  <2>1. d * s <= d * x /\ d * x <= 0 * s
    BY <1>1, <1>2, <1>5
  <2>2. (d * x) \div s \in Int /\ d <= (d * x) \div s /\ (d * x) \div s <= 0
    BY <1>1, <1>2, <2>1, QuotientBetween
  <2>3. QED
    BY <1>2, <1>3, <2>2, LongestIsLongest, ShortestIsShortest DEF d
<1>6. QED
  BY <1>2, <1>4, <1>5

\* An interval that should_beacon waits for is one of those configured, or
\* between them: without a stop or a turn a station with data waits no longer
\* than the longest and no shorter than the shortest.
LEMMA ReqBetween ==
  ASSUME TypeOK, ~NoData, Req # -1
  PROVE  Req \in Nat /\ Shortest <= Req /\ Req <= Longest
<1>1. mypos.speed \in Nat
  BY BeaconAssumption DEF TypeOK, Posits
<1>2. Mph100 \in Nat /\ LowSpeed \in Nat /\ HighSpeed \in Nat
  BY <1>1, BeaconAssumption DEF Mph100
<1>3. CASE Req \in Rates
  BY <1>3, LongestIsLongest, ShortestIsShortest, BeaconAssumption DEF Rates
<1>4. CASE Req \notin Rates
  <2>1. Req = Fraction /\ ~(Mph100 < LowSpeed * 100) /\ ~(Mph100 > HighSpeed * 100)
    BY <1>4 DEF Req, Rates
  <2>2. QED
    BY <1>2, <2>1, FractionBetween, ShortestIsShortest
<1>5. QED
  BY <1>3, <1>4

LEMMA NowForAReason ==
  ASSUME TypeOK, ~NoData, Req = -1
  PROVE  Stopped \/ (~(mypos.speed <= 1) /\ Turned)
<1> SUFFICES ASSUME ~Stopped, mypos.speed <= 1 \/ ~Turned PROVE FALSE
  OBVIOUS
<1>1. mypos.speed \in Nat
  BY BeaconAssumption DEF TypeOK, Posits
<1>2. Mph100 \in Nat /\ LowSpeed \in Nat /\ HighSpeed \in Nat
  BY <1>1, BeaconAssumption DEF Mph100
<1>3. -1 \notin Rates
  BY BeaconAssumption
<1>4. Req = Fraction /\ ~(Mph100 < LowSpeed * 100) /\ ~(Mph100 > HighSpeed * 100)
  BY <1>3 DEF Req, Rates
<1>5. QED
  BY <1>2, <1>4, FractionBetween, ShortestIsShortest

\* The smaller of two angles, once by cases and once by its remainder.
LEMMA TurnIsSmallerAngle ==
  ASSUME NEW a \in 0 .. 359, NEW b \in 0 .. 359
  PROVE  Turn(a, b) = SmallerAngle(b, a) /\ Turn(a, b) \in Nat
BY DEF Turn, SmallerAngle

LEMMA TurnedIsATurn ==
  ASSUME TypeOK, Turned
  PROVE  SmallerAngle(mypos.course, last_course) > CourseMin
<1> DEFINE t == Turn(last_course, mypos.course)
<1>1. t = SmallerAngle(mypos.course, last_course) /\ t \in Nat
  BY TurnIsSmallerAngle, BeaconAssumption DEF TypeOK, Posits
<1>2. (t - CourseMin) * Mph100 > CourseSlope * 100
  BY DEF Turned
<1>3. mypos.speed \in Nat /\ CourseMin \in Nat /\ CourseSlope \in Nat
  BY BeaconAssumption DEF TypeOK, Posits
<1>4. Mph100 \in Nat
  BY <1>3 DEF Mph100
<1> HIDE DEF t
<1>5. (t - CourseMin) * Mph100 > 0
  BY <1>1, <1>2, <1>3, <1>4
<1>6. t > CourseMin
  BY <1>1, <1>3, <1>4, <1>5
<1>7. QED
  BY <1>1, <1>6

-----------------------------------------------------------------------------
(* Each action keeps the invariant.                                        *)

LEMMA InitOK == Init => IInv
<1> SUFFICES ASSUME Init PROVE IInv
  OBVIOUS
<1>1. TypeOK /\ StampCovers
  BY BeaconAssumption DEF Init, TypeOK, StampCovers, Posits, Excuses
<1>2. BackByClock /\ StampBounds /\ SilenceSinceCheck /\ MovementStamp /\ StopSinceCheck
  BY BeaconAssumption DEF Init, BackByClock, StampBounds, SilenceSinceCheck,
                          MovementStamp, StopSinceCheck, Pending
<1>3. QED
  BY <1>1, <1>2 DEF IInv

LEMMA LagType == InStep \in Nat /\ StopDue \in Nat /\ MinGap <= StopDue /\ AfterStop <= StopDue
BY BeaconAssumption DEF InStep, StopDue

LEMMA WaitKeeps == IInv /\ Wait => IInv'
<1> SUFFICES ASSUME IInv, Wait PROVE IInv'
  OBVIOUS
<1> USE DEF IInv
<1>1. PICK d \in 0 .. MaxLag :
        real + d <= Horizon /\ real' = real + d /\ now' = now + d
  BY DEF Wait
<1>2. /\ UNCHANGED <<max_beacon_check, last_beacon, last_gps_data, last_moving, last_status,
                     last_time_set, mypos, last_course, sentAt, movedAt, steady, setBack, excuse>>
      /\ pc = "select" /\ pc' = "gps"
  BY DEF Wait, stamps, history
<1>3. d \in Nat /\ d <= MaxLag
  BY <1>1, BeaconAssumption
<1>4. TypeOK' /\ StampCovers' /\ BackByClock' /\ StampBounds'
  BY <1>1, <1>2, <1>3 DEF TypeOK, StampCovers, BackByClock, StampBounds
<1>5. SilenceSinceCheck'
  BY <1>1, <1>2, <1>3, LongestIsLongest, BeaconAssumption
     DEF TypeOK, SilenceSinceCheck, InStep
<1>6. MovementStamp'
  BY <1>1, <1>2, <1>3 DEF TypeOK, MovementStamp
<1>7. StopSinceCheck'
  BY <1>1, <1>2, <1>3, LagType, BeaconAssumption
     DEF TypeOK, StopSinceCheck, Pending, StopDue, InStep
<1>8. QED
  BY <1>4, <1>5, <1>6, <1>7

\* A handler after the first of an iteration that touches neither the clock
\* nor what the history is about.
LEMMA QuietKeeps ==
  ASSUME IInv, pc # "select", pc' # "select", pc' \in {"gps", "display", "beacon"},
         UNCHANGED <<now, real, max_beacon_check, stamps, mypos, last_course, history>>
  PROVE  IInv'
BY DEF IInv, TypeOK, StampCovers, BackByClock, StampBounds, SilenceSinceCheck,
       MovementStamp, StopSinceCheck, Pending, StopDue, InStep, stamps, history

LEMMA NoInputKeeps == IInv /\ NoInput => IInv'
<1> SUFFICES ASSUME IInv, NoInput PROVE IInv'
  OBVIOUS
<1>1. pc # "select" /\ pc' \in {"display", "beacon"}
  BY DEF NoInput
<1>2. QED
  BY <1>1, QuietKeeps DEF NoInput

LEMMA GpsDataKeeps == IInv /\ GpsData => IInv'
<1> SUFFICES ASSUME IInv, GpsData PROVE IInv'
  OBVIOUS
<1> USE DEF IInv
<1>1. PICK m \in Nat : now' = m /\ m > 0
  <2>1. now' \in Nat \ {0}
    BY DEF GpsData, SetTime, TypeOK, MovementStamp
  <2>2. QED
    BY <2>1
<1>2. last_time_set' \in Nat
  BY <1>1 DEF GpsData, SetTime, TypeOK
<1>3. /\ UNCHANGED <<real, max_beacon_check, last_beacon, last_status, last_course, sentAt>>
      /\ pc = "gps" /\ pc' = "display"
      /\ mypos' \in Posits /\ last_gps_data' \in {last_gps_data, now}
      /\ excuse' = IF now' = now THEN excuse ELSE excuse \cup {"clock"}
  BY DEF GpsData
<1>4. PICK b \in Nat :
        /\ setBack' = b /\ m + b >= now + setBack /\ b >= setBack
        /\ m = now => b = setBack
  <2>1. setBack' = IF m < now THEN setBack + (now - m) ELSE setBack
    BY <1>1 DEF GpsData
  <2>2. QED
    BY <2>1 DEF TypeOK
<1>5. /\ steady' \in BOOLEAN /\ (steady' => now' = now)
      /\ \/ last_moving' = now /\ movedAt' = real
         \/ UNCHANGED <<last_moving, movedAt>> /\ (steady' => steady)
  BY DEF GpsData
<1>6. /\ excuse' \subseteq Excuses /\ excuse \subseteq excuse'
      /\ "clock" \notin excuse' => m = now
  BY <1>1, <1>3 DEF TypeOK, Excuses
<1>7. TypeOK'
  <2>1. now \in Nat /\ real \in 0 .. Horizon /\ real \in Int
    BY DEF TypeOK
  <2>2. last_moving' \in Nat /\ movedAt' \in Int /\ last_gps_data' \in Nat
    BY <1>3, <1>5, <2>1 DEF TypeOK
  <2>3. real' \in 0 .. Horizon /\ pc' \in {"select", "gps", "display", "beacon"}
    BY <1>3, <2>1
  <2>4. now' \in Nat /\ setBack' \in Nat
    BY <1>1, <1>4
  <2>5. /\ max_beacon_check' \in Nat /\ last_beacon' \in Nat /\ last_status' \in Nat
        /\ last_course' \in Courses /\ sentAt' \in Int
    BY <1>3 DEF TypeOK
  <2>6. mypos' \in Posits /\ steady' \in BOOLEAN /\ excuse' \subseteq Excuses
    BY <1>3, <1>5, <1>6
  <2>7. QED
    BY <1>2, <2>2, <2>3, <2>4, <2>5, <2>6 DEF TypeOK
<1>8. StampCovers'
  BY <1>1, <1>3, <1>6 DEF TypeOK, StampCovers
<1>9. BackByClock'
  BY <1>1, <1>3, <1>4, <1>6 DEF TypeOK, BackByClock
<1>10. StampBounds'
  BY <1>1, <1>3, <1>4, <1>6 DEF TypeOK, StampBounds
<1>11. SilenceSinceCheck'
  BY <1>1, <1>3, <1>4, <1>6, LongestIsLongest, BeaconAssumption
     DEF TypeOK, SilenceSinceCheck, InStep
<1>12. MovementStamp'
  BY <1>1, <1>3, <1>5 DEF TypeOK, MovementStamp
<1>13. StopSinceCheck'
  BY <1>1, <1>3, <1>5, LagType, BeaconAssumption
     DEF TypeOK, BackByClock, StopSinceCheck, Pending, InStep
<1>14. QED
  BY <1>7, <1>8, <1>9, <1>10, <1>11, <1>12, <1>13

LEMMA BeaconNowKeeps == IInv /\ BeaconNow => IInv'
<1> SUFFICES ASSUME IInv, BeaconNow PROVE IInv'
  OBVIOUS
<1> USE DEF IInv
<1>1. /\ UNCHANGED <<now, real, max_beacon_check, last_gps_data, last_moving, last_status,
                     last_time_set, mypos, last_course, sentAt, movedAt, steady, setBack>>
      /\ last_beacon' = 0 /\ excuse' = excuse \cup {"asked"}
      /\ pc = "display" /\ pc' = "beacon"
  BY DEF BeaconNow
<1>2. TypeOK' /\ StampCovers' /\ BackByClock' /\ StampBounds'
  BY <1>1 DEF TypeOK, StampCovers, BackByClock, StampBounds, Excuses
<1>3. SilenceSinceCheck' /\ MovementStamp' /\ StopSinceCheck'
  BY <1>1 DEF SilenceSinceCheck, MovementStamp, StopSinceCheck, Pending, StopDue, InStep
<1>4. QED
  BY <1>2, <1>3

LEMMA SkipCheckKeeps == IInv /\ SkipCheck => IInv'
<1> SUFFICES ASSUME IInv, SkipCheck PROVE IInv'
  OBVIOUS
<1> USE DEF IInv
<1>1. /\ UNCHANGED <<now, real, max_beacon_check, last_beacon, last_gps_data, last_moving,
                     last_status, last_time_set, mypos, last_course, sentAt, movedAt, steady,
                     setBack, excuse>>
      /\ pc = "beacon" /\ pc' = "select"
  BY DEF SkipCheck, stamps, history
<1>2. now - max_beacon_check <= 0
  BY DEF SkipCheck, Checking, HasBeen, TypeOK
<1>3. TypeOK' /\ StampCovers' /\ BackByClock' /\ StampBounds' /\ MovementStamp'
  BY <1>1 DEF TypeOK, StampCovers, BackByClock, StampBounds, MovementStamp
<1>4. SilenceSinceCheck'
  BY <1>1, <1>2, LongestIsLongest DEF TypeOK, SilenceSinceCheck, InStep
<1>5. StopSinceCheck'
  BY <1>1, <1>2, LagType DEF TypeOK, StopSinceCheck, Pending, StopDue, InStep
<1>6. QED
  BY <1>3, <1>4, <1>5

\* should_beacon leaves a position, and clears the stamp of the movement only
\* when it asks for the report of a stop.
LEMMA JudgeType ==
  ASSUME TypeOK, JudgePosition
  PROVE  /\ mypos' \in Posits /\ mypos'.course \in Courses
         /\ \/ last_moving' = last_moving
            \/ last_moving' = 0 /\ Stopped /\ ~TooSoon /\ ~NoData /\ ~NoLock
<1>1. mypos' \in Posits
  BY BeaconAssumption DEF TypeOK, JudgePosition, Posits
<1>2. mypos'.course \in Courses
  BY <1>1 DEF Posits
<1>3. \/ last_moving' = last_moving
      \/ last_moving' = 0 /\ Stopped /\ ~TooSoon /\ ~NoData /\ ~NoLock
  BY DEF JudgePosition, MovingAfter
<1>4. QED
  BY <1>1, <1>2, <1>3

LEMMA StopIsDue ==
  ASSUME Stopped, ~TooSoon, ~NoData, ~NoLock
  PROVE  Due
BY DEF Due, Req

LEMMA HoldBeaconKeeps == IInv /\ HoldBeacon => IInv'
<1> SUFFICES ASSUME IInv, HoldBeacon PROVE IInv'
  OBVIOUS
<1> USE DEF IInv
<1>1. /\ UNCHANGED <<now, real, last_beacon, last_gps_data, last_status, last_time_set,
                     last_course, sentAt, movedAt, steady, setBack>>
      /\ max_beacon_check' = now /\ excuse' = excuse \cup NewExcuses
      /\ pc = "beacon" /\ pc' = "select" /\ JudgePosition /\ ~Due
  BY DEF HoldBeacon
<1>2. mypos' \in Posits /\ last_moving' = last_moving
  BY <1>1, JudgeType, StopIsDue
<1>3. /\ excuse' \subseteq Excuses /\ excuse \subseteq excuse'
      /\ "clock" \notin excuse' => "clock" \notin excuse
  BY <1>1 DEF TypeOK, Excuses, NewExcuses
<1>4. TypeOK'
  BY <1>1, <1>2, <1>3 DEF TypeOK
<1>5. StampCovers' /\ BackByClock' /\ StampBounds' /\ MovementStamp'
  BY <1>1, <1>2, <1>3 DEF TypeOK, StampCovers, BackByClock, StampBounds, MovementStamp
<1>6. SilenceSinceCheck'
  <2> SUFFICES ASSUME "mute" \notin excuse'
               PROVE  real - sentAt <= Longest + setBack
    BY <1>1, LongestIsLongest DEF TypeOK, SilenceSinceCheck, InStep
  <2>1. real - sentAt <= now - last_beacon + setBack
    BY <1>3 DEF StampBounds
  <2>2. CASE TooSoon
    BY <2>1, <2>2, LongestIsLongest, BeaconAssumption DEF TooSoon, TypeOK
  <2>3. CASE ~TooSoon
    <3>1. ~NoData
      BY <1>1, <2>3 DEF NewExcuses
    <3>2. Req # -1 /\ ~(Req > 0 /\ now - last_beacon > Req)
      BY <1>1, <2>3 DEF Due, HasBeen
    <3>3. Req \in Nat /\ Shortest <= Req /\ Req <= Longest
      BY <3>1, <3>2, ReqBetween
    <3>4. Req > 0
      BY <3>3, ShortestIsShortest
    <3>5. now - last_beacon <= Longest
      BY <3>2, <3>3, <3>4, LongestIsLongest DEF TypeOK
    <3>6. QED
      BY <2>1, <3>5, LongestIsLongest DEF TypeOK
  <2>4. QED
    BY <2>2, <2>3
<1>7. StopSinceCheck'
  <2> SUFFICES ASSUME Pending'
               PROVE  real - movedAt <= StopDue
    BY <1>1, LagType DEF TypeOK, StopSinceCheck, InStep
  <2>1. /\ movedAt >= 0 /\ steady /\ sentAt <= movedAt
        /\ excuse' \cap {"mute", "nolock", "clock"} = {}
    BY <1>1 DEF Pending
  <2>2. "mute" \notin excuse /\ "clock" \notin excuse
    BY <1>3, <2>1
  <2>3. CASE TooSoon
    BY <2>1, <2>2, <2>3, LagType, BeaconAssumption
       DEF TooSoon, TypeOK, BackByClock, StampBounds
  <2>4. CASE ~TooSoon
    <3>1. ~NoData /\ ~NoLock
      BY <1>1, <2>1, <2>4 DEF NewExcuses
    <3>2. ~Stopped
      BY <1>1, <2>4, <3>1, StopIsDue
    <3>3. last_moving # 0 /\ now - last_moving = real - movedAt
      BY <2>1, <2>2 DEF MovementStamp, TypeOK
    <3>4. QED
      BY <3>2, <3>3, LagType, BeaconAssumption DEF Stopped, HasBeen, TypeOK
  <2>5. QED
    BY <2>3, <2>4
<1>8. QED
  BY <1>4, <1>5, <1>6, <1>7

LEMMA SendBeaconKeeps == IInv /\ SendBeacon => IInv'
<1> SUFFICES ASSUME IInv, SendBeacon PROVE IInv'
  OBVIOUS
<1> USE DEF IInv
<1>1. /\ UNCHANGED <<now, real, last_gps_data, last_time_set, movedAt, steady>>
      /\ max_beacon_check' = now
      /\ pc = "beacon" /\ pc' = "select" /\ JudgePosition /\ Due
      /\ last_status' \in {now, last_status}
  BY DEF SendBeacon
<1>2. PICK position \in Outcomes, ret \in BOOLEAN :
        /\ Record(ret)
        /\ sentAt' = IF position.air THEN real ELSE sentAt
        /\ setBack' = IF position.air /\ ret THEN 0 ELSE setBack
        /\ excuse' = IF ~position.air THEN excuse \cup NewExcuses \cup {"mute"}
                     ELSE IF ~ret THEN excuse \cup NewExcuses \cup {"status"}
                     ELSE {}
  <2>1. PICK position \in Outcomes, status \in Outcomes :
          LET ret == IF WithStatus THEN status.ret ELSE position.ret IN
          /\ Record(ret)
          /\ sentAt' = IF position.air THEN real ELSE sentAt
          /\ setBack' = IF position.air /\ ret THEN 0 ELSE setBack
          /\ excuse' = IF ~position.air THEN excuse \cup NewExcuses \cup {"mute"}
                       ELSE IF ~ret THEN excuse \cup NewExcuses \cup {"status"}
                       ELSE {}
    BY DEF SendBeacon
  <2>2. (IF WithStatus THEN status.ret ELSE position.ret) \in BOOLEAN
    BY BeaconAssumption
  <2>3. QED
    BY <2>1, <2>2
<1>3. /\ mypos' \in Posits /\ mypos'.course \in Courses
      /\ \/ last_moving' = last_moving
         \/ last_moving' = 0 /\ Stopped /\ ~TooSoon /\ ~NoData /\ ~NoLock
  BY <1>1, JudgeType
<1>4. NewExcuses \subseteq {"mute", "nolock"}
  BY DEF NewExcuses
\* What the packets may have come to.
<1>5. \/ /\ sentAt' = real /\ excuse' = {} /\ setBack' = 0
         /\ last_beacon' = now /\ last_course' = mypos'.course
      \/ /\ sentAt' = real /\ excuse' = excuse \cup NewExcuses \cup {"status"}
         /\ UNCHANGED <<setBack, last_beacon, last_course>>
      \/ /\ UNCHANGED <<sentAt, setBack>>
         /\ excuse' = excuse \cup NewExcuses \cup {"mute"}
         /\ \/ last_beacon' = now /\ last_course' = mypos'.course
            \/ UNCHANGED <<last_beacon, last_course>>
  BY <1>2 DEF Record
<1>6. TypeOK'
  <2>1. /\ now \in Nat /\ now' \in Nat /\ real' \in 0 .. Horizon /\ real \in Int
        /\ max_beacon_check' \in Nat /\ last_gps_data' \in Nat /\ last_time_set' \in Nat
        /\ movedAt' \in Int /\ steady' \in BOOLEAN
        /\ pc' \in {"select", "gps", "display", "beacon"}
    BY <1>1 DEF TypeOK
  <2>2. last_status' \in Nat /\ last_moving' \in Nat
    BY <1>1, <1>3, <2>1 DEF TypeOK
  <2>3. last_beacon' \in Nat /\ last_course' \in Courses
    BY <1>3, <1>5, <2>1 DEF TypeOK
  <2>4. sentAt' \in Int /\ setBack' \in Nat
    BY <1>5, <2>1 DEF TypeOK
  <2>5. excuse' \subseteq Excuses
    BY <1>4, <1>5 DEF TypeOK, Excuses
  <2>6. QED
    BY <1>3, <2>1, <2>2, <2>3, <2>4, <2>5 DEF TypeOK
<1>7. StampCovers'
  BY <1>1, <1>5 DEF TypeOK, StampCovers
<1>8. BackByClock'
  BY <1>1, <1>5 DEF TypeOK, BackByClock
<1>9. StampBounds'
  BY <1>1, <1>5 DEF TypeOK, StampCovers, StampBounds
<1>10. SilenceSinceCheck'
  <2> SUFFICES ASSUME "mute" \notin excuse'
               PROVE  real' - sentAt' <= Longest + setBack'
    BY <1>1, <1>5, LongestIsLongest DEF TypeOK, SilenceSinceCheck, InStep
  <2>1. sentAt' = real /\ (setBack' = 0 \/ setBack' = setBack)
    BY <1>5
  <2>2. QED
    BY <1>1, <2>1, LongestIsLongest DEF TypeOK
<1>11. MovementStamp'
  <2>1. now' > 0 /\ movedAt' <= real' /\ movedAt' = movedAt /\ steady' = steady
    BY <1>1 DEF MovementStamp
  <2>2. steady' => last_moving' = 0 \/ now' - last_moving' = real' - movedAt'
    BY <1>1, <1>3 DEF MovementStamp, TypeOK
  <2>3. ASSUME steady, movedAt >= 0, last_moving' = 0
        PROVE  real > movedAt
    <3>1. CASE last_moving = 0
      BY <2>3, <3>1 DEF MovementStamp
    <3>2. CASE last_moving # 0
      BY <1>3, <2>3, <3>2, BeaconAssumption DEF MovementStamp, Stopped, HasBeen, TypeOK
    <3>3. QED
      BY <3>1, <3>2
  <2>4. sentAt' = real \/ "mute" \in excuse'
    BY <1>5
  <2>5. QED
    BY <1>1, <2>1, <2>2, <2>3, <2>4 DEF MovementStamp
<1>12. StopSinceCheck'
  <2> SUFFICES ASSUME Pending'
               PROVE  real - movedAt <= StopDue
    BY <1>1, LagType DEF TypeOK, StopSinceCheck, InStep
  <2>1. sentAt' <= movedAt /\ "mute" \notin excuse'
    BY <1>1 DEF Pending
  <2>2. sentAt' = real
    BY <1>5, <2>1
  <2>3. QED
    BY <2>1, <2>2, LagType DEF TypeOK
<1>13. QED
  BY <1>6, <1>7, <1>8, <1>9, <1>10, <1>11, <1>12

LEMMA NextKeeps == IInv /\ [Next]_vars => IInv'
<1> SUFFICES ASSUME IInv, [Next]_vars PROVE IInv'
  OBVIOUS
<1>1. CASE UNCHANGED vars
  BY <1>1 DEF vars, stamps, history, IInv, TypeOK, StampCovers, BackByClock, StampBounds,
              SilenceSinceCheck, MovementStamp, StopSinceCheck, Pending, InStep
<1>2. CASE Next
  BY <1>2, WaitKeeps, NoInputKeeps, GpsDataKeeps, BeaconNowKeeps, SkipCheckKeeps,
     HoldBeaconKeeps, SendBeaconKeeps DEF Next
<1>3. QED
  BY <1>1, <1>2

-----------------------------------------------------------------------------
(* The properties.                                                         *)

\* What holds of the stamps in every reachable state.
THEOREM Invariance == Spec => []IInv
<1>1. QED
  BY InitOK, NextKeeps, PTL DEF Spec

\* All variables keep their types (aprs.c, time_t stamps and MYPOS).
THEOREM TypeCorrect == Spec => []TypeOK
BY Invariance, PTL DEF IInv

\* A position goes on the air in SendBeacon only.
LEMMA OnlySendBeaconSends ==
  ASSUME [Next]_vars, Sends
  PROVE  SendBeacon
BY DEF Sends, Next, vars, history, Wait, NoInput, GpsData, BeaconNow, SkipCheck, HoldBeacon

\* should_beacon's ten seconds hold in real time for every configuration, as
\* long as nobody asks, the clock is left alone and no status packet fails.
THEOREM GapIsKept == Spec => MinGapKept
<1>1. ASSUME IInv, [Next]_vars
      PROVE  [GapKept]_vars
  <2> USE DEF IInv, TypeOK
  <2>1. CASE Sends
    <3>1. now - last_beacon >= MinGap
      BY <1>1, <2>1, OnlySendBeaconSends, BeaconAssumption DEF SendBeacon, Due, TooSoon
    <3>2. QED
      BY <1>1, <3>1, BeaconAssumption DEF StampCovers, GapKept
  <2>2. CASE ~Sends
    BY <2>2 DEF GapKept
  <2>3. QED
    BY <2>1, <2>2
<1>2. QED
  BY <1>1, Invariance, PTL DEF Spec, MinGapKept

\* A position that goes out before the shortest interval has passed since the
\* one before it is owed to a stop that has lasted for after_stop or to a turn
\* over the smaller angle, whatever the speeds, slopes and courses.
THEOREM EarlyOnesHaveCause == Spec => EarlyHasCause
<1>1. ASSUME IInv, [Next]_vars
      PROVE  [HasCause]_vars
  <2> USE DEF IInv
  <2> SUFFICES ASSUME Sends, real - sentAt <= Shortest, excuse = {}, steady
               PROVE  \/ mypos.speed > 1 /\ SmallerAngle(mypos.course, last_course) > CourseMin
                      \/ real - movedAt > AfterStop
    BY DEF HasCause
  <2>1. Due
    BY <1>1, OnlySendBeaconSends DEF SendBeacon
  <2>2. now - last_beacon <= Shortest
    BY <1>1, ShortestIsShortest DEF TypeOK, StampCovers
  <2>3. ~NoData
    BY <2>1 DEF Due, Req
  <2>4. Req = -1
    <3>1. CASE Req # -1
      <4>1. Req \in Nat /\ Shortest <= Req
        BY <1>1, <2>3, <3>1, ReqBetween
      <4>2. now - last_beacon > Req
        BY <2>1, <3>1 DEF Due, HasBeen
      <4>3. QED
        BY <1>1, <2>2, <4>1, <4>2, ShortestIsShortest DEF TypeOK
    <3>2. QED
      BY <3>1
  <2>5. Stopped \/ (~(mypos.speed <= 1) /\ Turned)
    BY <1>1, <2>3, <2>4, NowForAReason
  <2>6. CASE Stopped
    BY <1>1, <2>6, BeaconAssumption DEF Stopped, HasBeen, MovementStamp, TypeOK
  <2>7. CASE ~(mypos.speed <= 1) /\ Turned
    <3>1. SmallerAngle(mypos.course, last_course) > CourseMin
      BY <1>1, <2>7, TurnedIsATurn
    <3>2. mypos.speed \in Nat
      BY <1>1, BeaconAssumption DEF TypeOK, Posits
    <3>3. QED
      BY <2>7, <3>1, <3>2
  <2>8. QED
    BY <2>5, <2>6, <2>7
<1>2. QED
  BY <1>1, Invariance, PTL DEF Spec, EarlyHasCause

\* The station's silence is bounded by its longest interval and the lag of its
\* loop, however often the clock was set and the handlers ran: should_beacon
\* never skips a beacon that is due.
THEOREM SilenceIsBounded == Spec => []SilenceBounded
<1>1. IInv => SilenceBounded
  BY LagType, LongestIsLongest, BeaconAssumption
     DEF IInv, TypeOK, SilenceSinceCheck, SilenceBounded, InStep
<1>2. QED
  BY <1>1, Invariance, PTL

\* The report of a stop is not lost and not late: once the station has stood
\* for after_stop a position has gone out, whatever its interval at rest.
THEOREM StopsAreReported == Spec => []StopReported
<1>1. ASSUME IInv
      PROVE  StopReported
  <2> SUFFICES ASSUME Pending, real - movedAt > AfterStop + MaxLag,
                      real - movedAt > MinGap + MaxLag
               PROVE  FALSE
    BY <1>1 DEF IInv, TypeOK, StopReported, Pending
  <2>1. real - movedAt <= StopDue + InStep
    BY <1>1 DEF IInv, StopSinceCheck
  <2>2. QED
    BY <1>1, <2>1, LagType, BeaconAssumption DEF IInv, TypeOK, StopDue, InStep
<1>2. QED
  BY <1>1, Invariance, PTL
=============================================================================
