------------------------------- MODULE Beacon -------------------------------
(***************************************************************************)
(* When the tracker sends its position (aprs.c): should_beacon and beacon, *)
(* with what sets their time stamps: the handler of the GPS, which also    *)
(* sets the clock of the machine, and BEACONNOW from the display.          *)
(*                                                                         *)
(* Time is counted in whole seconds, as time(NULL) does.  now is the clock *)
(* of the machine, real the time that has passed since the start: they     *)
(* drift apart when the clock is set.  A position is its speed in knots,   *)
(* its fix quality and its course; which of them a sentence changes is     *)
(* left open.  A handler takes no time; select waits up to MaxLag.         *)
(*                                                                         *)
(* X_Faulty is a plausible wrong version of X that the specification does  *)
(* not use.                                                                *)
(***************************************************************************)
EXTENDS Integers

CONSTANTS
  MinGap,        \* 10, "NEVER more often than every 10 seconds!"
  DataAge,       \* 30, age beyond which GPS data counts as gone
  StatusGap,     \* 120, least age of the last status packet to send another
  AtRest,        \* conf.atrest_rate
  LowInt, LowSpeed,     \* conf.sb_low
  HighInt, HighSpeed,   \* conf.sb_high
  CourseMin, CourseSlope,  \* conf.course_change_min, _slope
  AfterStop,     \* conf.after_stop
  GpsTimeUpdate, \* conf.gps_time_update in seconds, 0 for never
  StaticCourse,  \* conf.static_crs
  Speeds,        \* speeds the GPS may report, knots
  Courses,       \* courses the GPS may report, degrees
  Jumps,         \* corrections of the clock
  Outcomes,      \* what send_beacon may do: returned true? on the air?
  Boot,          \* the clock at the start of the program
  MaxLag,        \* longest wait between two iterations of the loop
  Horizon        \* bound: seconds looked at

Rates   == {AtRest, LowInt, HighInt}
Posits  == [speed : Speeds, qual : {0, 1}, course : Courses]
Longest  == CHOOSE r \in Rates \cup {MinGap} : \A s \in Rates \cup {MinGap} : s <= r
Shortest == CHOOSE r \in Rates : \A s \in Rates : r <= s

\* The epoch, which is the value of a stamp never set, is longer ago than
\* anything that is compared with a stamp.
ASSUME BeaconAssumption ==
  /\ MinGap \in Nat /\ DataAge \in Nat /\ StatusGap \in Nat /\ AfterStop \in Nat
  /\ Rates \subseteq Nat \ {0}
  /\ LowSpeed \in Nat /\ HighSpeed \in Nat /\ LowSpeed < HighSpeed
  /\ CourseMin \in Nat /\ CourseSlope \in Nat
  /\ GpsTimeUpdate \in Nat
  /\ Speeds \subseteq Nat /\ 0 \in Speeds
  /\ Courses \subseteq 0 .. 359 /\ {0, StaticCourse} \subseteq Courses
  /\ Jumps \subseteq Int
  /\ Outcomes \subseteq [ret : BOOLEAN, air : BOOLEAN]
  /\ MaxLag \in Nat /\ Horizon \in Nat
  /\ Boot \in Nat /\ Boot > MinGap

VARIABLES
  now, real,
  max_beacon_check, last_beacon, last_gps_data, last_moving, last_status,
  last_time_set,
  mypos,        \* MYPOS(state)
  last_course,  \* state.last_beacon_pos.course
  pc,           \* the handler main runs next
  sentAt,       \* history: real time a position last went on the air
  movedAt,      \* history: real time the GPS last showed movement
  steady,       \* history: the clock was not set since then, nor when it did
  setBack,      \* history: by how much the clock was set back, and
  excuse        \* what else may have upset the timing, since a beacon succeeded

stamps  == <<last_beacon, last_gps_data, last_moving, last_status, last_time_set>>
history == <<sentAt, movedAt, steady, setBack, excuse>>
vars    == <<now, real, max_beacon_check, stamps, mypos, last_course, pc, history>>

\* asked: BEACONNOW.  status: a position got on the air and the status packet
\* after it failed.  clock: the clock was set.  mute: the GPS gave no data or a
\* position did not get on the air.  nolock: the GPS had no fix.
Excuses == {"asked", "status", "clock", "mute", "nolock"}

TypeOK ==
  /\ now \in Nat /\ real \in 0 .. Horizon
  /\ max_beacon_check \in Nat
  /\ last_beacon \in Nat /\ last_gps_data \in Nat /\ last_moving \in Nat
  /\ last_status \in Nat /\ last_time_set \in Nat
  /\ mypos \in Posits /\ last_course \in Courses
  /\ pc \in {"select", "gps", "display", "beacon"}
  /\ sentAt \in Int /\ movedAt \in Int
  /\ steady \in BOOLEAN /\ setBack \in Nat
  /\ excuse \subseteq Excuses

Init ==
  /\ now = Boot /\ real = 0
  /\ max_beacon_check = 0
  /\ last_beacon = 0 /\ last_gps_data = 0 /\ last_moving = 0
  /\ last_status = 0 /\ last_time_set = 0
  /\ mypos = [speed |-> 0, qual |-> 0, course |-> 0]
  /\ last_course = 0
  /\ pc = "select"
  /\ sentAt = -Boot /\ movedAt = -Boot
  /\ steady = TRUE /\ setBack = 0 /\ excuse = {"mute"}

\* HAS_BEEN
HasBeen(stamp, d) == now - stamp > d

-----------------------------------------------------------------------------
(* The loop waits, then runs the GPS, the display and beacon, in this      *)
(* order.                                                                  *)

Wait ==
  /\ pc = "select"
  /\ \E d \in 0 .. MaxLag :
       /\ real + d <= Horizon
       /\ real' = real + d
       /\ now' = now + d
  /\ pc' = "gps"
  /\ UNCHANGED <<max_beacon_check, stamps, mypos, last_course, history>>

NoInput ==
  /\ pc \in {"gps", "display"}
  /\ pc' = IF pc = "gps" THEN "display" ELSE "beacon"
  /\ UNCHANGED <<now, real, max_beacon_check, stamps, mypos, last_course, history>>

\* set_time: the clock is corrected by more than two seconds or not at all.
SetTime(j) ==
  /\ now' = IF j > 2 \/ j < -2 THEN now + j ELSE now
  /\ last_time_set' = now'
MaySetTime ==
  /\ GpsTimeUpdate > 0
  /\ last_time_set = 0 \/ HasBeen(last_time_set, GpsTimeUpdate)

\* handle_gps_data.  A sentence that is not accepted may still have moved
\* MYPOS on to another of the kept positions.  The clock is never set to the
\* epoch, the value of a stamp never set.
GpsData ==
  /\ pc = "gps"
  /\ mypos' \in Posits
  /\ last_gps_data' \in {last_gps_data, now}
  /\ last_moving' = IF mypos'.speed > 0 THEN now ELSE last_moving
  /\ movedAt' = IF mypos'.speed > 0 THEN real ELSE movedAt
  /\ \/ UNCHANGED <<now, last_time_set>>
     \/ /\ mypos'.qual > 0 /\ MaySetTime
        /\ \E j \in Jumps : now + j \in Nat \ {0} /\ SetTime(j)
  /\ steady' = (now' = now /\ (steady \/ mypos'.speed > 0))
  /\ setBack' = IF now' < now THEN setBack + (now - now') ELSE setBack
  /\ excuse' = IF now' = now THEN excuse ELSE excuse \cup {"clock"}
  /\ pc' = "display"
  /\ UNCHANGED <<real, max_beacon_check, last_beacon, last_status, last_course,
                 sentAt>>

\* handle_display on BEACONNOW
BeaconNow ==
  /\ pc = "display"
  /\ last_beacon' = 0
  /\ excuse' = excuse \cup {"asked"}
  /\ pc' = "beacon"
  /\ UNCHANGED <<now, real, max_beacon_check, last_gps_data, last_moving,
                 last_status, last_time_set, mypos, last_course, sentAt, movedAt,
                 steady, setBack>>

-----------------------------------------------------------------------------
(* should_beacon.  Speeds are compared in hundredths of a mile per hour,   *)
(* one knot being 1.15 miles per hour.                                     *)

Mph100 == 115 * mypos.speed

\* A change of course is at most half a turn.
Turn_Faulty(a, b) == IF a > b THEN a - b ELSE b - a
Turn(a, b) ==
  LET d == IF a > b THEN a - b ELSE b - a
  IN  IF d > 180 THEN 360 - d ELSE d

\* sb_course_change_thresh is CourseMin plus CourseSlope over the speed.
Turned ==
  /\ (Turn(last_course, mypos.course) - CourseMin) * Mph100 > CourseSlope * 100
  /\ Mph100 > 200

\* The interval falls from LowInt to HighInt as the speed goes from LowSpeed
\* to HighSpeed.
Fraction ==
  HighInt + ((LowInt - HighInt) * (HighSpeed * 100 - Mph100))
              \div ((HighSpeed - LowSpeed) * 100)

TooSoon_Faulty == now - last_beacon < MinGap - 1
TooSoon == now - last_beacon < MinGap
NoData  == HasBeen(last_gps_data, DataAge)
NoLock  == mypos.qual = 0
Stopped_Faulty == mypos.speed > 1 /\ last_moving # 0 /\ HasBeen(last_moving, AfterStop)
Stopped == last_moving # 0 /\ HasBeen(last_moving, AfterStop)

\* The time that must have passed: 0 for never, -1 for now.
Req ==
  IF NoData THEN 0
  ELSE IF NoLock THEN AtRest
  ELSE IF Stopped THEN -1
  ELSE IF mypos.speed <= 1 THEN AtRest
  ELSE IF Turned THEN -1
  ELSE IF Mph100 < LowSpeed * 100 THEN LowInt
  ELSE IF Mph100 > HighSpeed * 100 THEN HighInt
  ELSE Fraction

Due == ~TooSoon /\ (Req = -1 \/ (Req > 0 /\ HasBeen(last_beacon, Req)))

\* What should_beacon changes on its way.
MovingAfter_Faulty(stop) == IF stop THEN Req ELSE last_moving
MovingAfter(stop) == IF stop THEN 0 ELSE last_moving

JudgePosition ==
  /\ mypos' = IF TooSoon THEN mypos
              ELSE IF NoData THEN [mypos EXCEPT !.qual = 0]
              ELSE IF NoLock THEN [mypos EXCEPT !.course = StaticCourse]
              ELSE mypos
  /\ last_moving' = MovingAfter(~TooSoon /\ ~NoData /\ ~NoLock /\ Stopped)
NewExcuses ==
  IF TooSoon THEN {}
  ELSE IF NoData THEN {"mute"} ELSE IF NoLock THEN {"nolock"} ELSE {}

-----------------------------------------------------------------------------
(* beacon                                                                  *)

\* It looks at most once per second of the clock.
Checking_Faulty == HasBeen(max_beacon_check, 5)
Checking == HasBeen(max_beacon_check, 0)

SkipCheck ==
  /\ pc = "beacon" /\ ~Checking
  /\ pc' = "select"
  /\ UNCHANGED <<now, real, max_beacon_check, stamps, mypos, last_course, history>>

HoldBeacon ==
  /\ pc = "beacon" /\ Checking /\ ~Due
  /\ max_beacon_check' = now
  /\ JudgePosition
  /\ excuse' = excuse \cup NewExcuses
  /\ pc' = "select"
  /\ UNCHANGED <<now, real, last_beacon, last_gps_data, last_status, last_time_set,
                 last_course, sentAt, movedAt, steady, setBack>>

\* last_beacon and last_beacon_pos follow the result of the last packet sent.
Record(ret) ==
  IF ret THEN last_beacon' = now /\ last_course' = mypos'.course
         ELSE UNCHANGED <<last_beacon, last_course>>

\* Above five knots the position goes out as Mic-E, now and then with a status
\* packet after it; below as an uncompressed position.
WithStatus == mypos.speed > 5 /\ HasBeen(last_status, StatusGap)

SendBeacon ==
  /\ pc = "beacon" /\ Checking /\ Due
  /\ max_beacon_check' = now
  /\ JudgePosition
  /\ \E position \in Outcomes, status \in Outcomes :
       LET ret == IF WithStatus THEN status.ret ELSE position.ret IN
       /\ Record(ret)
       /\ sentAt' = IF position.air THEN real ELSE sentAt
       /\ setBack' = IF position.air /\ ret THEN 0 ELSE setBack
       /\ excuse' = IF ~position.air THEN excuse \cup NewExcuses \cup {"mute"}
                    ELSE IF ~ret THEN excuse \cup NewExcuses \cup {"status"}
                    ELSE {}
  /\ last_status' = IF WithStatus THEN now ELSE last_status
  /\ pc' = "select"
  /\ UNCHANGED <<now, real, last_gps_data, last_time_set, movedAt, steady>>

Next ==
  \/ Wait \/ NoInput \/ GpsData \/ BeaconNow
  \/ SkipCheck \/ HoldBeacon \/ SendBeacon

Spec == Init /\ [][Next]_vars

-----------------------------------------------------------------------------
(* Properties.                                                             *)

Sends == sentAt' # sentAt

\* Two positions are at least ten seconds apart in real time, whatever makes
\* them due, unless the user asked for one, the clock was set or a status
\* packet failed in between.
GapKept == Sends => real - sentAt >= MinGap \/ excuse \cap {"asked", "clock", "status"} # {}
MinGapKept == [][GapKept]_vars

\* "NEVER more often than every 10 seconds!" (aprs.c:2131) unless the user
\* asks for it.
NeverMoreOften == [][Sends => real - sentAt >= MinGap \/ "asked" \in excuse]_vars

\* A position sent before even the shortest interval has passed is owed to a
\* turn, taken over the smaller of the two angles, or to a stop.
SmallerAngle(a, b) ==
  LET d == (a - b) % 360 IN IF d <= 180 THEN d ELSE 360 - d
HasCause ==
  Sends /\ real - sentAt <= Shortest /\ excuse = {} /\ steady =>
    \/ mypos.speed > 1 /\ SmallerAngle(mypos.course, last_course) > CourseMin
    \/ real - movedAt > AfterStop
EarlyHasCause == [][HasCause]_vars

\* As long as data comes in and packets get out, the station is not silent for
\* longer than its longest interval; what the clock was set back comes on top,
\* setting it forward takes nothing off.
SilenceBounded ==
  "mute" \notin excuse => real - sentAt <= Longest + MaxLag + setBack

\* A station that has stopped tells where it stands once it has stood for
\* after_stop, also when its interval at rest is far longer.
StopReported ==
  /\ movedAt >= 0 /\ steady
  /\ excuse \cap {"mute", "nolock", "clock"} = {}
  /\ real - movedAt > AfterStop + MaxLag
  /\ real - movedAt > MinGap + MaxLag
  => sentAt > movedAt
=============================================================================
