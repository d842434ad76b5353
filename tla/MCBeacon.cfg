\* Intervals shortened; the one at rest is longer than after_stop.  30 knots lie
\* between the two points; 350 to 0 degrees is a small turn over north, 100 a
\* large one from either.
CONSTANTS
  MinGap = 2
  DataAge = 2
  StatusGap = 3
  AtRest = 6
  LowInt = 3
  LowSpeed = 10
  HighInt = 2
  HighSpeed = 60
  CourseMin = 30
  CourseSlope = 255
  AfterStop = 2
  GpsTimeUpdate = 0
  StaticCourse = 0
  Speeds = {0, 30}
  Courses = {0, 350, 100}
  Jumps <- NoSteps
  Outcomes <- AnyOutcome
  Boot = 20
  MaxLag = 1
  Horizon = 5
SPECIFICATION Spec
INVARIANTS TypeOK StopReported
PROPERTIES MinGapKept EarlyHasCause
