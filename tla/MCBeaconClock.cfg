\* The clock is set forward or back once.  4 knots are below the
\* low point and sent uncompressed, 80 above the high point.
CONSTANTS
  MinGap = 2
  DataAge = 2
  StatusGap = 3
  AtRest = 3
  LowInt = 3
  LowSpeed = 10
  HighInt = 2
  HighSpeed = 60
  CourseMin = 30
  CourseSlope = 255
  AfterStop = 2
  GpsTimeUpdate = 20
  StaticCourse = 0
  Speeds = {0, 4, 80}
  Courses = {0}
  Jumps <- ClockSteps
  Outcomes <- AlwaysSent
  Boot = 20
  MaxLag = 1
  Horizon = 8
SPECIFICATION Spec
INVARIANTS SilenceBounded
