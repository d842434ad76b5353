\* The status packet after a position fails.
CONSTANTS
  MinGap = 2
  DataAge = 2
  StatusGap = 3
  AtRest = 6
  LowInt = 3
  LowSpeed = 10
  HighInt = 2
  HighSpeed = 60
  CourseMin = 30
  CourseSlope = 255
  AfterStop = 2
  GpsTimeUpdate = 0
  StaticCourse = 0
  Speeds = {0, 30}
  Courses = {0}
  Jumps <- NoSteps
  Outcomes <- AnyOutcome
  Boot = 20
  MaxLag = 1
  Horizon = 6
SPECIFICATION Spec
PROPERTIES NeverMoreOften
