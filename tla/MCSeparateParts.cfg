SPECIFICATION Spec
SYMMETRY Interchangeable
CONSTANTS
  Braced = {2}
  MaxLives = 2
  Viewers = {v1, v2}
  Frames <- SomeFrames
  MaxMsgStore = 2
  MaxFrame = 512
  MaxSpied = 3
  MaxListed = 2
  Browsers = {b1, b2}
  MaxChildren = 3
  MaxMail = 1
  KeepPosits = 2
  ReadMax = 2
  BufMax = 4
  Sentences <- SomeSentences
  MaxSentences = 3
  near = s1
  other = s2
  Stations = {me, s1, s2}
  MyCall = me
  Heard <- SomeReports
  Blank = Blank
  None = None
  OwnDist = 2
  Far = 4
  WxAge = 0
  LastSecond = 1
  Trackers = {"A", "B"}
  Enabled = {"A", "B"}
  Appends = {"B"}
  Testing = {"B"}
  DigiPath <- APath
  AliasLike = {"TEMP"}
  PathNames = {"A", "B", "TEMP", "WIDE"}
  Words = {":", "to", "text", "more"}
  Beacons <- SomeBeacons
  Width = 4
  MaxBeacons = 3
  Calls = {"a", "b", "c", "d"}
  AxFrames <- SomeAxFrames
CHECK_DEADLOCK FALSE
INVARIANTS TypeOK HistoryIsRecent CountsIncrease ListedRun PositionOfItsTurn DistanceOfShown FieldsOfShown OthersWxFirst BarsCountHeard RelayedOnce DecodeInverts
