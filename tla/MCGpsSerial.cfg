SPECIFICATION GpsSpec
CONSTANTS
  KeepPosits = 2
  ReadMax = 2
  BufMax = 4
  Sentences <- SomeSentences
  MaxSentences = 2
INVARIANT SerialUnderstood
CHECK_DEADLOCK FALSE
