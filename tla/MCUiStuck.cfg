SPECIFICATION Spec
CONSTANTS
  Braced = {2}
  MaxLives = 2
  Pages = {p1, p2}
  Calls = {c1}
  NoCall = NoCall
  HistoryLen = 1
  MaxObjects = 2
  MaxCommands = 2
PROPERTY WaitIsAnswered
