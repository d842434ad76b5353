SPECIFICATION Spec
CONSTANTS
  Braced = {2}
  MaxLives = 2
  Pages = {p1, p2}
  Calls = {c1}
  NoCall = NoCall
  HistoryLen = 1
  MaxObjects = 3
  MaxCommands = 2
INVARIANTS TypeOK OneConnectionPerLife StreamIntact CommandsInOrder EveryPageTold AddressedAsMeant
PROPERTY ServerFound
