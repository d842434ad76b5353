\* Three lines and five other stations: the list overflows, wraps around its
\* ring and is shortened while the own station is the one heard last.
CONSTANTS
  K = 3
  Me = me
  Names = {me, s1, s2, s3, s4, s5}
  Pos = {p1}
  NoPos = NoPos
  None = None
SPECIFICATION Spec
SYMMETRY OtherStations
INVARIANTS TypeOK StoredOnce MostRecentListed PositionsKept
PROPERTIES ImplementsHeardList
