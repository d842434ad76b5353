\* Two messages are remembered of four that differ.
CONSTANTS
  K = 2
  Me = me
  far = far
  near = near
  hi = hi
  bye = bye
  colon = colon
  Calls = {me, far, near}
  Alike = {me, near}
  Texts = {hi, bye, colon}
  AckTexts = {colon}
  Messages <- Heard
  Relays = {far}
  AllocMayFail = TRUE
  None = None
SPECIFICATION Spec
INVARIANTS TypeOK AckedIsShown
PROPERTIES RepeatsAreOld ImplementsWindow
