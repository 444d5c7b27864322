SPECIFICATION FairSpec
CONSTANTS
  Size = 2
  Keys = {x}
  Esc = esc
  NoKey = nokey
  Testing = testing
  Counting = counting
  Saving = saving
  NoText = none
INVARIANTS TypeOK NoRival ScreenOwned DotsTakenBack
PROPERTIES Contract EscEndsCall ListenerEnds
CHECK_DEADLOCK FALSE
