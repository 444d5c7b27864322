SPECIFICATION BackSpec
CONSTANTS
  home = home  work = work  home_guest = home_guest
  NoNet = NoNet
  Scans <- MCScans
  MaxAttempts = 2
  Deadline = 4
  Essids = {home, work, home_guest}
  Cut <- MCCut
  Missing = missing
INVARIANTS TypeOK ConfOfChoice NoStaleConf Faithful
CHECK_DEADLOCK FALSE
PROPERTIES ConnectReturns SupervisorsEnd BackLeaves
