SPECIFICATION Spec
CONSTANTS
  Browsers = {b1}
  Tabs = {t1, t2}
  Of <- OneBrowser
  Tokens = {x1, x2, x3}
  Life = 4
  AccessLife = 1
  MinLife = 2
  Grace = 3
  Delay = 1
  Agenda <- Deeds
  MaxTime = 4
  None = None
SYMMETRY Symmetry
INVARIANTS TypeOK SignOutReachesAll AlarmHasACause
CHECK_DEADLOCK FALSE
