SPECIFICATION FairSpec
CONSTANTS
  Deadlines = {d1}
  Instances = {i1, i2}
  Tiers = {0, 1}
  Missed = Missed
  Nobody = Nobody
  MaxDay = 1
  MaxGen = 1
  MaxFaults = 2
INVARIANTS TypeOK SentOnce LogIsOfThisDate
PROPERTIES MissedIsLogged
CHECK_DEADLOCK FALSE
