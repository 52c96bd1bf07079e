SPECIFICATION FairSpec
CONSTANTS
  N = 5
  Photos <- SnagPhotos
  Creates <- SnagCreates
  Synced <- Nothing
  Needs <- SnagNeeds
  Target <- SnagTarget
  Wants <- SnagWants
  Refused <- SnagRefused
  MaxAttempts = 2
  MaxCrashes = 1
  Others = TRUE
  None = None
INVARIANTS
  TypeOK
  WaitingBurnsNothing
PROPERTIES
  ImplementsDelivery
  CreatesReachServer
CHECK_DEADLOCK FALSE
