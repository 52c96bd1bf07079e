SPECIFICATION FairSpec
CONSTANTS
  f1 = f1
  r1 = r1
  r2 = r2
  NoFile = NoFile
  NoJob = NoJob
  Files <- OneFile
  Requests <- OneRequest
  Pdf <- OneFile
  Tampered <- NoFiles
  MaxJobs = 2
  Limit = 2
  MaxPosts = 2
  MaxAttempts = 2
  MaxStalls = 0
  MaxLate = 0
PROPERTIES
  ImplementsJobRecord
  EveryJobSettles
  EveryFileSettles
CHECK_DEADLOCK FALSE
