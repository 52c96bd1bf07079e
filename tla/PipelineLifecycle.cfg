SPECIFICATION Spec
CONSTANTS
  f1 = f1
  r1 = r1
  r2 = r2
  NoFile = NoFile
  NoJob = NoJob
  Files <- OneFile
  Requests <- OneRequest
  Pdf <- NoFiles
  Tampered <- NoFiles
  MaxJobs = 2
  Limit = 2
  MaxPosts = 1
  MaxAttempts = 2
  MaxStalls = 1
  MaxLate = 1
INVARIANTS
  TypeOK
  OpenFileHasJob
  SupersededStaysDown
PROPERTIES
  FinishedExtractionSurvives
  TerminalStaysTerminal
CHECK_DEADLOCK FALSE
