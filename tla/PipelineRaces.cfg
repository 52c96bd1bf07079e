SPECIFICATION Spec
CONSTANTS
  f1 = f1
  r1 = r1
  r2 = r2
  NoFile = NoFile
  NoJob = NoJob
  Files <- OneFile
  Requests <- TwoRequests
  Pdf <- NoFiles
  Tampered <- OneFile
  MaxJobs = 2
  Limit = 1
  MaxPosts = 1
  MaxAttempts = 1
  MaxStalls = 0
  MaxLate = 0
INVARIANTS
  WithinCap
  TamperedNeverExtracted
PROPERTIES
  SecondExtractionNeedsARace
CHECK_DEADLOCK FALSE
