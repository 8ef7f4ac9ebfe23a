SPECIFICATION FairSpec
CONSTANTS
  NULL = NULL
  SourceLen = 1
  Targets <- MCNone
  Rungs <- MCNone
  InitialRung = NULL
  SuspendAhead = 1
  ResumeAhead = 0
  Retention = 1
  MaxHardwareRetries = 0
  SoftwareFallback = TRUE
  CopyShape = FALSE
  SuspendMechanism = FALSE
  WritesMayFail = FALSE
  RunRowsMayFail = FALSE
  Sidecars = FALSE
  Deaths <- MCNone
  Enders = {}
  Gets <- MCNone
  MaxRequests = 0
  MaxSweeps = 0
INVARIANTS
  StagingRecorded
