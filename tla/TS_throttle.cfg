SPECIFICATION FairSpec
CONSTANTS
  NULL = NULL
  SourceLen = 3
  Targets <- MCStart
  Rungs <- MCNone
  InitialRung = NULL
  SuspendAhead = 1
  ResumeAhead = 0
  Retention = 1
  MaxHardwareRetries = 0
  SoftwareFallback = TRUE
  CopyShape = FALSE
  SuspendMechanism = TRUE
  WritesMayFail = TRUE
  RunRowsMayFail = FALSE
  Sidecars = TRUE
  Deaths <- MCNone
  Enders = {}
  Gets <- MCGets
  MaxRequests = 1
  MaxSweeps = 1
INVARIANT IInv
PROPERTIES
  StoppedComesBack ReturningViewerResumes
