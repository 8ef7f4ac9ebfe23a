SPECIFICATION FairSpec
CONSTANTS
  NULL = NULL
  SourceLen = 2
  Targets <- MCTargets
  Rungs <- MCNone
  InitialRung = NULL
  SuspendAhead = 1
  ResumeAhead = 0
  Retention = 1
  MaxHardwareRetries = 0
  SoftwareFallback = TRUE
  CopyShape = FALSE
  SuspendMechanism = FALSE
  WritesMayFail = FALSE
  RunRowsMayFail = FALSE
  Sidecars = FALSE
  Deaths <- MCNone
  Enders = {}
  Gets <- MCNone
  MaxRequests = 2
  MaxSweeps = 0
PROPERTIES
  SeekNotSwallowed
