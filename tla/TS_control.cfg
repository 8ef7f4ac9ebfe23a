SPECIFICATION FairSpec
CONSTANTS
  NULL = NULL
  SourceLen = 2
  Targets <- MCOneTarget
  Rungs <- MCRungs
  InitialRung = 0
  SuspendAhead = 1
  ResumeAhead = 0
  Retention = 1
  MaxHardwareRetries = 0
  SoftwareFallback = TRUE
  CopyShape = FALSE
  SuspendMechanism = FALSE
  WritesMayFail = FALSE
  RunRowsMayFail = TRUE
  Sidecars = FALSE
  Deaths <- MCNone
  Enders = {}
  Gets <- MCNone
  MaxRequests = 2
  MaxSweeps = 0
INVARIANTS
  ListedSegmentsOwned SeamlessContinuation SeekHoldsManifest
PROPERTIES
  RungNotSwallowed SeekingResolves SeekIsAnswered
