SPECIFICATION FairSpec
CONSTANTS
  NULL = NULL
  SourceLen = 1
  Targets <- MCStart
  Rungs <- MCNone
  InitialRung = NULL
  SuspendAhead = 1
  ResumeAhead = 0
  Retention = 1
  MaxHardwareRetries = 1
  SoftwareFallback = TRUE
  CopyShape = FALSE
  SuspendMechanism = FALSE
  WritesMayFail = FALSE
  RunRowsMayFail = FALSE
  Sidecars = FALSE
  Deaths <- MCDeaths
  Enders = {client}
  Gets <- MCNone
  MaxRequests = 1
  MaxSweeps = 0
INVARIANTS
  EndedExactlyOnce ProcessCensus DoneMeansClosed
PROPERTIES
  ClosedIsFinal ImplementsLifecycle CloseStopsEncoder
