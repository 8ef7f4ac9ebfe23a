SPECIFICATION Spec
CONSTANTS
  Sessions = {s1}
  Pids = {p1, p2, p3}
  Nobody = Nobody
  Other = Other
  MaxGen = 3
INVARIANTS
  IInv BootClaimsEverything
PROPERTIES
  SignalsReachOwn SlotHeldWhileEncoding OnlyLateRunsSurvive BootCompletes ShutdownCompletes
CHECK_DEADLOCK FALSE
