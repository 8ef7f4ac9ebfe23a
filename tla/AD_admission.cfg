SPECIFICATION FairSpec
CONSTANTS
  NULL = NULL
  Requests = {a, b}
  Decisions = {"transcode", "remux"}
  Caps = {1}
  SuspendCutoff = 0
  PausedHold = 1
  StaleCutoff = 1
  MaxFaults = 1
INVARIANT IInv
PROPERTIES
  NeverOverCap EveryRequestAnswered AbandonedSlotFreed
CHECK_DEADLOCK FALSE
