SPECIFICATION Spec
CONSTANTS
  NULL = NULL
  Requests = {a, b}
  Decisions = {"transcode"}
  Caps = {1}
  SuspendCutoff = 0
  PausedHold = 1
  StaleCutoff = 2
  MaxFaults = 0
PROPERTY HeartbeatingNotEvicted
CHECK_DEADLOCK FALSE
