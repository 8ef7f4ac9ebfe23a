SPECIFICATION FairSpec
CONSTANTS
  NULL = NULL
  MaxEvents = 4
  MaxNow = 3
  Window = 1
  Tails = {0, 1}
  Limit = 1
  Threshold = 2
  Budget = 5
INVARIANTS IInv NoSilentSkip StrikesSurvive
PROPERTY EventuallyDelivered
