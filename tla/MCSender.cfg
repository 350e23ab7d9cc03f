CONSTANTS
  Files = {1, 2, 3}
  Empty = {2}
  Blackhole = FALSE
  MaxSendErrors = 2
  PurgeRaces = TRUE
  SilentServer = TRUE
SPECIFICATION FairSpec
INVARIANTS AckIsForCurrent Lockstep
PROPERTIES ImplementsDelivery StopCompletes Drains
CHECK_DEADLOCK FALSE
