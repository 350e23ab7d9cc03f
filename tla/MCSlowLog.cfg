CONSTANTS
  MaxFiles = 3
  MaxSize = 3
  MaxTicks = 4
  MaxSlowLogSize = 2
  RetainSlowLogs = 1
  MaxFaults = 1
SPECIFICATION Spec
INVARIANTS ParsedExactlyOnce LogsSurviveRotation
CHECK_DEADLOCK FALSE
