CONSTANTS
  UintMod = 64
  TicksPerSec = 2
  MaxTick = 5
  MaxLen = 3
  Sizes = {1, 3}
  AgeLimits = {0, 1, 2}
  SizeLimits = {0, 2, 4}
  FileLimits = {0, 1, 2}
  Names = {TRUE, FALSE}
SPECIFICATION Spec
INVARIANTS PurgeKeepsNewest PurgedForCause
CHECK_DEADLOCK FALSE
