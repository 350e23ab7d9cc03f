CONSTANTS
  Keys = {1, 2}
  SizeOf <- MCSizeOf
  Limits <- MCLimits
  WriteBuffer = 1
  UintMod = 16
  Bounds <- MCBounds
SPECIFICATION SpoolerFairSpec
INVARIANTS  CrashOnlyInCompany
PROPERTY QueueDrains
CHECK_DEADLOCK FALSE
