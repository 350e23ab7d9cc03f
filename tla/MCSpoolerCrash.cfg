CONSTANTS
  Keys = {1, 2}
  SizeOf <- MCSizeOf
  Limits <- MCLimits
  WriteBuffer = 1
  UintMod = 16
  Bounds <- CrashBounds
SPECIFICATION SpoolerFairSpec
PROPERTIES OverLimitIsPurged
CHECK_DEADLOCK FALSE
