SPECIFICATION Spec
CONSTANTS
  u1 = u1
  u2 = u2
  c1 = c1
  c2 = c2
  bad = bad
  Uuids <- MCUuids
  NoUuid = NoUuid
  Configs <- MCConfigs
  Invalid = {bad}
  IntervalOf <- MCIntervalOf
  NoConf = NoConf
  Empty = Empty
  Torn = Torn
  MaxStarts = 4
  Bounds <- MCBounds
INVARIANTS Durable  VerdictTrue
  
CHECK_DEADLOCK FALSE
