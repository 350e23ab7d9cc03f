SPECIFICATION Spec
CONSTANTS
  d1 = d1
  d2 = d2
  Dbs <- MCDbs
  Bounds <- MCBounds
  NoDb = NoDb
  Interval = 2
  MaxTime = 4
  MaxDocs = 2
  DocsBuffer = 100
  ReportChanBuffer = 1000
INVARIANTS DocsOnce OwnInterval DiesOnlyInRefresh
PROPERTIES StartStopReturn MonitorsFollow QuietIntervalFlushed
CHECK_DEADLOCK FALSE
