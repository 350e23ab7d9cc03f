SPECIFICATION RelaySpec
CONSTANTS
  BufferSize = 2
  ChanSize = 2
  MaxEntries = 4
  RelayConns = 3
INVARIANTS SentOnce AccountedUnlessTorn
PROPERTIES BuffersDrain
CHECK_DEADLOCK FALSE
