CONSTANTS
  MaxCmds = 3
  Kinds = {"Work", "Reconnect", "Status", "Stop", "Restart", "Abort"}
  Limit = 1
  CmdQueue = 1
  StatusQueue = 1
  SendBuffer = 1
  MaxErrors = 2
  MaxPanics = 2
  MaxFails = 1
SPECIFICATION FairSpec
  
PROPERTIES CmdsFinish 
CHECK_DEADLOCK FALSE
