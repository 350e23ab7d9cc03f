CONSTANTS
  MaxRestarts = 2
  MaxFaults = 1
SPECIFICATION Spec
INVARIANTS IterOrConf BeliefIsTrue StopUnconfigures
PROPERTIES StopCompletes 
CHECK_DEADLOCK FALSE
