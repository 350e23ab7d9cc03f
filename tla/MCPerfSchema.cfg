CONSTANTS
  Rows = {r1, r2}
  MaxCount = 2
  MaxTruncates = 1
  MaxFaults = 2
SPECIFICATION Spec
SYMMETRY Symmetry
INVARIANTS ExactlyReported
CHECK_DEADLOCK FALSE
