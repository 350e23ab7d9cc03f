SPECIFICATION Spec
CONSTANTS
  MaxConns = 2
  SendBuffer = 1
  RecvBuffer = 1
INVARIANTS OneConnection
PROPERTIES ClosesOwnConnection Reconnects Settles
