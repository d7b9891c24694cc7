CONSTANTS
  Clients = {c1, c2}
  BufSize = 2
  SizeMod = 16
  UartCap = 3
  MaxBytes = 3
  MaxIn = 1
SPECIFICATION FairSpec
INVARIANTS PendingIntact CleanedUp
PROPERTIES ImplementsFanout ClosedIsRemoved
CHECK_DEADLOCK FALSE
