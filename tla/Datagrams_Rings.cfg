CONSTANTS
  Size = 3
  Depth = 1
  MaxBox = 2
  MaxIn = 4
SPECIFICATION FairSpec
INVARIANTS DiscoIntact PoolIntact SocketIntact
PROPERTY HandedUp
