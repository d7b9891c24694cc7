SPECIFICATION Spec
CONSTANTS
  Addrs = {a1, a2}
  Depth = 2
  Watchdog = 1
  Stale = 2
  Alive = 1
  Room = 2
  MaxFaults = 2
  MaxMoves = 1
  MaxRebinds = 1
  Stoppable = TRUE
INVARIANTS TypeOK NoneLost
PROPERTIES Converges Stops
