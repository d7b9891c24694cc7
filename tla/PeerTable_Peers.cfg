SPECIFICATION TableSpec
CONSTANTS
  Nodes <- McNodes
  Gens = 1
  Priority = 1
  Allowed <- McNodes
  Slots = 2
  CacheMax = 2
  Depth = 1
  LruMod = 64
  MaxChanges = 1
  MaxLosses = 1
  MaxCrashes = 1
  MaxBadFlush = 1
INVARIANTS TableTypeOK DeviceFollowsTable
PROPERTIES CacheIsRecent PeersServed
