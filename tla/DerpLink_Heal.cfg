CONSTANTS
  QueueCap = 2
  Attempts = 3
  MaxItems = 3
  MaxFaults = 2
  MaxFails = 2
SPECIFICATION FairSpec
INVARIANTS ParkedIsOutside StaleBitRepaired
PROPERTIES DataInOrder Heals
