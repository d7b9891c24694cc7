CONSTANTS
  FastBaud = TRUE
  MaxPosted = 4
SPECIFICATION FairSpec
INVARIANTS Released StartSucceeds CommandsReach
PROPERTY Concludes
