CONSTANTS
  Handles = {h1, h2}
  None = None
  Full = 2
  Confirm = 2
  Rollback = 4
  StopTimeout = 2
  Cleanup = 1
  Keys = TRUE
  Failures = TRUE
SPECIFICATION FairSpec
INVARIANTS TypeOK SingleInstance
PROPERTY ComesBack
CHECK_DEADLOCK FALSE
