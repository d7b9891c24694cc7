CONSTANTS
  Tasks = {t1}
  NoTask = NoTask
  FailCount = 1
  FailbackMs = 1
  MaxStops = 0
  MaxFlips = 3
  MaxLive = 2
SPECIFICATION FairSpec
PROPERTIES Reconnects
CHECK_DEADLOCK FALSE
