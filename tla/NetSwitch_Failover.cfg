CONSTANTS
  Tasks = {t1, t2}
  NoTask = NoTask
  FailCount = 2
  FailbackMs = 1
  MaxStops = 2
  MaxFlips = 4
  MaxLive = 2
SPECIFICATION FairSpec
INVARIANTS TypeOK NothingForgotten
PROPERTY RightTransport
CHECK_DEADLOCK FALSE
