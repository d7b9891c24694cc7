CONSTANTS
  Tasks = {t1, t2}
  None = None
  Links = {0, 1}
  Ring = 2
  MaxBytes = 3
  Streams = {t1}
  Datagrams = {t2}
  MaxLate = 1
SPECIFICATION AtSpec
INVARIANTS AtTypeOK InOrder
PROPERTIES EofIsReal
