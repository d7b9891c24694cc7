CONSTANTS
  a = a
  b = b
  Node = {a, b}
  Talker = {a}
  Window = 2
  DiffMod = 4
  SeqMod = 8
  RekeyTimeout = 0
  Keepalive = 1
  RekeyTime = 1
  RejectTime = 2
  RekeyMessages = 1
  RejectMessages = 2
  MaxAttempts = 1
  MaxTime = 3
  MaxIds = 4
SPECIFICATION Spec
INVARIANTS KeyUse CurrentIsConfirmed SlotsInOrder
PROPERTIES OnlyNewerSessions
