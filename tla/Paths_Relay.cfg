SPECIFICATION PathSpec
CONSTANTS
  Trust = 1
  Rekey = 2
  Reject = 3
  MaxTries = 2
  MaxFlips = 2
  MaxReadds = 1
INVARIANTS PathTypeOK DirectIsFresh
PROPERTY Reachable
