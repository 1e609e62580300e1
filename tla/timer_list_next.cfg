SPECIFICATION Spec
CONSTANTS
  Calls = 0
  MaxSeconds = 0
  UInt = 32
  MaxLag = 1
INVARIANTS StartsNextTimer
CHECK_DEADLOCK FALSE
