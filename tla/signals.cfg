SPECIFICATION MCSpec
CONSTANTS
  Seconds = 2
  MaxLag = 4
  MaxSent = 4
  Blocks = 2
INVARIANTS SignalsInv
PROPERTIES AlarmEndsWait SignalEndsWait
CHECK_DEADLOCK FALSE
