SPECIFICATION MCSpec
CONSTANTS
  MaxSignals = 3
  SECTONSEC = 3
  Delay = 1
  MaxClock = 9
  MaxSent = 3
  MaxLag = 2
  NTHR = 3
  TNUM = 2
  Numbers = {1, 2}
INVARIANTS Inv ThreadsInv BarrierInv EndsOnlyByQuit
PROPERTIES QuitEnds ThreadsEnd EndsSorted
CHECK_DEADLOCK FALSE
