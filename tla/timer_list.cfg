SPECIFICATION FairSpec
CONSTANTS
  Calls = 3
  MaxSeconds = 3
  UInt = 32
  MaxLag = 4
INVARIANTS Inv
PROPERTIES NeverEarly Punctual AllRun
CHECK_DEADLOCK FALSE
