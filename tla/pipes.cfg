SPECIFICATION MCSpec
CONSTANTS
  MaxLines = 4
  StdioMax = 2
  PipeMax = 1
INVARIANTS Inv PipesInv
PROPERTIES CoprocessEnds BothEnd
CHECK_DEADLOCK FALSE
