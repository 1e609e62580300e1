SPECIFICATION Spec
CONSTANTS
  BUF_SIZE = 3
  Bytes = {0, 1}
  MaxSize = 4
INVARIANT CopiesAll
CHECK_DEADLOCK FALSE
