SPECIFICATION MCSpec
CONSTANTS
  Names = {0, 1, 2, 3}
  Files <- MCFilesOfTree
  Dirs <- MCDirs
  Root <- MCRoot
  Length <- MCLength
  NAME_MAX = 2
  PathAlloc = 4
  OPEN_MAX = 2
  NBUF = 3
  BSZ = 2
  RotFiles <- MCRotFiles
  BUF_SIZE = 3
  Bytes = {0, 1, 2}
  MaxSize = 4
  MaxBlocks = 7
  BUFFSIZE = 2
INVARIANTS Inv CopiesInv
PROPERTIES CopiesRotated CopiesUnlessReadFails FilesEnd
CHECK_DEADLOCK FALSE
