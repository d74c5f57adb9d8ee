SPECIFICATION Spec
CONSTANTS
  MaxParts = 2
  MaxMounts = 3
  MaxKids = 2
  MaxProc = 2
  MaxNodes = 4
  MaxFile = 2
  FdMax = 2
  ReadSizes = {1}
  Paths <- MCPaths
  Buffers <- MCBuffers
  ProcFiles <- MCProcFiles
INVARIANTS
  OffsetInFile
PROPERTIES
  WriteReadBack
CHECK_DEADLOCK FALSE
