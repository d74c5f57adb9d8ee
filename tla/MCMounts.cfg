SPECIFICATION Spec
CONSTANTS
  MaxParts = 2
  MaxMounts = 3
  MaxKids = 2
  MaxProc = 2
  MaxNodes = 5
  MaxFile = 0
  FdMax = 0
  ReadSizes = {}
  Paths <- MCPaths
  Buffers = {}
  ProcFiles <- MCProcFiles
INVARIANTS
  TreeSound
  MountFlagExact
  ProcNamesDistinct
PROPERTIES
  NothingHidden
CHECK_DEADLOCK FALSE
