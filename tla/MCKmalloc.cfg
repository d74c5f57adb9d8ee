SPECIFICATION FairSpec
CONSTANTS
  HeapSize = 128
  Requests <- MCRequests
INVARIANTS
  TypeOK
  Tiled
  HeldBlocks
  NoAdjacentFree
PROPERTIES
  CallsReturn
  AbsSpec
