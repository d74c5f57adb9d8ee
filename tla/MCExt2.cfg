SPECIFICATION Spec
CONSTANTS
  MaxIno = 4
  MaxBlock = 3
  DirSlots = 2
  Names = {"a", "b"}
  MaxVnode = 3
  MaxCrash = 1
  MaxLost = 1
INVARIANTS
  EntriesNameInodes
  OneOwner
  NoStaleBlock
  CountsFollowBitmaps
  CacheNeverForeign
