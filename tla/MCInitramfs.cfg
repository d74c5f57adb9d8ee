SPECIFICATION Spec
CONSTANTS
  MaxParts = 4
  MaxMounts = 1
  MaxKids = 3
  MaxProc = 0
  ProcFiles <- MCBootDirs
  MaxNodes = 5
  MaxFile = 1
  BootDirs <- MCBootDirs
  Members <- MCMembers
  LongDirs <- MCLongDirs
INVARIANTS
  AllPlaced
  DirsDistinct
PROPERTIES
  KeepsEarlier
  ParentsMade
