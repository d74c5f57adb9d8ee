SPECIFICATION Spec
CONSTANTS
  MaxIno = 4
  MaxBlock = 3
  DirSlots = 1
  Names = {"a", "b"}
  MaxVnode = 2
  MaxCrash = 0
  MaxLost = 0
PROPERTIES
  MkdirMakes
