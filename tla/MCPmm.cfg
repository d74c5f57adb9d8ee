SPECIFICATION Spec
CONSTANTS
  Total = 9
  RunLengths = {1, 2, 3}
  MemMap <- MCMemMap
INVARIANTS
  CounterExact
  BitmapExact
PROPERTIES
  AbsSpec
