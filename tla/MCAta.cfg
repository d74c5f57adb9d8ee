SPECIFICATION FairSpec
CONSTANTS
  NumBuses = 1
  Words = 2
  RegSize = 2
  TopSize = 2
  Lbas = {1, 4, 8}
  Blank <- MCBlank
  Buffers <- MCBuffers
  Answering = {"disk", "packet"}
INVARIANTS
  QuietBetweenCalls
PROPERTIES
  CallReturns
  AbsSpec
CHECK_DEADLOCK FALSE
