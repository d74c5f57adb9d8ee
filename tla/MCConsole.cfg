SPECIFICATION Spec
CONSTANTS
  FontWidth = 1
  FontHeight = 1
  MaxScale = 2
  Width = 3
  Height = 2
  EscMax = 2
  IntSize = 1000
  Bytes = {10, 8, 27, 91, 51, 49, 59, 109, 195, 240, 130}
  Sizes = {1, 3}
  ScanCodes = {42, 170, 29, 157, 13, 12, 14, 28, 72}
  scancode_map <- MCMap
  scancode_map_shift <- MCShift
  Points = {97, 233, 8364, 128512}
  Colours = {31, 33}
  TextMax = 2
INVARIANTS
  CursorOnScreen
  LineShown
  TextShown
