CONSTANTS
  ColumnSize = 5
  MaxHeight = 1
  FullWidth = 6
  FullHeight = 2
  MinLen = 2
  ToExpand = 1
  MaxPlayouts = 3
  MaxMoves = 3
  MaxCalls = 6
SPECIFICATION Spec
INVARIANT WonIsWon
