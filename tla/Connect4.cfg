CONSTANTS
  ColumnSize = 4
  MaxHeight = 3
  FullWidth = 5
  FullHeight = 4
  MinLen = 3
SPECIFICATION Spec
INVARIANT TypeOK
INVARIANT MergedIsBoth
PROPERTY PlaysFourInARow
