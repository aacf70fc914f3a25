CONSTANTS
  MaxFiles = 2
  MaxLines = 2
  Nil = Nil
SPECIFICATION Spec
INVARIANT FoundMeansFailure
