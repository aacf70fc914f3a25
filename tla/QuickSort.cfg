CONSTANTS
  MaxSize = 6
  Values = {1, 2, 3}
  NotYet = NotYet
SPECIFICATION FairSpec
INVARIANT TypeOK
PROPERTY Sorts
