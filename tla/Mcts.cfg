CONSTANTS
  ColumnSize = 4
  MaxHeight = 1
  FullWidth = 5
  FullHeight = 2
  MinLen = 2
  ToExpand = 1
  MaxPlayouts = 5
  MaxMoves = 5
  MaxCalls = 6
SPECIFICATION FairSpec
INVARIANT TypeOK
INVARIANT EdgesAreMoves
INVARIANT CountedOnceInRoot
INVARIANT CreditedUpward
INVARIANT ExpandedOffersMoves
INVARIANT SelectsBest
PROPERTY PlayoutsEnd
