CONSTANTS
  NPlayers = 3
  SureShot = {2}
  MaxDepth = 9
SPECIFICATION FairSpec
INVARIANT TypeOK
INVARIANT LiveRowsSound
INVARIANT LivingAimWell
PROPERTY RoundsEnd
