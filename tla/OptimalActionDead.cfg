CONSTANTS
  NPlayers = 3
  SureShot = {2}
  MaxDepth = 15
SPECIFICATION Spec
INVARIANT DeadDoNotShoot
