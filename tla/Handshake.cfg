CONSTANTS
  Count = 4
  MaxSpurious = 3
  None = None
SPECIFICATION FairSpec
INVARIANT TypeOK
INVARIANT OneInFlight
INVARIANT SleepsForAReason
PROPERTY HandsOver
PROPERTY BothReturn
