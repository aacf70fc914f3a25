CONSTANTS
  NThreads = 2
  DocSize = 2
  Words = {"a", "b"}
  Strategies = {"RELAXED", "FETCH_ADD", "COMPARE_AND_SWAP"}
  Trials = 2
  MaxSpurious = 1
  None = None
SPECIFICATION FairSpec
INVARIANT TypeOK
INVARIANT CountsExact
INVARIANT NeverOvercounts
INVARIANT NoLostWakeup
PROPERTY StableWhileCounting
PROPERTY CountsLikeOneThread
PROPERTY AllTrialsEnd
