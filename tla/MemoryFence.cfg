CONSTANTS
  Readers = {r1, r2, r3}
  Producer = Producer
  Size = 3
  LoopCount = 2
  Highest = 7
  Spin = SPIN
  Mutex = MUTEX
  None = None
SPECIFICATION FairSpec
INVARIANT TypeOK
INVARIANT Exclusive
INVARIANT ReadsOneRound
INVARIANT ResultExact
PROPERTY AllThreadsEnd
