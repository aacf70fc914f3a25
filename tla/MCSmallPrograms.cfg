CONSTANTS
  None = None
  MaxRows = 4
  MaxCpus = 3
  MaxIter = 1
  InitialCount = 2
  BaseChainSize = 3
  MaxSearches = 2
  MaxFiles = 2
  MaxLines = 3
  MaxTextLines = 2
  Threads = {t1, t2}
  MaxCount = 3
  MaxConcurrency = 3
  LoopCount = 2
  LowerRand = 1
  UpperRand = 2
  MaxCrossings = 8
  MaxLength = 6
  Words = {0, 1, 32768, 21845, 65535}
  MaxBlocks = 2
SPECIFICATION Programs
INVARIANT EachRowOnce
INVARIANT ShuffledWhole
INVARIANT PuzzlesKeepRules
INVARIANT ThreadsCountAll
INVARIANT AlgorithmsCount
PROPERTY VerdictOfFile
PROPERTY ProgramsEnd
