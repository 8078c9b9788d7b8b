SPECIFICATION FairSpec
CONSTANTS
  Worker = {w1, w2}
  Block = {b1, b2}
  Get = {g1, g2}
  MaxMemory = 1
  Callers = {"quiet", "any"}
  MaxPrefetches = 3
  MaxFlushes = 1
INVARIANTS TypeOK NoGetIsForgotten AnsweredOnce NeverPanics MemoryCovers MemoryIsBounded
PROPERTY GetsAreAnswered
CHECK_DEADLOCK FALSE
