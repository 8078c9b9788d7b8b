SPECIFICATION Spec
CONSTANTS
  Worker = {w1, w2}
  Block = {b1}
  Get = {g1, g2}
  MaxMemory = 1
  Callers = {"any"}
  MaxPrefetches = 1
  MaxFlushes = 0
PROPERTY WaitersAreServed
CHECK_DEADLOCK FALSE
