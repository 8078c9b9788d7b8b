SPECIFICATION Spec
CONSTANTS
  Worker = {w1, w2}
  Block = {b1, b2}
  Sessions <- MCUploads
  Starts = {{}}
  Failures = {}
  PutCap = 1
  IndexCap = 1
  DeleteCap = 1
  MaxQueries = 1
  MaxFlushes = 1
  MaxFaults = 0
INVARIANT PutsAreCached
CHECK_DEADLOCK FALSE
