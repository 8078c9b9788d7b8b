SPECIFICATION Spec
CONSTANTS
  Worker = {w1, w2}
  Block = {b1, b2}
  Sessions <- MCUploads
  Starts = {{}}
  Failures = {"exists"}
  PutCap = 1
  IndexCap = 1
  DeleteCap = 1
  MaxQueries = 1
  MaxFlushes = 1
  MaxFaults = 1
INVARIANT IndexedBlocksExist
CHECK_DEADLOCK FALSE
