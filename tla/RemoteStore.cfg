SPECIFICATION FairSpec
CONSTANTS
  Worker = {w1, w2}
  Block = {b1, b2}
  Sessions <- MCSessions
  Starts = {{}, {b1, b2}}
  Failures = {"write", "delete", "read", "add", "overwrite"}
  PutCap = 1
  IndexCap = 1
  DeleteCap = 1
  MaxQueries = 1
  MaxFlushes = 1
  MaxFaults = 1
INVARIANTS TypeOK IndexedBlocksExist ContentIsStored PutsReachIndex NoSendAfterClose SomebodyGoesOn
PROPERTIES PruneKeepsKept WorkRunsOut EveryCallReturns
CHECK_DEADLOCK FALSE
