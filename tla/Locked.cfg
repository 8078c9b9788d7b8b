SPECIFICATION FairSpec
CONSTANTS
  Block = {b1, b2}
  Client = {c1, c2}
  AddedIndex <- MCAddedIndex
  KeptBlocks <- MCKeptBlocks
  Stores = {"object", "file"}
  MaxOps = 4
  MaxFaults = 2
INVARIANTS TypeOK NoLostBlocks ReadersGetAllOrNothing
PROPERTIES LockedWriteFailsIfChangedUncut CallsReturn ImplementsPromise
CHECK_DEADLOCK FALSE
