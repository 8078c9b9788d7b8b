SPECIFICATION FairSpec
CONSTANTS
  Block = {b1, b2}
  Client = {c1, c2}
  AddedIndex <- MCAddedIndex
  KeptBlocks <- MCKeptBlocks
  NameOrder <- MCNameOrder
  WriteErrorIsOk = FALSE
  MaxOps = 4
  MaxFaults = 1
INVARIANT PrunedIndexIsStored
PROPERTIES CallsReturn ImplementsPromise
CHECK_DEADLOCK FALSE
