SPECIFICATION Spec
CONSTANTS
  Block = {b1, b2}
  Client = {c1, c2}
  AddedIndex <- MCAddedIndex
  KeptBlocks <- MCKeptBlocks
  NameOrder <- MCNameOrder
  WriteErrorIsOk = TRUE
  MaxOps = 4
  MaxFaults = 1
INVARIANT PrunedIndexIsStored
CHECK_DEADLOCK FALSE
