SPECIFICATION Spec
CONSTANTS
  Block = {b1, b2}
  Client = {c1, c2, c3}
  AddedIndex <- MCAddedIndex
  KeptBlocks <- MCKeptBlocks
  NameOrder <- MCNameOrder
  WriteErrorIsOk = FALSE
  MaxOps = 4
  MaxFaults = 1
SYMMETRY Symmetry
INVARIANTS TypeOK NoLostBlocksInOneOrder ReadersSeePromised MergedIsStored
CHECK_DEADLOCK FALSE
