SPECIFICATION UploadSpec
CONSTANTS
  Block = {b1, b2}
  Client = {c1, c2, c3}
  AddedIndex <- MCAddedIndex
  KeptBlocks = {}
  NameOrder <- MCNameOrder
  WriteErrorIsOk = FALSE
  MaxOps = 7
  MaxFaults = 0
SYMMETRY Symmetry
INVARIANT NoLostBlocks
CHECK_DEADLOCK FALSE
