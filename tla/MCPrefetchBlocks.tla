--------------------------- MODULE MCPrefetchBlocks ---------------------------
(* Small instances of PrefetchBlocks: two workers, so that a flush can     *)
(* overtake a read, and two reads of one block can be under way.           *)
EXTENDS PrefetchBlocks, TLC

Symmetry == Permutations(Worker) \cup Permutations(Get) \cup Permutations(Block)
===============================================================================
