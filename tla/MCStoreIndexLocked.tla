-------------------------- MODULE MCStoreIndexLocked --------------------------
(* Small instances of StoreIndexLocked: uploads of one block each, and     *)
(* prunes that keep one block.                                             *)
EXTENDS StoreIndexLocked, Sequences, TLC

One(b) == FromBlocks(<<b>>)
MCAddedIndex == {One(b) : b \in Block}
MCKeptBlocks == {{b} : b \in Block}

Symmetry == Permutations(Client)
===============================================================================
