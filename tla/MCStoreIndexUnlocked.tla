------------------------- MODULE MCStoreIndexUnlocked -------------------------
(* Small instances of StoreIndexUnlocked: two or three blocks, uploads of  *)
(* one block each, prunes that keep one block.                             *)
EXTENDS StoreIndexUnlocked, Sequences, TLC

One(b) == FromBlocks(<<b>>)
MCAddedIndex == {One(b) : b \in Block}
MCKeptBlocks == {{b} : b \in Block}

(* File names are hashes, so any order of them may come up.  Here shorter  *)
(* indexes are listed first.                                               *)
Larger(i, j) == \E b \in i.blocks : i.blocks \ {b} = j.blocks
MCNameOrder == {<<i, j>> \in Index \X Index : Larger(j, i)}

(* Uploads alone, with no fault.                                           *)
UploadSpec ==
    Init /\ [][\E c \in Client : StartAdd(c) \/ Progress(c)]_vars

Symmetry == Permutations(Client)
===============================================================================
