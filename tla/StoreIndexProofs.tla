--------------------------- MODULE StoreIndexProofs ---------------------------
(***************************************************************************)
(* What the operations on a store index return, for indexes of any blocks. *)
(***************************************************************************)
EXTENDS StoreIndex, TLAPS

LEMMA EmptyIndexType == EmptyIndex \in Index
BY DEF EmptyIndex, Index

LEMMA MergeType ==
    ASSUME NEW i \in Index, NEW j \in Index
    PROVE  /\ Merge(i, j) \in Index
           /\ Merge(i, j).blocks = i.blocks \cup j.blocks
BY DEF Merge, Index

LEMMA PruneToType ==
    ASSUME NEW i \in Index, NEW keepers \in SUBSET Block
    PROVE  /\ PruneTo(i, keepers) \in Index
           /\ PruneTo(i, keepers).blocks = i.blocks \cap keepers
BY DEF PruneTo, Index

LEMMA ReadOne ==
    ASSUME NEW S, NEW item \in S
    PROVE  BlocksIn(S) = item.blocks \cup BlocksIn(S \ {item})
BY DEF BlocksIn

LEMMA NothingRead == BlocksIn({}) = {}
BY DEF BlocksIn
===============================================================================
