------------------------------ MODULE StoreIndex ------------------------------
(***************************************************************************)
(* The store index as the Go code sees it: the blocks it lists, and the    *)
(* order it lists them in.                                                 *)
(*                                                                         *)
(* Longtail_MergeStoreIndex, Longtail_PruneStoreIndex and                  *)
(* Longtail_CreateStoreIndexFromBlocks are functions of the C library that *)
(* is linked into the program (src/longtaillib/longtail/liblongtail*.a),   *)
(* so they are external and modelled by what they return: a merge keeps    *)
(* the blocks of its first argument in place and appends the blocks that   *)
(* only the second one has; a prune keeps the order of its source.  The    *)
(* order matters because an index that is stored without locking is named  *)
(* by the SHA-256 of its bytes: two indexes of the same blocks in two      *)
(* orders are two files.                                                   *)
(***************************************************************************)
EXTENDS Integers

CONSTANT Block

(* The order of an index is a strict total order on its blocks, given by   *)
(* its set of pairs, so an index IS its content and equality of two        *)
(* indexes is equality of their bytes.                                     *)
Index == [blocks : SUBSET Block, order : SUBSET (Block \X Block)]

EmptyIndex == [blocks |-> {}, order |-> {}]

Merge(local, remote) ==
    LET new == remote.blocks \ local.blocks
    IN  [blocks |-> local.blocks \cup new,
         order  |-> local.order \cup (local.blocks \X new)
                        \cup (remote.order \cap (new \X new))]

PruneTo(index, keep) ==
    [blocks |-> index.blocks \cap keep,
     order  |-> index.order \cap (keep \X keep)]

(* The index of blocks that were put in the order of the sequence s.       *)
FromBlocks(s) ==
    [blocks |-> {s[i] : i \in DOMAIN s},
     order  |-> {<<s[p[1]], s[p[2]]>> :
                    p \in {q \in (DOMAIN s) \X (DOMAIN s) : q[1] < q[2]}}]

(* The blocks that the index files in S list between them.                 *)
BlocksIn(S) == UNION {i.blocks : i \in S}
===============================================================================
