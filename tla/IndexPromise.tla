----------------------------- MODULE IndexPromise -----------------------------
(***************************************************************************)
(* What a store index promises to the clients of one store, whatever the   *)
(* backend keeps it in: the set of blocks that a reader of the index       *)
(* finds, and the set of blocks whose upload was reported complete.  An    *)
(* upload may be reported only once every block of it can be found, and    *)
(* only a prune withdraws a block.                                         *)
(***************************************************************************)
CONSTANT Block

VARIABLES indexed,  \* the blocks a reader of the index finds
          promised, \* the blocks whose upload was reported complete
          kept      \* the blocks that may not be taken out: all but a prune's

vars == <<indexed, promised, kept>>

Init == /\ indexed = {}
        /\ promised = {}
        /\ kept = Block

(* An upload makes blocks findable.                                        *)
Publish == /\ \E new \in SUBSET Block : indexed' = indexed \cup new
           /\ UNCHANGED <<promised, kept>>

(* An upload is reported complete.                                         *)
Acknowledge == /\ \E new \in SUBSET Block : indexed' = indexed \cup new
               /\ \E new \in SUBSET indexed' : promised' = promised \cup new
               /\ UNCHANGED kept

(* A prune starts: nothing is promised any more but what it keeps.         *)
Withdraw == /\ kept = Block
            /\ kept' \in SUBSET Block
            /\ promised' = promised \cap kept'
            /\ UNCHANGED indexed

(* The prune takes blocks out that it does not keep, and may end with it.  *)
Unpublish == /\ \E gone \in SUBSET (indexed \ kept) :
                    indexed' = indexed \ gone
             /\ kept' \in {kept, Block}
             /\ UNCHANGED promised

Next == Publish \/ Acknowledge \/ Withdraw \/ Unpublish

Spec == Init /\ [][Next]_vars

(* A block whose upload was reported complete is found by every reader.    *)
PromiseKept == promised \subseteq indexed
===============================================================================
