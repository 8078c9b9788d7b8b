---------------------------- MODULE MCRemoteStore ----------------------------
(* Small instances of RemoteStore: two workers, so that one may take both  *)
(* flush tokens; two blocks, one of which may be stored already; channels  *)
(* that hold one message.                                                  *)
EXTENDS RemoteStoreProgress, TLC

(* What the commands do, and uploads and prunes of a read-only store.      *)
MCSessions ==
    {"upload", "prune"} \X {"ReadWrite", "ReadOnly"} \cup {<<"query", "Init">>}

MCUploads == {<<"upload", "ReadWrite">>}

Symmetry == Permutations(Worker) \cup Permutations(Block)
===============================================================================
