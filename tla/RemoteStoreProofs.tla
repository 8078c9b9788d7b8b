-------------------------- MODULE RemoteStoreProofs --------------------------
(***************************************************************************)
(* Proofs about one open remote store, for any workers, blocks, channel    *)
(* capacities and bounds, and any access type.                             *)
(***************************************************************************)
EXTENDS RemoteStoreProgress, FiniteSetTheorems, TLAPS

(* What the steps of each goroutine leave alone.                           *)
USE DEF remoteVars, flushVars, closeVars, queryVars, pruneVars, workVars,
        cacheVars, indexVars, CallOnly, FlushOnly, WorkerOnly, IndexOnly,
        IndexSteps

-------------------------------------------------------------------------------
(* The inductive invariant                                                 *)

Types ==
    /\ callers \in {"upload", "prune", "query"}
    /\ chunks \subseteq Block /\ index \subseteq Block
    /\ putChan \in Seq(Block)
    /\ blockIndexChan \in Seq(Block)
    /\ deleteChan \in Seq(Block)
    /\ put \in [Block -> {"none", "out", "ok", "failed"}]
    /\ wpc \in [Worker -> {"top", "wait", "last", "write", "announce", "gone"}]
    /\ wblock \in [Worker -> Block \cup {NoBlock}]
    /\ \A w \in Worker : wpc[w] \in {"write", "announce"} => wblock[w] \in Block
    /\ keep \subseteq Block /\ doomed \subseteq Block
    /\ storeIndex \subseteq Block /\ addedBlockIndexes \subseteq Block
    /\ deleting \in Nat

(* Puts and prunes do not meet in one session, and a read-only store puts  *)
(* nothing.                                                                *)
Apart ==
    /\ callers # "upload" =>
          /\ putChan = <<>> /\ blockIndexChan = <<>>
          /\ addedBlockIndexes = {}
          /\ \A w \in Worker : wpc[w] \notin {"write", "announce"}
    /\ callers # "prune" =>
          /\ prune = "none" /\ keep = {}
          /\ deleteChan = <<>> /\ ipc # "deletes"
    /\ access = "ReadOnly" =>
          /\ \A w \in Worker : wpc[w] \notin {"write", "announce"}
          /\ \A b \in Block : put[b] # "ok"

(* A prune deletes only blocks it does not keep, when only kept ones are   *)
(* left in the index, and it waits for all of its deletions.               *)
Deletions ==
    /\ deleting = Len(deleteChan)
    /\ ipc # "deletes" => deleting = 0
    /\ ipc = "deletes" =>
          /\ prune = "out"
          /\ index \subseteq keep
          /\ doomed \cap keep = {}
          /\ \A i \in 1 .. Len(deleteChan) : deleteChan[i] \notin keep

(* What is in the index, cached, announced or to be announced is stored;   *)
(* the cached index of a prune that deletes, as far as the prune keeps it. *)
(* An upload can break this when Exists fails: a put that does not write   *)
(* the block announces it.                                                 *)
ExistsHolds == "exists" \notin Failures \/ callers # "upload"

Stored ==
    ExistsHolds =>
        /\ index \subseteq chunks
        /\ addedBlockIndexes \subseteq chunks
        /\ \A i \in 1 .. Len(blockIndexChan) : blockIndexChan[i] \in chunks
        /\ \A w \in Worker : wpc[w] = "announce" => wblock[w] \in chunks
        /\ cached /\ ipc # "deletes" => storeIndex \subseteq chunks
        /\ ipc = "deletes" => storeIndex \cap keep \subseteq chunks

(* The index is cached when it is used, and that of a session that prunes  *)
(* is not behind the store's.                                              *)
Cached ==
    /\ ipc = "serve" => cached
    /\ callers = "prune" /\ cached => index \subseteq storeIndex

IInv == Types /\ Apart /\ Deletions /\ Stored /\ Cached

-------------------------------------------------------------------------------
(* Taking a message out of a channel, and sending one.                     *)
LEMMA Received ==
    ASSUME NEW S, NEW chan \in Seq(S), chan # <<>>
    PROVE  /\ Head(chan) \in S /\ Head(chan) = chan[1]
           /\ Tail(chan) \in Seq(S) /\ Len(Tail(chan)) = Len(chan) - 1
           /\ \A i \in 1 .. Len(Tail(chan)) : Tail(chan)[i] = chan[i + 1]
           /\ Len(chan) \in Nat \ {0}
OBVIOUS

LEMMA Sent ==
    ASSUME NEW S, NEW chan \in Seq(S), NEW m \in S
    PROVE  /\ Append(chan, m) \in Seq(S)
           /\ Len(Append(chan, m)) = Len(chan) + 1
           /\ \A i \in 1 .. Len(chan) : Append(chan, m)[i] = chan[i]
           /\ Append(chan, m)[Len(chan) + 1] = m
OBVIOUS

(* Every step keeps the types of the variables.                            *)
LEMMA TypesStep == Types /\ Deletions /\ [Next]_vars => Types'
<1> SUFFICES ASSUME Types, Deletions, [Next]_vars PROVE Types'
  OBVIOUS
<1>1. ASSUME NEW b \in Block, PutStoredBlock(b) PROVE Types'
  BY <1>1, Sent DEF PutStoredBlock, Types
<1>2. CASE GetExistingContent \/ Flush \/ Close
  BY <1>2 DEF GetExistingContent, Flush, Close, Types
<1>3. ASSUME NEW blocks \in SUBSET Block, PruneBlocks(blocks) PROVE Types'
  BY <1>3 DEF PruneBlocks, Types
<1>4. CASE FlushWork \/ CloseWork
  BY <1>4 DEF FlushWork, CloseWork, SendTokens, SendIndexToken, FlushReturns,
     CloseIndex, Closed, Types
<1>5. CASE IndexWork
  <2>1. CASE PollIndex \/ AnswerQuery
    BY <2>1 DEF PollIndex, AnswerQuery, Types
  <2>2. CASE TakeBlockIndex
    BY <2>2, Received DEF TakeBlockIndex, Types
  <2>3. CASE ReadStoreIndex
    BY <2>3 DEF ReadStoreIndex, AddToIndex, Types
  <2>4. CASE FailPrune \/ Prune
    BY <2>4 DEF FailPrune, Prune, Current, Doomed, Types
  <2>5. CASE SendDelete
    BY <2>5, Sent DEF SendDelete, Awaited, Types
  <2>6. CASE PruneReturns
    BY <2>6 DEF PruneReturns, PrunedIndex, Current, Types
  <2>7. CASE FlushIndex
    BY <2>7 DEF FlushIndex, AddBlocks, AddToIndex, LeftToAdd, Types
  <2>8. CASE LeaveIndex
    BY <2>8 DEF LeaveIndex, AddToIndex, Types
  <2>9. CASE Broken
    <3>1. \/ blockIndexChan' = blockIndexChan
          \/ blockIndexChan # <<>> /\ blockIndexChan' = Tail(blockIndexChan)
      BY <2>9 DEF Broken
    <3>2. blockIndexChan' \in Seq(Block)
      <4>1. CASE blockIndexChan' = blockIndexChan
        BY <4>1 DEF Types
      <4>2. CASE blockIndexChan # <<>> /\ blockIndexChan' = Tail(blockIndexChan)
        BY <4>2, Received DEF Types
      <4>3. QED
        BY <3>1, <4>1, <4>2
    <3>3. QED
      BY <2>9, <3>2 DEF Broken, Types
  <2>10. QED
    BY <1>5, <2>1, <2>2, <2>3, <2>4, <2>5, <2>6, <2>7, <2>8, <2>9 DEF IndexWork
<1>6. ASSUME NEW w \in Worker, Work(w) PROVE Types'
  <2>1. CASE Poll(w) \/ TakeToken(w) \/ Leave(w)
    BY <2>1 DEF Poll, TakeToken, Leave, End, Goto, Types
  <2>2. CASE TakePut(w)
    <3>1. Head(putChan) \in Block /\ putChan' \in Seq(Block)
      BY <2>2, Received DEF TakePut, Types
    <3>2. QED
      BY <2>2, <3>1 DEF TakePut, Goto, Types
  <2>3. CASE StoreBlock(w)
    <3>1. wblock[w] \in Block
      BY <2>3 DEF StoreBlock, Types
    <3>2. \/ Goto(w, "announce") /\ UNCHANGED wblock
          \/ Goto(w, "top") /\ wblock' = [wblock EXCEPT ![w] = NoBlock]
      BY <2>3 DEF StoreBlock
    <3>3. /\ wpc' \in [Worker -> {"top", "wait", "last", "write", "announce", "gone"}]
          /\ wblock' \in [Worker -> Block \cup {NoBlock}]
          /\ \A v \in Worker : wpc'[v] \in {"write", "announce"} => wblock'[v] \in Block
      BY <3>1, <3>2 DEF Goto, Types
    <3>4. /\ chunks' \subseteq Block
          /\ put' \in [Block -> {"none", "out", "ok", "failed"}]
      BY <2>3, <3>1 DEF StoreBlock, Types
    <3>5. QED
      BY <2>3, <3>3, <3>4 DEF StoreBlock, Types
  <2>4. CASE Announce(w)
    BY <2>4, Sent DEF Announce, Goto, Types
  <2>5. CASE DeleteBlock(w)
    BY <2>5, Received DEF DeleteBlock, Completed, Fault, Goto, Types, Deletions
  <2>6. QED
    BY <1>6, <2>1, <2>2, <2>3, <2>4, <2>5 DEF Work
<1>7. CASE UNCHANGED vars
  BY <1>7 DEF vars, Types
<1>8. QED
  BY <1>1, <1>2, <1>3, <1>4, <1>5, <1>6, <1>7 DEF Next, Call

(* No step mixes puts and prunes, or puts into a read-only store.          *)
LEMMA ApartStep == Types /\ Apart /\ [Next]_vars => Apart'
<1> SUFFICES ASSUME Types, Apart, [Next]_vars PROVE Apart'
  OBVIOUS
<1>1. CASE Call
  BY <1>1 DEF Call, PutStoredBlock, GetExistingContent, PruneBlocks, Flush, Close,
     Apart, Types
<1>2. CASE FlushWork \/ CloseWork
  BY <1>2 DEF FlushWork, CloseWork, SendTokens, SendIndexToken, FlushReturns,
     CloseIndex, Closed, Apart
<1>3. CASE IndexWork
  <2>1. CASE PollIndex \/ TakeBlockIndex \/ ReadStoreIndex \/ AnswerQuery
    BY <2>1 DEF PollIndex, TakeBlockIndex, ReadStoreIndex, AnswerQuery, Apart
  <2>2. CASE FailPrune \/ Prune \/ SendDelete \/ PruneReturns
    BY <2>2 DEF FailPrune, Prune, SendDelete, PruneReturns, Apart
  <2>3. CASE FlushIndex \/ LeaveIndex
    BY <2>3 DEF FlushIndex, AddBlocks, LeftToAdd, LeaveIndex, Apart
  <2>4. CASE Broken
    BY <2>4 DEF Broken, Apart
  <2>5. QED
    BY <1>3, <2>1, <2>2, <2>3, <2>4 DEF IndexWork
<1>4. ASSUME NEW w \in Worker, Work(w) PROVE Apart'
  <2>1. CASE Poll(w) \/ TakeToken(w) \/ Leave(w)
    BY <2>1 DEF Poll, TakeToken, Leave, End, Goto, Apart, Types
  <2>2. CASE TakePut(w)
    BY <2>2 DEF TakePut, Goto, Apart, Types
  <2>3. CASE StoreBlock(w)
    BY <2>3 DEF StoreBlock, Goto, Apart, Types
  <2>4. CASE Announce(w)
    BY <2>4 DEF Announce, Goto, Apart, Types
  <2>5. CASE DeleteBlock(w)
    BY <2>5 DEF DeleteBlock, Goto, Apart, Types
  <2>6. QED
    BY <1>4, <2>1, <2>2, <2>3, <2>4, <2>5 DEF Work
<1>5. CASE UNCHANGED vars
  BY <1>5 DEF vars, Apart
<1>6. QED
  BY <1>1, <1>2, <1>3, <1>4, <1>5 DEF Next

(* No step deletes what a prune keeps, or loses count of a deletion.       *)
LEMMA DeletionsStep ==
    Types /\ Apart /\ Deletions /\ [Next]_vars => Deletions'
<1> SUFFICES ASSUME Types, Apart, Deletions, [Next]_vars PROVE Deletions'
  OBVIOUS
<1>1. CASE Call
  BY <1>1 DEF Call, PutStoredBlock, GetExistingContent, PruneBlocks, Flush, Close,
     Deletions
<1>2. CASE FlushWork \/ CloseWork
  BY <1>2 DEF FlushWork, CloseWork, SendTokens, SendIndexToken, FlushReturns,
     CloseIndex, Closed, Deletions
<1>3. CASE IndexWork
  <2>1. CASE PollIndex \/ TakeBlockIndex \/ ReadStoreIndex \/ AnswerQuery
    BY <2>1 DEF PollIndex, TakeBlockIndex, ReadStoreIndex, AnswerQuery, Turn,
       Serving, Deletions
  <2>2. CASE FailPrune
    BY <2>2 DEF FailPrune, Turn, Serving, Deletions
  <2>3. CASE Prune
    <3>1. deleting = 0 /\ Len(deleteChan) = 0
      BY <2>3 DEF Prune, Serving, Turn, Deletions
    <3>2. QED
      BY <2>3, <3>1 DEF Prune, Doomed, Deletions
  <2>4. CASE SendDelete
    <3>1. PICK b \in doomed : deleteChan' = Append(deleteChan, b)
      BY <2>4 DEF SendDelete
    <3>2. b \in Block /\ b \notin keep
      BY <2>4, <3>1 DEF SendDelete, Deletions, Types
    <3>3. \A i \in 1 .. Len(deleteChan') : deleteChan'[i] \notin keep
      BY <2>4, <3>1, <3>2, Sent DEF SendDelete, Deletions, Types
    <3>4. Len(deleteChan') = Len(deleteChan) + 1
      BY <3>1, <3>2, Sent DEF Types
    <3>5. QED
      BY <2>4, <3>3, <3>4 DEF SendDelete, Awaited, Deletions
  <2>5. CASE PruneReturns
    BY <2>5 DEF PruneReturns, Deletions
  <2>6. CASE FlushIndex \/ LeaveIndex
    BY <2>6 DEF FlushIndex, LeaveIndex, Deletions
  <2>7. CASE Broken
    BY <2>7 DEF Broken, Deletions
  <2>8. QED
    BY <1>3, <2>1, <2>2, <2>3, <2>4, <2>5, <2>6, <2>7 DEF IndexWork
<1>4. ASSUME NEW w \in Worker, Work(w) PROVE Deletions'
  <2>1. CASE ~DeleteBlock(w)
    BY <1>4, <2>1 DEF Work, Poll, TakePut, StoreBlock, Announce, TakeToken, Leave,
       Deletions
  <2>2. CASE DeleteBlock(w)
    <3>1. /\ deleteChan # <<>> /\ deleteChan' = Tail(deleteChan)
          /\ deleting' = deleting - 1
          /\ UNCHANGED <<ipc, prune, keep, index, doomed>>
      BY <2>2 DEF DeleteBlock, Completed
    <3>2. Len(deleteChan) # 0 /\ ipc = "deletes"
      BY <3>1, Received DEF Types, Deletions
    <3>3. \A i \in 1 .. Len(deleteChan') : deleteChan'[i] \notin keep
      BY <3>1, <3>2, Received DEF Types, Deletions
    <3>4. QED
      BY <3>1, <3>2, <3>3, Received DEF Types, Deletions
  <2>3. QED
    BY <2>1, <2>2
<1>5. CASE UNCHANGED vars
  BY <1>5 DEF vars, Deletions
<1>6. QED
  BY <1>1, <1>2, <1>3, <1>4, <1>5 DEF Next

(* No step lists, caches or announces a block that is not stored.          *)
LEMMA StoredStep == IInv /\ [Next]_vars => Stored'
<1> SUFFICES ASSUME Types, Apart, Deletions, Cached, Stored, ExistsHolds, [Next]_vars
             PROVE  Stored'
  <2>1. [Next]_vars => callers' = callers
    BY DEF Next, vars, Call, PutStoredBlock, GetExistingContent, PruneBlocks, Flush,
       Close, FlushWork, SendTokens, SendIndexToken, FlushReturns, CloseWork,
       CloseIndex, Closed, IndexWork, PollIndex, TakeBlockIndex, ReadStoreIndex,
       AnswerQuery, FailPrune, Prune, SendDelete, PruneReturns, FlushIndex,
       LeaveIndex, Broken, Work, Poll, TakePut, StoreBlock, Announce, DeleteBlock,
       TakeToken, Leave
  <2>2. ~ExistsHolds /\ [Next]_vars => Stored'
    BY <2>1 DEF ExistsHolds, Stored
  <2>3. QED
    BY <2>2 DEF IInv
<1>1. CASE Call
  BY <1>1 DEF Call, PutStoredBlock, GetExistingContent, PruneBlocks, Flush, Close,
     Stored, Deletions, Apart
<1>2. CASE FlushWork \/ CloseWork
  BY <1>2 DEF FlushWork, CloseWork, SendTokens, SendIndexToken, FlushReturns,
     CloseIndex, Closed, Stored
<1>3. CASE IndexWork
  <2>1. CASE PollIndex \/ AnswerQuery
    BY <2>1 DEF PollIndex, AnswerQuery, Turn, Serving, Stored
  <2>2. CASE TakeBlockIndex
    <3>1. /\ blockIndexChan # <<>> /\ blockIndexChan' = Tail(blockIndexChan)
          /\ addedBlockIndexes' = addedBlockIndexes \cup {Head(blockIndexChan)}
          /\ ipc # "deletes" /\ ipc' = "top"
          /\ UNCHANGED <<index, chunks, wpc, wblock, cached, storeIndex>>
      BY <2>2 DEF TakeBlockIndex, Turn
    <3>2. Len(blockIndexChan) # 0 /\ Head(blockIndexChan) = blockIndexChan[1]
      BY <3>1, Received DEF Types
    <3>3. /\ Head(blockIndexChan) \in chunks
          /\ \A i \in 1 .. Len(blockIndexChan') : blockIndexChan'[i] \in chunks
      BY <3>1, <3>2, Received DEF Types, Stored
    <3>4. QED
      BY <3>1, <3>3 DEF Stored
  <2>3. CASE ReadStoreIndex
    BY <2>3 DEF ReadStoreIndex, AddToIndex, Turn, Stored
  <2>4. CASE FailPrune \/ Prune
    BY <2>4 DEF FailPrune, Prune, Current, Serving, Turn, Cached, Stored
  <2>5. CASE SendDelete
    BY <2>5 DEF SendDelete, Stored
  <2>6. CASE PruneReturns
    BY <2>6 DEF PruneReturns, PrunedIndex, Current, Stored
  <2>7. CASE FlushIndex
    BY <2>7 DEF FlushIndex, AddBlocks, AddToIndex, LeftToAdd, Stored
  <2>8. CASE LeaveIndex
    BY <2>8 DEF LeaveIndex, AddToIndex, Stored
  <2>9. CASE Broken
    <3>1. \/ blockIndexChan' = blockIndexChan
          \/ blockIndexChan # <<>> /\ blockIndexChan' = Tail(blockIndexChan)
      BY <2>9 DEF Broken
    <3>2. CASE blockIndexChan # <<>> /\ blockIndexChan' = Tail(blockIndexChan)
      <4>1. \A i \in 1 .. Len(blockIndexChan') : blockIndexChan'[i] \in chunks
        BY <3>2, Received DEF Types, Stored
      <4>2. QED
        BY <2>9, <4>1 DEF Broken, Stored
    <3>3. CASE blockIndexChan' = blockIndexChan
      BY <2>9, <3>3 DEF Broken, Stored
    <3>4. QED
      BY <3>1, <3>2, <3>3
  <2>10. QED
    BY <1>3, <2>1, <2>2, <2>3, <2>4, <2>5, <2>6, <2>7, <2>8, <2>9 DEF IndexWork
<1>4. ASSUME NEW w \in Worker, Work(w) PROVE Stored'
  <2>1. CASE Poll(w) \/ TakePut(w) \/ TakeToken(w) \/ Leave(w)
    BY <2>1 DEF Poll, TakePut, TakeToken, Leave, End, Goto, Types, Stored
  <2>2. CASE StoreBlock(w)
    <3>1. /\ chunks \subseteq chunks'
          /\ \/ /\ wblock[w] \in chunks' /\ Goto(w, "announce")
                /\ UNCHANGED wblock
             \/ Goto(w, "top") /\ wblock' = [wblock EXCEPT ![w] = NoBlock]
      BY <2>2 DEF StoreBlock, Fault, ExistsHolds, Apart
    <3>2. \A v \in Worker : wpc'[v] = "announce" => wblock'[v] \in chunks'
      BY <3>1 DEF Goto, Types, Stored
    <3>3. QED
      BY <2>2, <3>1, <3>2 DEF StoreBlock, Stored
  <2>3. CASE Announce(w)
    <3>1. wblock[w] \in Block /\ wblock[w] \in chunks
      BY <2>3 DEF Announce, Types, Stored
    <3>2. \A i \in 1 .. Len(blockIndexChan') : blockIndexChan'[i] \in chunks
      BY <2>3, <3>1, Sent DEF Announce, Types, Stored
    <3>3. \A v \in Worker : wpc'[v] = "announce" => wblock'[v] \in chunks
      BY <2>3 DEF Announce, Goto, Types, Stored
    <3>4. QED
      BY <2>3, <3>2, <3>3 DEF Announce, Stored
  <2>4. CASE DeleteBlock(w)
    <3>1. /\ deleteChan # <<>>
          /\ \/ chunks' = chunks \ {Head(deleteChan)}
             \/ UNCHANGED chunks
          /\ UNCHANGED <<index, addedBlockIndexes, blockIndexChan, ipc, cached,
                         storeIndex, keep, wblock, callers>>
      BY <2>4 DEF DeleteBlock
    <3>2. ipc = "deletes" /\ Head(deleteChan) \notin keep
      BY <3>1, Received DEF Types, Deletions
    <3>3. addedBlockIndexes = {} /\ blockIndexChan = <<>> /\ index \subseteq keep
      BY <3>2 DEF Types, Apart, Deletions
    <3>4. \A v \in Worker : wpc'[v] # "announce"
      BY <2>4, <3>2 DEF DeleteBlock, Goto, Types, Apart
    <3>5. QED
      BY <3>1, <3>2, <3>3, <3>4 DEF Stored
  <2>5. QED
    BY <1>4, <2>1, <2>2, <2>3, <2>4 DEF Work
<1>5. CASE UNCHANGED vars
  BY <1>5 DEF vars, Stored
<1>6. QED
  BY <1>1, <1>2, <1>3, <1>4, <1>5 DEF Next

(* No step leaves a prune with an index behind the store's.                *)
LEMMA CachedStep == IInv /\ [Next]_vars => Cached'
<1> SUFFICES ASSUME Types, Apart, Deletions, Stored, Cached, [Next]_vars PROVE Cached'
  BY DEF IInv
<1>1. CASE Call \/ FlushWork \/ CloseWork
  BY <1>1 DEF Call, PutStoredBlock, GetExistingContent, PruneBlocks, Flush, Close,
     FlushWork, CloseWork, SendTokens, SendIndexToken, FlushReturns, CloseIndex,
     Closed, Cached
<1>2. CASE IndexWork
  <2>1. CASE PollIndex \/ TakeBlockIndex \/ AnswerQuery \/ SendDelete \/ Broken
    BY <2>1 DEF PollIndex, TakeBlockIndex, AnswerQuery, SendDelete, Broken, Cached
  <2>2. CASE ReadStoreIndex
    BY <2>2 DEF ReadStoreIndex, AddToIndex, ExistsHolds, Stored, Cached
  <2>3. CASE FailPrune \/ Prune
    BY <2>3 DEF FailPrune, Prune, Current, Apart, Cached
  <2>4. CASE PruneReturns
    BY <2>4 DEF PruneReturns, PrunedIndex, Current, Deletions, Cached
  <2>5. CASE FlushIndex \/ LeaveIndex
    BY <2>5 DEF FlushIndex, AddBlocks, LeaveIndex, AddToIndex, Apart, Cached
  <2>6. QED
    BY <1>2, <2>1, <2>2, <2>3, <2>4, <2>5 DEF IndexWork
<1>3. ASSUME NEW w \in Worker, Work(w) PROVE Cached'
  <2>1. UNCHANGED <<callers, index, ipc, cached, storeIndex>>
    BY <1>3 DEF Work, Poll, TakePut, StoreBlock, Announce, DeleteBlock, TakeToken,
       Leave
  <2>2. QED
    BY <2>1 DEF Cached
<1>4. CASE UNCHANGED vars
  BY <1>4 DEF vars, Cached
<1>5. QED
  BY <1>1, <1>2, <1>3, <1>4 DEF Next

-------------------------------------------------------------------------------
(* The invariants of the store                                             *)

(* The invariant holds of a store that was just opened.                    *)
LEMMA IInvInit == Init => IInv
<1> SUFFICES ASSUME Init PROVE IInv
  OBVIOUS
<1>1. Types
  BY RemoteStoreAssumption DEF Init, Types
<1>2. Apart /\ Deletions /\ Cached /\ Stored
  BY DEF Init, Apart, Deletions, Cached, Stored
<1>3. QED
  BY <1>1, <1>2 DEF IInv

(* Puts and prunes keep apart, a prune counts its deletions and deletes    *)
(* nothing it keeps, the cached index is up to date, and what is listed is *)
(* stored unless Exists fails during an upload (the channels of            *)
(* remoteWorker and contentIndexWorker in src/remotestore/remotestore.go). *)
THEOREM Invariance == Spec => []IInv
<1>1. Init => IInv
  BY IInvInit
<1>2. IInv /\ [Next]_vars => IInv'
  BY TypesStep, ApartStep, DeletionsStep, StoredStep, CachedStep DEF IInv
<1>3. QED
  BY <1>1, <1>2, PTL DEF Spec

(* The store index lists no block that is not stored: a block is stored    *)
(* before it is announced and deleted after the pruned index was written   *)
(* (putStoredBlock and onPruneBlocksMessage of                             *)
(* src/remotestore/remotestore.go), provided that Exists does not fail.    *)
THEOREM IndexedBlocksAreStored ==
    ASSUME "exists" \notin Failures
    PROVE  Spec => []IndexedBlocksExist
<1>1. IInv => IndexedBlocksExist
  BY DEF IInv, ExistsHolds, Stored, IndexedBlocksExist
<1>2. QED
  BY <1>1, Invariance, PTL

(* What the content index worker answers or prunes from lists stored       *)
(* blocks only, provided that Exists does not fail.                        *)
THEOREM AnswersAreStored ==
    ASSUME "exists" \notin Failures
    PROVE  Spec => []ContentIsStored
<1>1. IInv => ContentIsStored
  BY DEF IInv, Cached, ExistsHolds, Stored, ContentIsStored, Serving, Turn, Current
<1>2. QED
  BY <1>1, Invariance, PTL

(* A prune takes no block out of the index that it was to keep, whatever   *)
(* fails: the index it writes is the cached one without the others         *)
(* (onPruneBlocksMessage of src/remotestore/remotestore.go).               *)
THEOREM KeptIsKept == Spec => PruneKeepsKept
<1>1. IInv /\ [Next]_vars => [keep \cap index \subseteq index']_vars
  <2> SUFFICES ASSUME IInv, Next PROVE keep \cap index \subseteq index'
    OBVIOUS
  <2>1. CASE Call \/ FlushWork \/ CloseWork
    BY <2>1 DEF Call, PutStoredBlock, GetExistingContent, PruneBlocks, Flush,
       Close, FlushWork, CloseWork, SendTokens, SendIndexToken, FlushReturns,
       CloseIndex, Closed
  <2>2. CASE IndexWork /\ ~FailPrune /\ ~Prune
    BY <2>2 DEF IndexWork, PollIndex, TakeBlockIndex, ReadStoreIndex, AnswerQuery,
       SendDelete, PruneReturns, FlushIndex, AddBlocks, LeaveIndex, AddToIndex,
       Broken
  <2>3. CASE FailPrune \/ Prune
    <3>1. index' = index \/ (index' = Current \cap keep /\ (cached \/ ipc = "serve"))
      BY <2>3 DEF FailPrune, Prune, Serving, Turn
    <3>2. callers = "prune"
      BY <2>3 DEF FailPrune, Prune, IInv, Apart
    <3>3. QED
      BY <3>1, <3>2 DEF Current, IInv, Cached
  <2>4. ASSUME NEW w \in Worker, Work(w) PROVE keep \cap index \subseteq index'
    BY <2>4 DEF Work, Poll, TakePut, StoreBlock, Announce, DeleteBlock, TakeToken,
       Leave
  <2>5. QED
    BY <2>1, <2>2, <2>3, <2>4 DEF Next
<1>2. QED
  BY <1>1, Invariance, PTL DEF Spec, PruneKeepsKept

-------------------------------------------------------------------------------
(* Puts and the end of the store                                           *)

(* A put that was reported a success stays on its way: it is announced,    *)
(* taken, and added, and a failed add keeps it (the flush and the end of   *)
(* contentIndexWorker in src/remotestore/remotestore.go), whatever fails.  *)
THEOREM PutsArrive == Spec => []PutsReachIndex
<1>1. Init => PutsReachIndex
  BY DEF Init, PutsReachIndex
<1>2. IInv /\ PutsReachIndex /\ [Next]_vars => PutsReachIndex'
  <2> SUFFICES ASSUME IInv, PutsReachIndex, [Next]_vars,
                      callers' = "upload", NEW b \in Block, put'[b] = "ok"
               PROVE  \/ b \in index' \cup Announced' \cup addedBlockIndexes'
                      \/ ipc' = "broken" \/ logged'
    BY DEF PutsReachIndex
  <2> DEFINE OnItsWay == \/ b \in index \cup Announced \cup addedBlockIndexes
                        \/ ipc = "broken" \/ logged
  <2>1. CASE Call \/ FlushWork \/ CloseWork
    <3>1. /\ UNCHANGED <<callers, index, blockIndexChan, addedBlockIndexes, ipc,
                         logged>>
          /\ put[b] = "ok"
      BY <2>1 DEF Call, PutStoredBlock, GetExistingContent, PruneBlocks, Flush,
         Close, FlushWork, CloseWork, SendTokens, SendIndexToken, FlushReturns,
         CloseIndex, Closed, IInv, Types
    <3>2. QED
      BY <3>1 DEF PutsReachIndex, Announced
  <2>2. CASE IndexWork
    <3>1. callers = "upload" /\ put[b] = "ok" /\ access # "ReadOnly"
      BY <2>2 DEF IndexWork, PollIndex, TakeBlockIndex, ReadStoreIndex, AnswerQuery,
         FailPrune, Prune, SendDelete, PruneReturns, FlushIndex, LeaveIndex, Broken,
         IInv, Apart
    <3>2. OnItsWay /\ prune = "none" /\ ipc # "deletes"
      BY <3>1 DEF PutsReachIndex, IInv, Apart
    <3>3. CASE PollIndex \/ ReadStoreIndex \/ AnswerQuery
      BY <3>2, <3>3 DEF PollIndex, ReadStoreIndex, AnswerQuery, AddToIndex, Turn,
         Serving, Announced
    <3>4. CASE TakeBlockIndex
      <4>1. /\ blockIndexChan # <<>> /\ blockIndexChan' = Tail(blockIndexChan)
            /\ addedBlockIndexes' = addedBlockIndexes \cup {Head(blockIndexChan)}
            /\ ipc # "broken" /\ UNCHANGED <<index, logged>>
        BY <3>4 DEF TakeBlockIndex, Turn
      <4>2. Announced \subseteq Announced' \cup {Head(blockIndexChan)}
        <5>1. /\ blockIndexChan' \in Seq(Block)
              /\ Len(blockIndexChan') = Len(blockIndexChan) - 1
              /\ \A i \in 1 .. Len(blockIndexChan') :
                    blockIndexChan'[i] = blockIndexChan[i + 1]
              /\ Head(blockIndexChan) = blockIndexChan[1]
          BY <4>1, Received DEF IInv, Types
        <5>2. /\ DOMAIN blockIndexChan = 1 .. Len(blockIndexChan)
              /\ DOMAIN blockIndexChan' = 1 .. Len(blockIndexChan')
              /\ Len(blockIndexChan) \in Nat
          BY <5>1 DEF IInv, Types
        <5>3. ASSUME NEW i \in DOMAIN blockIndexChan, i # 1
              PROVE  blockIndexChan[i] \in Announced'
          <6>1. /\ i - 1 \in DOMAIN blockIndexChan'
                /\ blockIndexChan'[i - 1] = blockIndexChan[i]
            BY <5>1, <5>2, <5>3
          <6>2. QED
            BY <6>1 DEF Announced
        <5>4. QED
          BY <5>1, <5>3 DEF Announced
      <4>3. QED
        BY <3>2, <4>1, <4>2
    <3>5. CASE FlushIndex
      BY <3>2, <3>5 DEF FlushIndex, AddBlocks, AddToIndex, LeftToAdd, Announced
    <3>6. CASE LeaveIndex
      BY <3>1, <3>2, <3>6 DEF LeaveIndex, Adds, AddToIndex, Announced
    <3>7. CASE Broken
      BY <3>7 DEF Broken
    <3>8. CASE FailPrune \/ Prune \/ SendDelete \/ PruneReturns
      BY <3>2, <3>8 DEF FailPrune, Prune, SendDelete, PruneReturns
    <3>9. QED
      BY <2>2, <3>3, <3>4, <3>5, <3>6, <3>7, <3>8 DEF IndexWork
  <2>3. ASSUME NEW w \in Worker, Work(w)
        PROVE  b \in index' \cup Announced' \cup addedBlockIndexes' \/ ipc' = "broken"
               \/ logged'
    <3>1. CASE ~Announce(w)
      <4>1. /\ UNCHANGED <<callers, index, blockIndexChan, addedBlockIndexes, ipc,
                           logged>>
            /\ put[b] = "ok"
        BY <2>3, <3>1 DEF Work, Poll, TakePut, StoreBlock, DeleteBlock, TakeToken,
           Leave, IInv, Types
      <4>2. QED
        BY <4>1 DEF PutsReachIndex, Announced
    <3>2. CASE Announce(w)
      <4>1. /\ blockIndexChan' = Append(blockIndexChan, wblock[w])
            /\ put' = [put EXCEPT ![wblock[w]] = "ok"]
            /\ UNCHANGED <<callers, index, addedBlockIndexes, ipc, logged>>
            /\ wblock[w] \in Block
        BY <3>2 DEF Announce, IInv, Types
      <4>2. Announced' = Announced \cup {wblock[w]}
        <5>1. /\ blockIndexChan' \in Seq(Block)
              /\ Len(blockIndexChan') = Len(blockIndexChan) + 1
              /\ \A i \in 1 .. Len(blockIndexChan) :
                    blockIndexChan'[i] = blockIndexChan[i]
              /\ blockIndexChan'[Len(blockIndexChan) + 1] = wblock[w]
          BY <4>1, Sent DEF IInv, Types
        <5>2. /\ DOMAIN blockIndexChan = 1 .. Len(blockIndexChan)
              /\ DOMAIN blockIndexChan' = 1 .. Len(blockIndexChan')
              /\ Len(blockIndexChan) \in Nat
          BY <5>1 DEF IInv, Types
        <5>3. QED
          BY <5>1, <5>2 DEF Announced
      <4>3. b = wblock[w] \/ put[b] = "ok"
        BY <4>1 DEF IInv, Types
      <4>4. QED
        BY <4>1, <4>2, <4>3 DEF PutsReachIndex
    <3>3. QED
      BY <3>1, <3>2
  <2>4. CASE UNCHANGED vars
    BY <2>4 DEF vars, PutsReachIndex, Announced
  <2>5. QED
    BY <2>1, <2>2, <2>3, <2>4 DEF Next
<1>3. QED
  BY <1>1, <1>2, Invariance, PTL DEF Spec

(* While Close counts the workers, every end in workerErrorChan is that of *)
(* a worker: the content index worker ends only after blockIndexChan is    *)
(* closed.                                                                 *)
Gone == {w \in Worker : wpc[w] = "gone"}

Counted ==
    /\ ipc \in {"last", "end", "gone"} => close \in {"index", "closed"}
    /\ close \in {"open", "workers"} => ended = Cardinality(Gone)
    /\ NoSendAfterClose

(* The ends at the start are those of the workers without a client.        *)
LEMMA CountedInit == Init => Counted
<1> SUFFICES ASSUME Init PROVE Counted
  OBVIOUS
<1>1. PICK dead \in SUBSET Worker :
          /\ wpc = [w \in Worker |-> IF w \in dead THEN "gone" ELSE "top"]
          /\ ended = Cardinality(dead)
  BY DEF Init
<1>2. Gone = dead
  BY <1>1 DEF Gone
<1>3. QED
  BY <1>1, <1>2 DEF Init, Counted, NoSendAfterClose

(* Every end of a worker is counted once, before blockIndexChan is closed. *)
LEMMA CountedStep == Types /\ Counted /\ [Next]_vars => Counted'
<1> SUFFICES ASSUME Types, Counted, [Next]_vars PROVE Counted'
  OBVIOUS
<1>1. CASE Call
  BY <1>1 DEF Call, PutStoredBlock, GetExistingContent, PruneBlocks, Flush, Close,
     Counted, Gone, NoSendAfterClose
<1>2. CASE FlushWork
  BY <1>2 DEF FlushWork, SendTokens, SendIndexToken, FlushReturns, Counted, Gone,
     NoSendAfterClose
<1>3. CASE CloseIndex
  <2>1. ended >= Cardinality(Worker) /\ ended = Cardinality(Gone)
    BY <1>3 DEF CloseIndex, EndsToCount, Counted
  <2>2. IsFiniteSet(Worker) /\ Gone \subseteq Worker
    BY RemoteStoreAssumption DEF Gone
  <2>3. /\ Cardinality(Gone) \in Nat /\ Cardinality(Worker) \in Nat
        /\ Cardinality(Gone) <= Cardinality(Worker)
        /\ Cardinality(Gone) = Cardinality(Worker) => Gone = Worker
    BY <2>2, FS_Subset, FS_CardinalityType
  <2>4. Gone = Worker
    BY <2>1, <2>3
  <2>5. QED
    BY <1>3, <2>4 DEF CloseIndex, Counted, Gone, NoSendAfterClose
<1>4. CASE Closed
  BY <1>4 DEF Closed, Counted, NoSendAfterClose
<1>5. CASE IndexWork
  <2>1. /\ UNCHANGED <<close, wpc>>
        /\ ended' # ended => close = "index" \/ ipc = "end"
        /\ ipc' \in {"last", "end", "gone"} =>
              close = "index" \/ ipc \in {"last", "end", "gone"}
    BY <1>5 DEF IndexWork, PollIndex, TakeBlockIndex, ReadStoreIndex, AnswerQuery,
       FailPrune, Prune, SendDelete, PruneReturns, FlushIndex, LeaveIndex, Broken,
       IndexClosed
  <2>2. QED
    BY <2>1 DEF Counted, Gone, NoSendAfterClose
<1>6. ASSUME NEW w \in Worker, Work(w) PROVE Counted'
  <2>1. /\ UNCHANGED <<close, ipc>>
        /\ wpc[w] # "gone"
        /\ \/ ended' = ended /\ Gone' = Gone
           \/ ended' = ended + 1 /\ Gone' = Gone \cup {w}
    <3>1. CASE Poll(w) \/ TakePut(w) \/ StoreBlock(w) \/ Announce(w) \/ DeleteBlock(w)
      BY <3>1 DEF Poll, TakePut, StoreBlock, Announce, DeleteBlock, Ready, Goto, Gone,
         Types
    <3>2. CASE TakeToken(w) \/ Leave(w)
      BY <3>2 DEF TakeToken, Leave, End, Goto, Gone, Types
    <3>3. QED
      BY <1>6, <3>1, <3>2 DEF Work
  <2>2. close \in {"open", "workers"} => ended' = Cardinality(Gone')
    <3>1. IsFiniteSet(Gone) /\ w \notin Gone
      BY <2>1, FS_Subset, RemoteStoreAssumption DEF Gone
    <3>2. Cardinality(Gone \cup {w}) = Cardinality(Gone) + 1
      BY <3>1, FS_AddElement
    <3>3. QED
      BY <2>1, <3>2 DEF Counted
  <2>3. close \notin {"index", "closed"}
    BY <2>1 DEF Counted, NoSendAfterClose
  <2>4. QED
    BY <2>1, <2>2, <2>3 DEF Counted, NoSendAfterClose
<1>7. CASE UNCHANGED vars
  BY <1>7 DEF vars, Counted, Gone, NoSendAfterClose
<1>8. QED
  BY <1>1, <1>2, <1>3, <1>4, <1>5, <1>6, <1>7 DEF Next, CloseWork

(* No worker is left that could send on blockIndexChan when Close closes   *)
(* it (Close and remoteWorker in src/remotestore/remotestore.go).          *)
THEOREM WorkersEndFirst == Spec => []NoSendAfterClose
<1>1. Counted => NoSendAfterClose
  BY DEF Counted
<1>2. IInv => Types
  BY DEF IInv
<1>3. QED
  BY <1>1, <1>2, Invariance, CountedInit, CountedStep, PTL DEF Spec

(* A flush hands out as many tokens as there are workers and gets as many  *)
(* replies before it goes on; after the workers only the content index     *)
(* worker ends, once.                                                      *)
Tallies ==
    /\ tokens \in Nat /\ replies \in Nat
    /\ IF flush = "replies" THEN tokens + replies = Cardinality(Worker)
                            ELSE tokens = 0 /\ replies = 0
    /\ close = "index" => ended = IF ipc = "gone" THEN 1 ELSE 0
    /\ close = "closed" => ended = 0 /\ ipc = "gone"

(* The number of workers is a number.                                      *)
LEMMA WorkersCounted == Cardinality(Worker) \in Nat
BY RemoteStoreAssumption, FS_CardinalityType

(* No step loses a token or a reply.                                       *)
LEMMA TalliesStep == Tallies /\ Counted /\ [Next]_vars => Tallies'
<1> SUFFICES ASSUME Tallies, Counted, [Next]_vars PROVE Tallies'
  OBVIOUS
<1>1. CASE Call
  BY <1>1 DEF Call, PutStoredBlock, GetExistingContent, PruneBlocks, Flush, Close,
     Tallies
<1>2. CASE FlushWork
  BY <1>2, WorkersCounted DEF FlushWork, SendTokens, SendIndexToken, FlushReturns,
     Tallies
<1>3. CASE CloseIndex
  <2>1. ended >= Cardinality(Worker) /\ ended = Cardinality(Gone)
    BY <1>3 DEF CloseIndex, EndsToCount, Counted
  <2>2. /\ Cardinality(Gone) \in Nat /\ Cardinality(Worker) \in Nat
        /\ Cardinality(Gone) <= Cardinality(Worker)
    BY RemoteStoreAssumption, FS_Subset, FS_CardinalityType DEF Gone
  <2>3. ended - Cardinality(Worker) = 0
    BY <2>1, <2>2
  <2>4. ipc # "gone"
    BY <1>3 DEF CloseIndex, Counted
  <2>5. QED
    BY <1>3, <2>3, <2>4 DEF CloseIndex, EndsToCount, Tallies
<1>4. CASE Closed
  BY <1>4 DEF Closed, Tallies
<1>5. CASE IndexWork
  <2>1. /\ UNCHANGED <<tokens, replies, flush, close>>
        /\ ipc # "gone"
        /\ \/ ended' = ended /\ ipc' # "gone"
           \/ ended' = ended + 1 /\ ipc' = "gone"
    BY <1>5 DEF IndexWork, PollIndex, TakeBlockIndex, ReadStoreIndex, AnswerQuery,
       FailPrune, Prune, SendDelete, PruneReturns, FlushIndex, LeaveIndex, Broken,
       Turn, Serving
  <2>2. QED
    BY <2>1 DEF Tallies
<1>6. ASSUME NEW w \in Worker, Work(w) PROVE Tallies'
  <2>1. /\ UNCHANGED <<flush, close, ipc>>
        /\ wpc[w] # "gone"
        /\ \/ UNCHANGED <<tokens, replies>>
           \/ tokens > 0 /\ tokens' = tokens - 1 /\ replies' = replies + 1
    BY <1>6 DEF Work, Poll, TakePut, StoreBlock, Announce, DeleteBlock, Ready,
       TakeToken, Leave
  <2>2. close \notin {"index", "closed"}
    BY <2>1 DEF Counted, NoSendAfterClose
  <2>3. QED
    BY <2>1, <2>2, WorkersCounted DEF Tallies
<1>7. CASE UNCHANGED vars
  BY <1>7 DEF vars, Tallies
<1>8. QED
  BY <1>1, <1>2, <1>3, <1>4, <1>5, <1>6, <1>7 DEF Next, CloseWork

(* What else TypeOK says.                                                  *)
Flags ==
    /\ hasLsi \in BOOLEAN /\ cached \in BOOLEAN
    /\ err \in BOOLEAN /\ logged \in BOOLEAN
    /\ indexToken \in BOOLEAN

(* The flags are Boolean at the start.                                     *)
LEMMA FlagsInit == Init => Flags
<1> SUFFICES ASSUME Init PROVE Flags
  OBVIOUS
<1>1. hasLsi \in BOOLEAN
  BY DEF Init
<1>2. cached \in BOOLEAN /\ err \in BOOLEAN /\ logged \in BOOLEAN /\ indexToken \in BOOLEAN
  BY DEF Init
<1>3. QED
  BY <1>1, <1>2 DEF Flags

(* Every step keeps the flags Boolean.                                     *)
LEMMA FlagsStep == Flags /\ [Next]_vars => Flags'
<1> SUFFICES ASSUME Flags, [Next]_vars PROVE Flags'
  OBVIOUS
<1>1. CASE Call \/ FlushWork \/ CloseWork
  BY <1>1 DEF Call, PutStoredBlock, GetExistingContent, PruneBlocks, Flush, Close,
     FlushWork, CloseWork, SendTokens, SendIndexToken, FlushReturns, CloseIndex,
     Closed, Flags
<1>2. CASE IndexWork
  <2>1. CASE PollIndex \/ TakeBlockIndex \/ SendDelete
    BY <2>1 DEF PollIndex, TakeBlockIndex, SendDelete, Flags
  <2>2. CASE ReadStoreIndex
    BY <2>2 DEF ReadStoreIndex, AddToIndex, Flags
  <2>3. CASE AnswerQuery
    BY <2>3 DEF AnswerQuery, Flags
  <2>4. CASE FailPrune
    BY <2>4 DEF FailPrune, Flags
  <2>5. CASE Prune \/ PruneReturns
    BY <2>5 DEF Prune, PruneReturns, Flags
  <2>6. CASE FlushIndex
    BY <2>6 DEF FlushIndex, AddBlocks, AddToIndex, Flags
  <2>7. CASE LeaveIndex
    BY <2>7 DEF LeaveIndex, AddToIndex, Flags
  <2>8. CASE Broken
    BY <2>8 DEF Broken, Flags
  <2>9. QED
    BY <1>2, <2>1, <2>2, <2>3, <2>4, <2>5, <2>6, <2>7, <2>8 DEF IndexWork
<1>3. ASSUME NEW w \in Worker, Work(w) PROVE Flags'
  BY <1>3 DEF Work, Poll, TakePut, StoreBlock, Announce, DeleteBlock, TakeToken,
     Leave, Flags
<1>4. CASE UNCHANGED vars
  BY <1>4 DEF vars, Flags
<1>5. QED
  BY <1>1, <1>2, <1>3, <1>4 DEF Next

(* The channels hold no more than their capacity.                          *)
Limits ==
    /\ access \in {"ReadWrite", "ReadOnly", "Init"}
    /\ Len(putChan) <= PutCap
    /\ Len(blockIndexChan) <= IndexCap
    /\ Len(deleteChan) <= DeleteCap
    /\ queries \in Nat /\ asked \in Nat /\ flushes \in Nat /\ faults \in Nat
    /\ indexReply \in {"none", "ok", "error"}
    /\ prune \in {"none", "out", "ok", "failed"}
    /\ flush \in {"none", "tokens", "replies", "reply"}
    /\ close \in {"open", "workers", "index", "closed"}
    /\ ipc \in {"top", "wait", "last", "end", "serve", "deletes", "broken", "gone"}

(* The channels are empty at the start.                                    *)
LEMMA LimitsInit == Init => Limits
BY RemoteStoreAssumption DEF Init, Limits

(* No step sends into a full channel.                                      *)
LEMMA LimitsStep == Types /\ Limits /\ [Next]_vars => Limits'
<1> SUFFICES ASSUME Types, Limits, [Next]_vars PROVE Limits'
  OBVIOUS
<1>1. ASSUME NEW b \in Block, PutStoredBlock(b) PROVE Limits'
  <2>1. Len(putChan') <= PutCap
    BY <1>1, Sent, RemoteStoreAssumption DEF PutStoredBlock, Types
  <2>2. QED
    BY <1>1, <2>1 DEF PutStoredBlock, Limits
<1>2. CASE GetExistingContent \/ Flush \/ Close
  BY <1>2 DEF GetExistingContent, Flush, Close, Limits
<1>3. ASSUME NEW blocks \in SUBSET Block, PruneBlocks(blocks) PROVE Limits'
  BY <1>3 DEF PruneBlocks, Limits
<1>4. CASE FlushWork \/ CloseWork
  BY <1>4 DEF FlushWork, CloseWork, SendTokens, SendIndexToken, FlushReturns,
     CloseIndex, Closed, Limits
<1>5. CASE IndexWork
  <2>1. CASE TakeBlockIndex
    BY <2>1, Received, RemoteStoreAssumption DEF TakeBlockIndex, Types, Limits
  <2>2. CASE SendDelete
    <3>1. Len(deleteChan') <= DeleteCap
      BY <2>2, Sent, RemoteStoreAssumption DEF SendDelete, Types
    <3>2. QED
      BY <2>2, <3>1 DEF SendDelete, Limits
  <2>3. CASE Broken
    <3>1. Len(blockIndexChan') <= IndexCap
      <4>1. \/ blockIndexChan' = blockIndexChan
            \/ blockIndexChan # <<>> /\ blockIndexChan' = Tail(blockIndexChan)
        BY <2>3 DEF Broken
      <4>2. QED
        BY <4>1, Received, RemoteStoreAssumption DEF Types, Limits
    <3>2. QED
      BY <2>3, <3>1 DEF Broken, Limits
  <2>4. CASE PollIndex \/ ReadStoreIndex \/ AnswerQuery \/ FailPrune
    BY <2>4 DEF PollIndex, ReadStoreIndex, AnswerQuery, FailPrune, AddToIndex, Fault,
       Limits
  <2>5. CASE Prune \/ PruneReturns \/ FlushIndex \/ LeaveIndex
    BY <2>5 DEF Prune, PruneReturns, FlushIndex, LeaveIndex, AddBlocks, AddToIndex,
       Fault, Limits
  <2>6. QED
    BY <1>5, <2>1, <2>2, <2>3, <2>4, <2>5 DEF IndexWork
<1>6. ASSUME NEW w \in Worker, Work(w) PROVE Limits'
  <2>1. CASE Poll(w) \/ StoreBlock(w) \/ TakeToken(w) \/ Leave(w)
    BY <2>1 DEF Poll, StoreBlock, TakeToken, Leave, Fault, Limits
  <2>2. CASE TakePut(w)
    BY <2>2, Received, RemoteStoreAssumption DEF TakePut, Types, Limits
  <2>3. CASE Announce(w)
    <3>1. Len(blockIndexChan') <= IndexCap
      BY <2>3, Sent, RemoteStoreAssumption DEF Announce, Types
    <3>2. QED
      BY <2>3, <3>1 DEF Announce, Limits
  <2>4. CASE DeleteBlock(w)
    <3>1. Len(deleteChan') <= DeleteCap
      BY <2>4, Received, RemoteStoreAssumption DEF DeleteBlock, Types, Limits
    <3>2. faults' \in Nat
      BY <2>4 DEF DeleteBlock, Completed, Fault, Limits
    <3>3. QED
      BY <2>4, <3>1, <3>2 DEF DeleteBlock, Limits
  <2>5. QED
    BY <1>6, <2>1, <2>2, <2>3, <2>4 DEF Work
<1>7. CASE UNCHANGED vars
  BY <1>7 DEF vars, Limits
<1>8. QED
  BY <1>1, <1>2, <1>3, <1>4, <1>5, <1>6, <1>7 DEF Next, Call

(* At most one more goroutine than there are workers has ended.            *)
LEMMA EndedBound ==
    Limits /\ Tallies /\ Counted => ended \in 0 .. Cardinality(Worker) + 1
<1>1. /\ Cardinality(Gone) \in Nat /\ Cardinality(Worker) \in Nat
      /\ Cardinality(Gone) <= Cardinality(Worker)
  BY RemoteStoreAssumption, FS_Subset, FS_CardinalityType DEF Gone
<1>2. QED
  BY <1>1 DEF Limits, Tallies, Counted

(* Every variable keeps its type, the channels their capacities and the    *)
(* counts of tokens, replies and ends their bounds, for any workers.       *)
THEOREM TypeCorrect == Spec => []TypeOK
<1>1. Init => Tallies
  BY DEF Init, Tallies
<1>2. Types /\ Flags /\ Limits /\ Tallies /\ Counted => TypeOK
  BY EndedBound, WorkersCounted DEF Types, Flags, Limits, Tallies, TypeOK
<1>3. IInv => Types
  BY DEF IInv
<1>4. QED
  BY <1>1, <1>2, <1>3, Invariance, CountedInit, CountedStep, FlagsInit, FlagsStep,
     LimitsInit, LimitsStep, TalliesStep, PTL DEF Spec
-------------------------------------------------------------------------------
(* Some goroutine always has a step to take                                *)

(* Where each call that is out is.  A put is in the channel or with a      *)
(* worker; a worker is left to take it as long as the store is open, and   *)
(* nothing is out once it is closed.  The content index worker serves only *)
(* when asked, leaves only when nothing is announced any more, and owes a  *)
(* flush its reply as long as it has not taken the token.                  *)
CallsAreHeld ==
    /\ \A b \in Block : put[b] = "out" =>
          \/ \E i \in 1 .. Len(putChan) : putChan[i] = b
          \/ \E w \in Worker : wpc[w] \in {"write", "announce"} /\ wblock[w] = b
    /\ close = "open" => \E w \in Worker : wpc[w] # "gone"
    /\ close # "open" => AllAnswered
    /\ \A w \in Worker : wpc[w] = "last" => close # "open" /\ putChan = <<>>
    /\ ipc = "serve" => Asked
    /\ ipc \in {"last", "end"} => blockIndexChan = <<>>
    /\ flush = "reply" => indexToken \/ indexReply # "none"

(* Nothing is out at the start.                                            *)
LEMMA HeldInit == Init => CallsAreHeld
<1> SUFFICES ASSUME Init PROVE CallsAreHeld
  OBVIOUS
<1>1. PICK dead \in SUBSET Worker :
          /\ dead # Worker
          /\ wpc = [w \in Worker |-> IF w \in dead THEN "gone" ELSE "top"]
  BY DEF Init
<1>2. \A w \in Worker : wpc[w] \in {"gone", "top"}
  BY <1>1
<1>3. \E w \in Worker : wpc[w] # "gone"
  BY <1>1
<1> QED BY <1>2, <1>3 DEF Init, CallsAreHeld

(* A worker that takes a put holds its block.                              *)
LEMMA HeldByTaker ==
    ASSUME Types, CallsAreHeld, NEW w \in Worker, TakePut(w)
    PROVE  CallsAreHeld'
<1> DEFINE b == Head(putChan)
<1>1. /\ Ready(w) /\ putChan # <<>> /\ putChan' = Tail(putChan)
      /\ UNCHANGED <<queries, prune, close, ipc, access, blockIndexChan, flush,
                     indexToken, indexReply>>
  BY DEF TakePut
<1>2. /\ b \in Block /\ b = putChan[1]
      /\ Len(Tail(putChan)) = Len(putChan) - 1 /\ Len(putChan) \in Nat
      /\ \A i \in 1 .. Len(Tail(putChan)) : Tail(putChan)[i] = putChan[i + 1]
  BY <1>1, Received DEF Types
<1>3. \/ put' = [put EXCEPT ![b] = "failed"] /\ wpc' = [wpc EXCEPT ![w] = "top"]
         /\ wblock' = wblock
      \/ put' = put /\ wpc' = [wpc EXCEPT ![w] = "write"]
         /\ wblock' = [wblock EXCEPT ![w] = b]
  BY DEF TakePut, Goto
<1>4. \A v \in Worker : wpc[v] \in {"write", "announce"} =>
          wpc'[v] = wpc[v] /\ wblock'[v] = wblock[v]
  BY <1>1, <1>3 DEF Ready, Types
<1>5. \A a \in Block : put'[a] = "out" =>
          \/ \E i \in 1 .. Len(putChan') : putChan'[i] = a
          \/ \E v \in Worker : wpc'[v] \in {"write", "announce"} /\ wblock'[v] = a
  <2> SUFFICES ASSUME NEW a \in Block, put'[a] = "out"
               PROVE  \/ \E i \in 1 .. Len(putChan') : putChan'[i] = a
                      \/ \E v \in Worker : wpc'[v] \in {"write", "announce"} /\ wblock'[v] = a
    OBVIOUS
  <2>1. put[a] = "out"
    BY <1>3, <1>2 DEF Types
  <2>2. CASE \E v \in Worker : wpc[v] \in {"write", "announce"} /\ wblock[v] = a
    BY <2>2, <1>4
  <2>3. ASSUME NEW i \in 1 .. Len(putChan), putChan[i] = a, i # 1
        PROVE  \E k \in 1 .. Len(putChan') : putChan'[k] = a
    <3>1. i - 1 \in 1 .. Len(putChan')
      BY <2>3, <1>1, <1>2
    <3>2. putChan'[i - 1] = a
      BY <2>3, <3>1, <1>1, <1>2
    <3> QED BY <3>1, <3>2
  <2>4. CASE putChan[1] = a
    <3>1. wpc'[w] = "write" /\ wblock'[w] = a
      BY <2>4, <1>2, <1>3 DEF Types
    <3> QED BY <3>1
  <2> QED BY <2>1, <2>2, <2>3, <2>4 DEF CallsAreHeld
<1>6. close # "open" => \A a \in Block : put'[a] # "out"
  BY <1>2, <1>3 DEF CallsAreHeld, AllAnswered, Types
<1>7. close = "open" => \E v \in Worker : wpc'[v] # "gone"
  BY <1>3 DEF Types
<1>8. \A v \in Worker : wpc'[v] # "last"
  BY <1>1, <1>3 DEF CallsAreHeld, Types
<1> QED BY <1>1, <1>5, <1>6, <1>7, <1>8 DEF CallsAreHeld, AllAnswered, Asked

(* No other worker is touched by the steps of one, and puts that it holds  *)
(* are answered when it lets them go.                                      *)
LEMMA HeldByWorker ==
    ASSUME Types, Counted, CallsAreHeld, NEW w \in Worker, Work(w), ~TakePut(w)
    PROVE  CallsAreHeld'
<1>1. /\ UNCHANGED <<queries, prune, close, ipc, access, putChan, flush,
                     indexToken, indexReply>>
      /\ wpc[w] # "gone"
      /\ blockIndexChan' = blockIndexChan \/ Announce(w)
  BY DEF Work, Poll, TakePut, StoreBlock, Announce, DeleteBlock, TakeToken, Leave, Ready
<1>2. PICK phase :
          /\ wpc' = [wpc EXCEPT ![w] = phase]
          /\ phase \in {"top", "wait", "last", "announce", "gone"}
          /\ phase = "gone" => wpc[w] = "last" \/ close # "open"
          /\ phase = "last" => close # "open" /\ putChan = <<>>
  BY DEF Work, Poll, TakePut, StoreBlock, Announce, DeleteBlock, TakeToken, Leave,
     Goto, End
<1>3. \A v \in Worker : v # w => wpc'[v] = wpc[v]
  BY <1>2 DEF Types
<1>4. wpc'[w] = phase
  BY <1>2 DEF Types
<1>5. ASSUME NEW a \in Block, put'[a] = "out"
      PROVE  /\ put[a] = "out"
             /\ \A v \in Worker : wpc[v] \in {"write", "announce"} /\ wblock[v] = a =>
                    wpc'[v] \in {"write", "announce"} /\ wblock'[v] = a
  <2>1. CASE Poll(w) \/ DeleteBlock(w) \/ TakeToken(w) \/ Leave(w)
    <3>1. UNCHANGED <<put, wblock>> /\ wpc[w] \in {"top", "wait", "last"}
      BY <2>1 DEF Poll, DeleteBlock, TakeToken, Leave, Ready
    <3> QED BY <3>1, <1>3, <1>5
  <2>2. CASE StoreBlock(w)
    <3>1. wpc[w] = "write" /\ wblock[w] \in Block
      BY <2>2 DEF StoreBlock, Types
    <3>2. \/ UNCHANGED <<put, wblock>> /\ wpc' = [wpc EXCEPT ![w] = "announce"]
          \/ put' = [put EXCEPT ![wblock[w]] = "failed"]
             /\ wblock' = [wblock EXCEPT ![w] = NoBlock]
      BY <2>2 DEF StoreBlock, Goto
    <3>3. CASE UNCHANGED <<put, wblock>> /\ wpc' = [wpc EXCEPT ![w] = "announce"]
      BY <3>3, <1>3, <1>5 DEF Types
    <3>4. CASE put' = [put EXCEPT ![wblock[w]] = "failed"]
               /\ wblock' = [wblock EXCEPT ![w] = NoBlock]
      <4>1. put[a] = "out" /\ a # wblock[w]
        BY <3>1, <3>4, <1>5 DEF Types
      <4>2. \A v \in Worker : v # w => wblock'[v] = wblock[v]
        BY <3>4 DEF Types
      <4> QED BY <4>1, <4>2, <1>3
    <3> QED BY <3>2, <3>3, <3>4
  <2>3. CASE Announce(w)
    <3>1. /\ wblock[w] \in Block
          /\ put' = [put EXCEPT ![wblock[w]] = "ok"]
          /\ wblock' = [wblock EXCEPT ![w] = NoBlock]
      BY <2>3 DEF Announce, Types
    <3>2. put[a] = "out" /\ a # wblock[w]
      BY <3>1, <1>5 DEF Types
    <3>3. \A v \in Worker : v # w => wblock'[v] = wblock[v]
      BY <3>1 DEF Types
    <3> QED BY <3>2, <3>3, <1>3
  <2> QED BY <2>1, <2>2, <2>3 DEF Work
<1>6. \A a \in Block : put'[a] = "out" =>
          \/ \E i \in 1 .. Len(putChan') : putChan'[i] = a
          \/ \E v \in Worker : wpc'[v] \in {"write", "announce"} /\ wblock'[v] = a
  BY <1>1, <1>5 DEF CallsAreHeld
<1>7. close = "open" => \E v \in Worker : wpc'[v] # "gone"
  BY <1>2, <1>4 DEF CallsAreHeld
<1>8. close # "open" => AllAnswered'
  BY <1>1, <1>5 DEF CallsAreHeld, AllAnswered
<1>9. \A v \in Worker : wpc'[v] = "last" => close # "open" /\ putChan = <<>>
  BY <1>2, <1>3, <1>4 DEF CallsAreHeld
<1>10. ipc \in {"last", "end"} => blockIndexChan' = <<>>
  <2>1. ipc \in {"last", "end"} => wpc[w] = "gone"
    BY DEF Counted, NoSendAfterClose
  <2> QED BY <1>1, <2>1
<1> QED BY <1>1, <1>6, <1>7, <1>8, <1>9, <1>10 DEF CallsAreHeld, Asked

(* The steps of the content index worker.                                  *)
LEMMA HeldByIndexWorker ==
    ASSUME Types, CallsAreHeld, IndexWork
    PROVE  CallsAreHeld'
<1>1. /\ UNCHANGED <<access, putChan, close, wpc, wblock, put, flush>>
      /\ prune' = prune \/ prune' # "out"
      /\ queries > 0 \/ queries' = queries
  BY DEF IndexWork, PollIndex, TakeBlockIndex, ReadStoreIndex, AnswerQuery,
     FailPrune, Prune, SendDelete, PruneReturns, FlushIndex, LeaveIndex, Broken
<1>2. AllAnswered => AllAnswered'
  BY <1>1 DEF AllAnswered
<1>3. /\ ipc' = "serve" => UNCHANGED <<queries, prune>> /\ Asked
      /\ ipc' \in {"last", "end"} => blockIndexChan' = <<>>
      /\ indexToken' = indexToken \/ indexReply' # "none"
      /\ indexReply' = indexReply \/ indexReply' # "none"
  BY DEF IndexWork, PollIndex, TakeBlockIndex, ReadStoreIndex, AnswerQuery,
     FailPrune, Prune, SendDelete, PruneReturns, FlushIndex, LeaveIndex, Broken,
     IndexClosed, CallsAreHeld, Turn
<1>4. ipc' = "serve" => Asked'
  BY <1>1, <1>3 DEF Asked
<1> QED BY <1>1, <1>2, <1>3, <1>4 DEF CallsAreHeld

(* No step loses sight of a call.                                          *)
LEMMA HeldStep ==
    Types /\ Limits /\ Counted /\ CallsAreHeld /\ [Next]_vars => CallsAreHeld'
<1> SUFFICES ASSUME Types, Limits, Counted, CallsAreHeld, [Next]_vars
             PROVE  CallsAreHeld'
  OBVIOUS
<1>1. ASSUME NEW b \in Block, PutStoredBlock(b) PROVE CallsAreHeld'
  <2>1. /\ putChan' = Append(putChan, b) /\ put' = [put EXCEPT ![b] = "out"]
        /\ close = "open" /\ close' = "open"
        /\ UNCHANGED <<wpc, wblock, ipc, queries, prune, access, blockIndexChan, flush,
                       indexToken, indexReply>>
    BY <1>1 DEF PutStoredBlock
  <2>2. /\ Len(putChan') = Len(putChan) + 1 /\ Len(putChan) \in Nat
        /\ \A i \in 1 .. Len(putChan) : putChan'[i] = putChan[i]
        /\ putChan'[Len(putChan) + 1] = b
    BY <2>1, Sent DEF Types
  <2>3. ASSUME NEW a \in Block, put'[a] = "out"
        PROVE  \/ \E i \in 1 .. Len(putChan') : putChan'[i] = a
               \/ \E w \in Worker : wpc'[w] \in {"write", "announce"} /\ wblock'[w] = a
    <3>1. CASE a = b
      BY <3>1, <2>2
    <3>2. CASE a # b
      <4>1. put[a] = "out"
        BY <2>1, <2>3, <3>2 DEF Types
      <4>2. ASSUME NEW i \in 1 .. Len(putChan), putChan[i] = a
            PROVE  \E k \in 1 .. Len(putChan') : putChan'[k] = a
        BY <4>2, <2>2
      <4> QED BY <4>1, <4>2, <2>1 DEF CallsAreHeld
    <3> QED BY <3>1, <3>2
  <2>4. \A w \in Worker : wpc'[w] # "last"
    BY <2>1 DEF CallsAreHeld
  <2> QED BY <2>1, <2>3, <2>4 DEF CallsAreHeld, Asked
<1>2. CASE GetExistingContent
  <2>1. queries > 0 => queries' > 0
    BY <1>2 DEF GetExistingContent, Limits
  <2>2. ipc = "serve" => Asked'
    BY <1>2, <2>1 DEF GetExistingContent, CallsAreHeld, Asked
  <2> QED BY <1>2, <2>2 DEF GetExistingContent, CallsAreHeld
<1>3. ASSUME NEW blocks \in SUBSET Block, PruneBlocks(blocks) PROVE CallsAreHeld'
  BY <1>3 DEF PruneBlocks, CallsAreHeld, Asked
<1>4. CASE Flush \/ Close
  BY <1>4 DEF Flush, Close, CallsAreHeld, AllAnswered, Asked
<1>5. CASE FlushWork
  BY <1>5 DEF FlushWork, SendTokens, SendIndexToken, FlushReturns, CallsAreHeld,
     AllAnswered, Asked
<1>6. CASE CloseWork
  BY <1>6 DEF CloseWork, CloseIndex, Closed, CallsAreHeld, AllAnswered, Asked
<1>7. CASE IndexWork
  BY <1>7, HeldByIndexWorker
<1>8. ASSUME NEW w \in Worker, Work(w) PROVE CallsAreHeld'
  BY <1>8, HeldByTaker, HeldByWorker
<1>9. CASE UNCHANGED vars
  BY <1>9 DEF vars, CallsAreHeld, AllAnswered, Asked
<1> QED BY <1>1, <1>2, <1>3, <1>4, <1>5, <1>6, <1>7, <1>8, <1>9 DEF Next, Call

(* A worker that has not ended goes on, but for one that waits with nothing*)
(* to take, and one that waits for room in blockIndexChan.                 *)
LEMMA WorkersGoOn ==
    ASSUME Types, CallsAreHeld, NEW w \in Worker, wpc[w] # "gone", ~WorkerGoesOn(w)
    PROVE  \/ /\ wpc[w] = "wait" /\ close = "open"
              /\ putChan = <<>> /\ deleteChan = <<>>
              /\ ~(tokens > 0 /\ replies < Cardinality(Worker))
           \/ wpc[w] = "announce" /\ blockIndexChan # <<>>
<1>1. wpc[w] \in {"top", "wait", "last", "write", "announce"}
  BY DEF Types
<1>2. CASE wpc[w] = "top"
  BY <1>2 DEF WorkerGoesOn, Ready
<1>3. CASE wpc[w] = "wait"
  BY <1>3 DEF WorkerGoesOn, Ready
<1>4. CASE wpc[w] = "last"
  BY <1>4 DEF WorkerGoesOn, CallsAreHeld
<1>5. CASE wpc[w] = "announce"
  <2>1. ~(Len(blockIndexChan) < IndexCap)
    BY <1>5 DEF WorkerGoesOn
  <2>2. blockIndexChan = <<>> => Len(blockIndexChan) < IndexCap
    BY RemoteStoreAssumption
  <2> QED BY <1>5, <2>1, <2>2
<1> QED BY <1>1, <1>2, <1>3, <1>4, <1>5 DEF WorkerGoesOn

(* The content index worker goes on when it is asked anything, but for one *)
(* that has ended and one whose prune waits for deletions.                 *)
LEMMA IndexWorkerGoesOn ==
    ASSUME Limits, Counted, Tallies, CallsAreHeld, ~IndexGoesOn,
           ipc \notin {"gone", "deletes"}
    PROVE  /\ queries = 0 /\ prune # "out" /\ blockIndexChan = <<>>
           /\ ~indexToken /\ ~IndexClosed
<1>1. ipc \in {"top", "wait", "last", "end", "serve", "broken"} /\ queries \in Nat
  BY DEF Limits
<1>2. CASE ipc = "top"
  BY <1>1, <1>2 DEF IndexGoesOn, Turn
<1>3. CASE ipc = "wait"
  BY <1>1, <1>3 DEF IndexGoesOn, Turn
<1>4. CASE ipc = "serve"
  BY <1>4 DEF IndexGoesOn, CallsAreHeld
<1>5. CASE ipc = "broken"
  BY <1>1, <1>5 DEF IndexGoesOn
<1>6. CASE ipc = "end"
  BY <1>6 DEF IndexGoesOn
<1>7. CASE ipc = "last"
  <2>1. blockIndexChan = <<>> /\ ~IndexClosed
    BY <1>7 DEF IndexGoesOn, CallsAreHeld
  <2>2. close = "index"
    BY <1>7 DEF Counted, Tallies
  <2> QED BY <2>1, <2>2 DEF IndexClosed
<1> QED BY <1>1, <1>2, <1>3, <1>4, <1>5, <1>6, <1>7

(* A prune that waits for deletions goes on when there is none in the      *)
(* channel.                                                                *)
LEMMA PrunesGoOn ==
    ASSUME Types, Deletions, ~IndexGoesOn, ipc = "deletes"
    PROVE  deleteChan # <<>>
<1>1. SUFFICES ASSUME deleteChan = <<>> PROVE IndexGoesOn
  OBVIOUS
<1>2. Len(deleteChan) = 0 /\ deleting = 0
  BY <1>1 DEF Deletions
<1>3. Len(deleteChan) < DeleteCap
  BY <1>2, RemoteStoreAssumption
<1> QED BY <1>2, <1>3 DEF IndexGoesOn

Healthy == Types /\ Apart /\ Deletions /\ Counted /\ Tallies /\ Flags /\ Limits /\ CallsAreHeld

(* The content index worker does not keep a worker waiting for room.       *)
LEMMA NoRoomForLong ==
    ASSUME Healthy, ~IndexGoesOn
    PROVE  (\E w \in Worker : wpc[w] # "gone") => blockIndexChan = <<>>
<1> USE DEF Healthy
<1>1. SUFFICES ASSUME NEW w \in Worker, wpc[w] # "gone" PROVE blockIndexChan = <<>>
  OBVIOUS
<1>2. ipc # "gone"
  BY <1>1 DEF Counted, NoSendAfterClose
<1>3. CASE ipc = "deletes"
  <2>1. callers # "upload"
    BY <1>3 DEF Apart
  <2> QED BY <2>1 DEF Apart
<1>4. CASE ipc # "deletes"
  BY <1>2, <1>4, IndexWorkerGoesOn
<1> QED BY <1>3, <1>4

(* In an open store that has a call out, somebody goes on.                 *)
LEMMA OpenGoesOn ==
    ASSUME Healthy, close = "open", ~AllReturned,
           \A w \in Worker : ~WorkerGoesOn(w), ~IndexGoesOn, ~FlushGoesOn
    PROVE  FALSE
<1> USE DEF Healthy
<1>1. PICK w \in Worker : wpc[w] # "gone"
  BY DEF CallsAreHeld
<1>2. blockIndexChan = <<>>
  BY <1>1, NoRoomForLong
<1>3. \A v \in Worker : wpc[v] # "gone" =>
          /\ wpc[v] = "wait" /\ putChan = <<>> /\ deleteChan = <<>>
          /\ ~(tokens > 0 /\ replies < Cardinality(Worker))
  BY <1>2, WorkersGoOn
<1>4. ipc # "deletes"
  BY <1>1, <1>3, PrunesGoOn
<1>5. ipc # "gone"
  BY DEF Counted
<1>6. queries = 0 /\ prune # "out" /\ ~indexToken
  BY <1>4, <1>5, IndexWorkerGoesOn
<1>7. \A b \in Block : put[b] # "out"
  <2>1. ~(\E i \in 1 .. Len(putChan) : TRUE)
    BY <1>1, <1>3
  <2>2. \A v \in Worker : wpc[v] \notin {"write", "announce"}
    BY <1>3
  <2> QED BY <2>1, <2>2 DEF CallsAreHeld
<1>8. flush # "none"
  BY <1>6, <1>7 DEF AllReturned, AllAnswered
<1>9. CASE flush = "replies"
  <2>1. replies # Cardinality(Worker) /\ tokens + replies = Cardinality(Worker)
    BY <1>9 DEF FlushGoesOn, Tallies
  <2>2. tokens \in Nat /\ replies \in Nat /\ Cardinality(Worker) \in Nat
    BY WorkersCounted DEF Tallies
  <2>3. tokens > 0 /\ replies < Cardinality(Worker)
    BY <2>1, <2>2
  <2> QED BY <2>3, <1>1, <1>3
<1>10. CASE flush = "reply"
  BY <1>6, <1>10 DEF FlushGoesOn, CallsAreHeld
<1> QED BY <1>8, <1>9, <1>10 DEF FlushGoesOn, Limits

(* In a store that is being closed, somebody goes on.                      *)
LEMMA ClosingGoesOn ==
    ASSUME Healthy, close \in {"workers", "index"},
           \A w \in Worker : ~WorkerGoesOn(w), ~IndexGoesOn, ~CloseGoesOn
    PROVE  FALSE
<1> USE DEF Healthy
<1>1. AllAnswered
  BY DEF CallsAreHeld
<1>2. ipc # "deletes"
  BY <1>1 DEF Deletions, AllAnswered
<1>3. CASE close = "workers"
  <2>1. \A w \in Worker : wpc[w] = "gone"
    <3>1. SUFFICES ASSUME NEW w \in Worker, wpc[w] # "gone" PROVE FALSE
      OBVIOUS
    <3>2. blockIndexChan = <<>>
      BY <3>1, NoRoomForLong
    <3> QED BY <3>1, <3>2, <1>3, WorkersGoOn
  <2>2. Gone = Worker
    BY <2>1 DEF Gone
  <2>3. ended = Cardinality(Worker)
    BY <1>3, <2>2 DEF Counted
  <2> QED BY <2>3, <1>3, WorkersCounted DEF CloseGoesOn, EndsToCount
<1>4. CASE close = "index"
  <2>1. ended = (IF ipc = "gone" THEN 1 ELSE 0) /\ ~(ended > 0)
    BY <1>4 DEF CloseGoesOn, Tallies
  <2>2. ipc # "gone"
    BY <2>1
  <2>3. blockIndexChan = <<>> /\ ~IndexClosed
    BY <1>2, <2>2, IndexWorkerGoesOn
  <2> QED BY <1>4, <2>3 DEF IndexClosed
<1> QED BY <1>3, <1>4

(* The invariant of the store holds throughout.                            *)
LEMMA HealthAlways == Spec => []Healthy
<1>1. Init => Tallies
  BY DEF Init, Tallies
<1>2. IInv => Types /\ Apart /\ Deletions
  BY DEF IInv
<1> QED
  BY <1>1, <1>2, Invariance, CountedInit, CountedStep, FlagsInit, FlagsStep,
     LimitsInit, LimitsStep, TalliesStep, HeldInit, HeldStep, PTL DEF Spec, Healthy

(* As long as a call is out, some goroutine has a step to take, for any    *)
(* number of workers, any capacities of the channels, and with all workers *)
(* but one, or the content index worker, without a client (the selects of  *)
(* remoteWorker and contentIndexWorker in remotestore.go).                 *)
THEOREM NoDeadlock == Spec => []SomebodyGoesOn
<1>1. ASSUME Healthy PROVE SomebodyGoesOn
  <2> SUFFICES ASSUME ~AllReturned, \A w \in Worker : ~WorkerGoesOn(w),
                      ~IndexGoesOn, ~FlushGoesOn, ~CloseGoesOn
               PROVE  FALSE
    BY DEF SomebodyGoesOn
  <2>1. close \in {"open", "workers", "index", "closed"}
    BY <1>1 DEF Healthy, Limits
  <2>2. close # "closed"
    BY <1>1 DEF Healthy, CallsAreHeld, AllReturned
  <2> QED BY <1>1, <2>1, <2>2, OpenGoesOn, ClosingGoesOn
<1> QED BY <1>1, HealthAlways, PTL

-------------------------------------------------------------------------------
(* Every step of a goroutine leaves less to do                             *)

(* When one worker changes its phase, the others stay where they are.      *)
LEMMA WorkersAfter ==
    ASSUME Types, NEW w \in Worker, NEW phase, wpc' = [wpc EXCEPT ![w] = phase],
           NEW phases
    PROVE  /\ WorkersIn(phases) \in Nat /\ WorkersIn(phases)' \in Nat
           /\ WorkersIn(phases)' = WorkersIn(phases)
                + (IF phase \in phases THEN 1 ELSE 0)
                - (IF wpc[w] \in phases THEN 1 ELSE 0)
<1> DEFINE rest == {v \in Worker \ {w} : wpc[v] \in phases}
           before == {v \in Worker : wpc[v] \in phases}
           after == {v \in Worker : wpc'[v] \in phases}
<1>1. IsFiniteSet(rest) /\ w \notin rest
  BY RemoteStoreAssumption, FS_Subset
<1>2. Cardinality(rest) \in Nat /\ Cardinality(rest \cup {w}) = Cardinality(rest) + 1
  BY <1>1, FS_CardinalityType, FS_AddElement
<1>3. before = IF wpc[w] \in phases THEN rest \cup {w} ELSE rest
  OBVIOUS
<1>4. wpc'[w] = phase /\ \A v \in Worker \ {w} : wpc'[v] = wpc[v]
  BY DEF Types
<1>5. after = IF phase \in phases THEN rest \cup {w} ELSE rest
  BY <1>4
<1>6. WorkersIn(phases) = Cardinality(before) /\ WorkersIn(phases)' = Cardinality(after)
  BY DEF WorkersIn
<1> HIDE DEF rest, before, after
<1> QED BY <1>2, <1>3, <1>5, <1>6

(* What a phase of a worker weighs.                                        *)
Weight(phase) ==
    CASE phase = "gone" -> 0 [] phase \in {"wait", "last"} -> 1 [] phase = "top" -> 2
      [] phase = "announce" -> 5 [] phase = "write" -> 6

LEMMA WorkersLeftAfter ==
    ASSUME Types, NEW w \in Worker,
           NEW phase \in {"top", "wait", "last", "write", "announce", "gone"},
           wpc' = [wpc EXCEPT ![w] = phase]
    PROVE  /\ WorkersLeft \in Nat /\ WorkersLeft' \in Nat
           /\ WorkersLeft' = WorkersLeft + Weight(phase) - Weight(wpc[w])
<1> DEFINE A == {"top", "wait", "last", "write", "announce"}
           B == {"top", "write", "announce"}
           C == {"write", "announce"}
           D == {"write"}
           In(S, x) == IF x \in S THEN 1 ELSE 0
<1>1. \A S : /\ WorkersIn(S) \in Nat /\ WorkersIn(S)' \in Nat
             /\ WorkersIn(S)' = WorkersIn(S) + In(S, phase) - In(S, wpc[w])
  BY WorkersAfter
<1>2. ASSUME NEW x \in {"top", "wait", "last", "write", "announce", "gone"}
      PROVE  /\ Weight(x) = In(A, x) + In(B, x) + 3 * In(C, x) + In(D, x)
             /\ In(A, x) \in Nat /\ In(B, x) \in Nat /\ In(C, x) \in Nat /\ In(D, x) \in Nat
  BY <1>2 DEF Weight
<1>3. wpc[w] \in {"top", "wait", "last", "write", "announce", "gone"}
  BY DEF Types
<1>4. /\ WorkersLeft = WorkersIn(A) + WorkersIn(B) + 3 * WorkersIn(C) + WorkersIn(D)
      /\ WorkersLeft' = WorkersIn(A)' + WorkersIn(B)' + 3 * WorkersIn(C)' + WorkersIn(D)'
  BY DEF WorkersLeft
<1> HIDE DEF A, B, C, D, In
<1>5. /\ WorkersIn(A)' = WorkersIn(A) + In(A, phase) - In(A, wpc[w])
      /\ WorkersIn(B)' = WorkersIn(B) + In(B, phase) - In(B, wpc[w])
      /\ WorkersIn(C)' = WorkersIn(C) + In(C, phase) - In(C, wpc[w])
      /\ WorkersIn(D)' = WorkersIn(D) + In(D, phase) - In(D, wpc[w])
      /\ WorkersIn(A) \in Nat /\ WorkersIn(B) \in Nat
      /\ WorkersIn(C) \in Nat /\ WorkersIn(D) \in Nat
      /\ WorkersIn(A)' \in Nat /\ WorkersIn(B)' \in Nat
      /\ WorkersIn(C)' \in Nat /\ WorkersIn(D)' \in Nat
  BY <1>1
<1>6. /\ Weight(phase) = In(A, phase) + In(B, phase) + 3 * In(C, phase) + In(D, phase)
      /\ Weight(wpc[w]) = In(A, wpc[w]) + In(B, wpc[w]) + 3 * In(C, wpc[w]) + In(D, wpc[w])
      /\ In(A, phase) \in Nat /\ In(B, phase) \in Nat /\ In(C, phase) \in Nat
      /\ In(D, phase) \in Nat
      /\ In(A, wpc[w]) \in Nat /\ In(B, wpc[w]) \in Nat /\ In(C, wpc[w]) \in Nat
      /\ In(D, wpc[w]) \in Nat
  BY <1>2, <1>3
<1> QED BY <1>4, <1>5, <1>6

(* All that is counted is counted in natural numbers.                      *)
LeftAreNumbers ==
    /\ Len(putChan) \in Nat /\ Len(blockIndexChan) \in Nat /\ Len(deleteChan) \in Nat
    /\ queries \in Nat /\ tokens \in Nat
    /\ MessagesLeft \in Nat /\ PruneLeft \in Nat /\ IndexLeft \in Nat
    /\ FlushLeft \in Nat /\ CloseLeft \in Nat /\ WorkersLeft \in Nat

LEMMA LeftTypes == Healthy => LeftAreNumbers
<1> SUFFICES ASSUME Healthy PROVE LeftAreNumbers
  OBVIOUS
<1>1. /\ Len(putChan) \in Nat /\ Len(blockIndexChan) \in Nat /\ Len(deleteChan) \in Nat
      /\ queries \in Nat /\ tokens \in Nat /\ Cardinality(Worker) \in Nat
  BY WorkersCounted DEF Healthy, Types, Limits, Tallies
<1>2. MessagesLeft \in Nat
  BY <1>1 DEF MessagesLeft
<1>3. PruneLeft \in Nat
  <2>1. IsFiniteSet(Block) /\ IsFiniteSet(doomed)
    BY BlocksAreFinite, FS_Subset DEF Healthy, Types
  <2>2. Cardinality(Block) \in Nat /\ Cardinality(doomed) \in Nat
    BY <2>1, FS_CardinalityType
  <2> QED BY <2>2 DEF PruneLeft
<1>4. IndexLeft \in Nat
  BY DEF IndexLeft
<1>5. FlushLeft \in Nat /\ CloseLeft \in Nat
  BY <1>1 DEF FlushLeft, CloseLeft, Healthy, Limits
<1>6. WorkersLeft \in Nat
  <2>1. \A phases : WorkersIn(phases) \in Nat
    <3>1. ASSUME NEW phases PROVE WorkersIn(phases) \in Nat
      <4>1. IsFiniteSet({w \in Worker : wpc[w] \in phases})
        BY RemoteStoreAssumption, FS_Subset
      <4> QED BY <4>1, FS_CardinalityType DEF WorkersIn
    <3> QED BY <3>1
  <2> QED BY <2>1 DEF WorkersLeft
<1> QED BY <1>1, <1>2, <1>3, <1>4, <1>5, <1>6 DEF LeftAreNumbers

(* What was y + n is less, if n went down by d and y up by less than that. *)
LEMMA Outweighed ==
    \A m, n, y, z, x, v, d \in Nat :
        n = m + d /\ z + v = y + x /\ x < v + d => z + m < y + n
OBVIOUS

(* Each step of a worker brings it nearer to its wait or its end, or takes *)
(* a message that outweighs what it sends.                                 *)
LEMMA WorkersFinish ==
    ASSUME Healthy, Healthy', NEW w \in Worker, Work(w)
    PROVE  WorkersLeft' + MessagesLeft' < WorkersLeft + MessagesLeft
<1>t. Types /\ Types'
  BY DEF Healthy
<1>n. /\ Len(putChan) \in Nat /\ Len(blockIndexChan) \in Nat /\ Len(deleteChan) \in Nat
      /\ queries \in Nat /\ tokens \in Nat
      /\ MessagesLeft \in Nat /\ WorkersLeft \in Nat
      /\ MessagesLeft' \in Nat /\ WorkersLeft' \in Nat
  <2>1. LeftAreNumbers /\ LeftAreNumbers'
    BY LeftTypes, PTL
  <2> QED BY <2>1 DEF LeftAreNumbers
<1>u. UNCHANGED <<queries, indexToken>>
  BY DEF Work, Poll, TakePut, StoreBlock, Announce, DeleteBlock, TakeToken, Leave
<1>k. /\ Len(putChan') \in Nat /\ Len(blockIndexChan') \in Nat /\ Len(deleteChan') \in Nat
      /\ tokens' \in Nat
  <2>1. LeftAreNumbers'
    BY LeftTypes, PTL
  <2> QED BY <2>1 DEF LeftAreNumbers
<1>m. PICK rest \in Nat :
        /\ MessagesLeft = 6 * Len(putChan) + 2 * Len(blockIndexChan)
               + 2 * Len(deleteChan) + 2 * tokens + rest
        /\ MessagesLeft' = 6 * Len(putChan') + 2 * Len(blockIndexChan')
               + 2 * Len(deleteChan') + 2 * tokens' + rest
  <2> DEFINE flag == IF indexToken THEN 2 ELSE 0
             rest == 2 * queries + flag
  <2>1. flag \in Nat
    OBVIOUS
  <2>2. /\ MessagesLeft = 6 * Len(putChan) + 2 * Len(blockIndexChan)
               + 2 * Len(deleteChan) + 2 * queries + 2 * tokens + flag
        /\ MessagesLeft' = 6 * Len(putChan') + 2 * Len(blockIndexChan')
               + 2 * Len(deleteChan') + 2 * queries + 2 * tokens' + flag
    BY <1>u DEF MessagesLeft
  <2> HIDE DEF flag
  <2>3. rest \in Nat
    BY <2>1, <1>n
  <2>4. /\ MessagesLeft = 6 * Len(putChan) + 2 * Len(blockIndexChan)
               + 2 * Len(deleteChan) + 2 * tokens + rest
        /\ MessagesLeft' = 6 * Len(putChan') + 2 * Len(blockIndexChan')
               + 2 * Len(deleteChan') + 2 * tokens' + rest
    BY <2>1, <2>2, <1>n, <1>k, SMTT(30)
  <2> HIDE DEF rest
  <2> QED BY <2>3, <2>4
<1>w. ASSUME NEW phase \in {"top", "wait", "last", "write", "announce", "gone"}, Goto(w, phase)
      PROVE  /\ WorkersLeft' = WorkersLeft + Weight(phase) - Weight(wpc[w])
             /\ WorkersLeft' + Weight(wpc[w]) = WorkersLeft + Weight(phase)
  <2>1. WorkersLeft' = WorkersLeft + Weight(phase) - Weight(wpc[w])
    BY <1>w, <1>t, WorkersLeftAfter DEF Goto
  <2>2. wpc[w] \in {"top", "wait", "last", "write", "announce", "gone"}
    BY <1>t DEF Types
  <2>3. Weight(phase) \in Nat /\ Weight(wpc[w]) \in Nat
    BY <1>w, <2>2 DEF Weight
  <2> QED BY <2>1, <2>3, <1>n
<1>1. CASE Poll(w)
  <2>1. PICK phase \in {"wait", "last"} : Goto(w, phase)
    BY <1>1 DEF Poll
  <2>2. wpc[w] = "top" /\ UNCHANGED <<putChan, blockIndexChan, deleteChan, tokens>>
    BY <1>1 DEF Poll
  <2>3. MessagesLeft' = MessagesLeft
    BY <2>2, <1>m, <1>n, <1>k
  <2>4. WorkersLeft' = WorkersLeft - 1
    BY <2>1, <2>2, <1>w, <1>n DEF Weight
  <2> QED BY <2>3, <2>4, <1>n
<1>2. CASE TakePut(w)
  <2>1. PICK phase \in {"top", "write"} : Goto(w, phase)
    BY <1>2 DEF TakePut
  <2>2. /\ wpc[w] \in {"top", "wait"} /\ putChan # <<>> /\ putChan' = Tail(putChan)
        /\ UNCHANGED <<blockIndexChan, deleteChan, tokens>>
    BY <1>2 DEF TakePut, Ready
  <2>3. Len(putChan') = Len(putChan) - 1
    BY <2>2, <1>t, Received DEF Types
  <2>4. MessagesLeft = MessagesLeft' + 6
    BY <2>2, <2>3, <1>m, <1>n, <1>k
  <2>5. /\ Weight(phase) \in Nat /\ Weight(wpc[w]) \in Nat
        /\ Weight(phase) < Weight(wpc[w]) + 6
    BY <2>1, <2>2 DEF Weight
  <2>6. WorkersLeft' + Weight(wpc[w]) = WorkersLeft + Weight(phase)
    BY <2>1, <1>w
  <2>7. PICK x \in Nat, v \in Nat, d \in Nat :
             /\ MessagesLeft = MessagesLeft' + d
             /\ WorkersLeft' + v = WorkersLeft + x /\ x < v + d
    BY <2>4, <2>5, <2>6
  <2> QED BY <2>7, <1>n, Outweighed
<1>3. CASE StoreBlock(w)
  <2>1. PICK phase \in {"top", "announce"} : Goto(w, phase)
    BY <1>3 DEF StoreBlock
  <2>2. wpc[w] = "write" /\ UNCHANGED <<putChan, blockIndexChan, deleteChan, tokens>>
    BY <1>3 DEF StoreBlock
  <2>3. MessagesLeft = MessagesLeft' + 0
    BY <2>2, <1>m, <1>n, <1>k
  <2>4. /\ Weight(phase) \in Nat /\ Weight(wpc[w]) \in Nat
        /\ Weight(phase) < Weight(wpc[w]) + 0
    BY <2>1, <2>2 DEF Weight
  <2>5. WorkersLeft' + Weight(wpc[w]) = WorkersLeft + Weight(phase)
    BY <2>1, <1>w
  <2>6. PICK x \in Nat, v \in Nat, d \in Nat :
             /\ MessagesLeft = MessagesLeft' + d
             /\ WorkersLeft' + v = WorkersLeft + x /\ x < v + d
    BY <2>3, <2>4, <2>5
  <2> QED BY <2>6, <1>n, Outweighed
<1>4. CASE Announce(w)
  <2>1. /\ wpc[w] = "announce" /\ Goto(w, "top") /\ wblock[w] \in Block
        /\ blockIndexChan' = Append(blockIndexChan, wblock[w])
        /\ UNCHANGED <<putChan, deleteChan, tokens>>
    BY <1>4, <1>t DEF Announce, Types
  <2>2. Len(blockIndexChan') = Len(blockIndexChan) + 1
    BY <2>1, <1>t, Sent DEF Types
  <2>3. MessagesLeft' = MessagesLeft + 2
    BY <2>1, <2>2, <1>m, <1>n, <1>k
  <2>4. WorkersLeft' = WorkersLeft - 3
    BY <2>1, <1>w, <1>n DEF Weight
  <2> QED BY <2>3, <2>4, <1>n
<1>5. CASE DeleteBlock(w)
  <2>1. /\ wpc[w] \in {"top", "wait"} /\ Goto(w, "top")
        /\ deleteChan # <<>> /\ deleteChan' = Tail(deleteChan)
        /\ UNCHANGED <<putChan, blockIndexChan, tokens>>
    BY <1>5 DEF DeleteBlock, Ready
  <2>2. Len(deleteChan') = Len(deleteChan) - 1
    BY <2>1, <1>t, Received DEF Types
  <2>3. MessagesLeft = MessagesLeft' + 2
    BY <2>1, <2>2, <1>m, <1>n, <1>k
  <2>4. /\ Weight("top") \in Nat /\ Weight(wpc[w]) \in Nat
        /\ Weight("top") < Weight(wpc[w]) + 2
    BY <2>1 DEF Weight
  <2>5. WorkersLeft' + Weight(wpc[w]) = WorkersLeft + Weight("top")
    BY <2>1, <1>w
  <2>6. PICK d \in Nat : /\ MessagesLeft = MessagesLeft' + d
                         /\ Weight("top") < Weight(wpc[w]) + d
    BY <2>3, <2>4
  <2> QED BY <2>4, <2>5, <2>6, <1>n, Outweighed
<1>6. CASE TakeToken(w)
  <2>1. PICK phase \in {"top", "gone"} : Goto(w, phase)
    BY <1>6 DEF TakeToken, End
  <2>2. /\ wpc[w] \in {"wait", "last"} /\ tokens' = tokens - 1
        /\ UNCHANGED <<putChan, blockIndexChan, deleteChan>>
    BY <1>6 DEF TakeToken
  <2>3. MessagesLeft = MessagesLeft' + 2
    BY <2>2, <1>m, <1>n, <1>k
  <2>4. /\ Weight(phase) \in Nat /\ Weight(wpc[w]) \in Nat
        /\ Weight(phase) < Weight(wpc[w]) + 2
    BY <2>1, <2>2 DEF Weight
  <2>5. WorkersLeft' + Weight(wpc[w]) = WorkersLeft + Weight(phase)
    BY <2>1, <1>w
  <2>6. PICK x \in Nat, v \in Nat, d \in Nat :
             /\ MessagesLeft = MessagesLeft' + d
             /\ WorkersLeft' + v = WorkersLeft + x /\ x < v + d
    BY <2>3, <2>4, <2>5
  <2> QED BY <2>6, <1>n, Outweighed
<1>7. CASE Leave(w)
  <2>1. /\ wpc[w] \in {"wait", "last"} /\ Goto(w, "gone")
        /\ UNCHANGED <<putChan, blockIndexChan, deleteChan, tokens>>
    BY <1>7 DEF Leave, End
  <2>2. MessagesLeft' = MessagesLeft
    BY <2>1, <1>m, <1>n, <1>k
  <2>3. Weight("gone") = 0 /\ Weight(wpc[w]) = 1
    BY <2>1 DEF Weight
  <2>4. WorkersLeft' = WorkersLeft + Weight("gone") - Weight(wpc[w])
    BY <2>1, <1>w
  <2> QED BY <2>2, <2>3, <2>4, <1>n
<1> QED BY <1>1, <1>2, <1>3, <1>4, <1>5, <1>6, <1>7 DEF Work

(* Each step of the content index worker takes a message, or a deletion    *)
(* off its list, or goes on towards its wait, its end or a cached index.   *)
LEMMA IndexWorkFinishes ==
    ASSUME Healthy, Healthy', IndexWork
    PROVE  MessagesLeft' + PruneLeft' + IndexLeft' < MessagesLeft + PruneLeft + IndexLeft
<1>t. Types /\ Types' /\ Deletions
  BY DEF Healthy
<1>n. LeftAreNumbers /\ LeftAreNumbers'
  BY LeftTypes, PTL
<1>u. UNCHANGED <<putChan, tokens>>
  BY DEF IndexWork, PollIndex, TakeBlockIndex, ReadStoreIndex, AnswerQuery, FailPrune,
         Prune, SendDelete, PruneReturns, FlushIndex, LeaveIndex, Broken, IndexOnly
<1>s. SUFFICES ASSUME NEW m \in Nat, NEW p \in Nat, NEW i \in Nat,
                      NEW n \in Nat, NEW q \in Nat, NEW j \in Nat,
                      m = MessagesLeft, p = PruneLeft, i = IndexLeft,
                      n = MessagesLeft', q = PruneLeft', j = IndexLeft'
               PROVE  n + q + j < m + p + i
  BY <1>n DEF LeftAreNumbers
(* The messages.                                                           *)
<1>a. PICK a \in Nat, b \in Nat, c \in Nat, d \in Nat :
        /\ a = Len(blockIndexChan) /\ b = Len(deleteChan) /\ c = queries
        /\ d = (IF indexToken THEN 2 ELSE 0)
  BY <1>n DEF LeftAreNumbers
<1>b. PICK aa \in Nat, bb \in Nat, cc \in Nat, dd \in Nat :
        /\ aa = Len(blockIndexChan') /\ bb = Len(deleteChan') /\ cc = queries'
        /\ dd = (IF indexToken' THEN 2 ELSE 0)
  BY <1>n DEF LeftAreNumbers
<1>m. PICK rest \in Nat : /\ m = rest + 2 * a + 2 * b + 2 * c + d
                         /\ n = rest + 2 * aa + 2 * bb + 2 * cc + dd
  <2>1. PICK x \in Nat, y \in Nat : x = Len(putChan) /\ y = tokens
    BY <1>n DEF LeftAreNumbers
  <2>2. PICK rest \in Nat : rest = 6 * x + 2 * y
    OBVIOUS
  <2>3. /\ m = 6 * x + 2 * a + 2 * b + 2 * c + 2 * y + d
        /\ n = 6 * x + 2 * aa + 2 * bb + 2 * cc + 2 * y + dd
    BY <1>s, <1>u, <1>a, <1>b, <2>1 DEF MessagesLeft
  <2>4. /\ m = rest + 2 * a + 2 * b + 2 * c + d
        /\ n = rest + 2 * aa + 2 * bb + 2 * cc + dd
    BY <2>2, <2>3
  <2> QED BY <2>4
(* The prune.                                                              *)
<1>f. IsFiniteSet(doomed)
  BY <1>t, BlocksAreFinite, FS_Subset DEF Types
<1>p. PICK blocks \in Nat, left \in Nat, after \in Nat :
        /\ blocks = Cardinality(Block)
        /\ left = Cardinality(doomed) /\ after = Cardinality(doomed')
        /\ after <= blocks
        /\ p = (IF prune = "out" THEN IF ipc = "deletes" THEN 3 * left + 3 ELSE 3 * blocks + 4
                                 ELSE 0)
        /\ q = (IF prune' = "out" THEN IF ipc' = "deletes" THEN 3 * after + 3
                                                         ELSE 3 * blocks + 4
                                  ELSE 0)
  <2>1. IsFiniteSet(Block) /\ IsFiniteSet(doomed')
    BY <1>t, BlocksAreFinite, FS_Subset DEF Types
  <2>2. /\ Cardinality(Block) \in Nat /\ Cardinality(doomed) \in Nat
        /\ Cardinality(doomed') \in Nat /\ Cardinality(doomed') <= Cardinality(Block)
    BY <1>t, <1>f, <2>1, FS_CardinalityType, FS_Subset DEF Types
  <2>3. PICK blocks \in Nat, left \in Nat, after \in Nat :
          /\ blocks = Cardinality(Block)
          /\ left = Cardinality(doomed) /\ after = Cardinality(doomed')
          /\ after <= blocks
    BY <2>2
  <2>4. p = (IF prune = "out" THEN IF ipc = "deletes" THEN 3 * left + 3 ELSE 3 * blocks + 4
                              ELSE 0)
    BY <1>s, <2>3 DEF PruneLeft
  <2>5. q = (IF prune' = "out" THEN IF ipc' = "deletes" THEN 3 * after + 3
                                                      ELSE 3 * blocks + 4
                               ELSE 0)
    BY <1>s, <2>3 DEF PruneLeft
  <2> QED BY <2>3, <2>4, <2>5
(* The content index worker.                                               *)
<1>i. PICK x \in Nat, y \in Nat, xx \in Nat, yy \in Nat :
        /\ x = (IF ipc = "top" THEN 2 ELSE IF ipc = "gone" THEN 0 ELSE 1)
        /\ y = (IF cached THEN 0 ELSE 1)
        /\ xx = (IF ipc' = "top" THEN 2 ELSE IF ipc' = "gone" THEN 0 ELSE 1)
        /\ yy = (IF cached' THEN 0 ELSE 1)
        /\ i = x + y /\ j = xx + yy
  <2>1. PICK x \in Nat, y \in Nat, xx \in Nat, yy \in Nat :
          /\ x = (IF ipc = "top" THEN 2 ELSE IF ipc = "gone" THEN 0 ELSE 1)
          /\ y = (IF cached THEN 0 ELSE 1)
          /\ xx = (IF ipc' = "top" THEN 2 ELSE IF ipc' = "gone" THEN 0 ELSE 1)
          /\ yy = (IF cached' THEN 0 ELSE 1)
    OBVIOUS
  <2>2. i = x + y /\ j = xx + yy
    BY <1>s, <2>1 DEF IndexLeft
  <2> QED BY <2>1, <2>2
<1>1. CASE PollIndex
  <2>1. ipc = "top" /\ ipc' \in {"last", "wait"}
    BY <1>1 DEF PollIndex
  <2>2. UNCHANGED <<prune, cached, blockIndexChan, deleteChan, queries, indexToken>>
    BY <1>1 DEF PollIndex, pruneVars, cacheVars, queryVars
  <2>3. n = m
    BY <2>2, <1>a, <1>b, <1>m
  <2>4. q = p
    BY <2>1, <2>2, <1>p
  <2>5. i = j + 1
    BY <2>1, <2>2, <1>i
  <2> QED BY <2>3, <2>4, <2>5
<1>2. CASE TakeBlockIndex
  <2>1. ipc \in {"top", "wait"} /\ ipc' = "top"
    BY <1>2 DEF TakeBlockIndex, Turn
  <2>2. UNCHANGED <<prune, cached, deleteChan, queries, indexToken>>
    BY <1>2 DEF TakeBlockIndex, pruneVars, cacheVars, queryVars
  <2>3. Len(blockIndexChan') = Len(blockIndexChan) - 1
    BY <1>2, <1>t, Received DEF TakeBlockIndex, Types
  <2>4. m = n + 2
    BY <2>2, <2>3, <1>a, <1>b, <1>m
  <2>5. q = p
    BY <2>1, <2>2, <1>p
  <2>6. j <= i + 1
    BY <2>1, <2>2, <1>i
  <2> QED BY <2>4, <2>5, <2>6
<1>3. CASE ReadStoreIndex
  <2>1. ipc \in {"top", "wait"} /\ ipc' = "serve" /\ ~cached /\ cached'
    BY <1>3 DEF ReadStoreIndex, Turn
  <2>2. UNCHANGED <<prune, queries, blockIndexChan, deleteChan, indexToken>>
    BY <1>3 DEF ReadStoreIndex, IndexSteps
  <2>3. n = m
    BY <2>2, <1>a, <1>b, <1>m
  <2>4. q = p
    BY <2>1, <2>2, <1>p
  <2>5. j < i
    BY <2>1, <1>i
  <2> QED BY <2>3, <2>4, <2>5
<1>4. CASE AnswerQuery
  <2>1. ipc \in {"top", "wait", "serve"} /\ ipc' = "top" /\ queries' = queries - 1
    BY <1>4 DEF AnswerQuery, Serving, Turn
  <2>2. UNCHANGED <<prune, cached, blockIndexChan, deleteChan, indexToken>>
    BY <1>4 DEF AnswerQuery, IndexSteps, cacheVars
  <2>3. m = n + 2
    BY <2>1, <2>2, <1>a, <1>b, <1>m
  <2>4. q = p
    BY <2>1, <2>2, <1>p
  <2>5. j <= i + 1
    BY <2>1, <2>2, <1>i
  <2> QED BY <2>3, <2>4, <2>5
<1>5. CASE FailPrune
  <2>1. /\ ipc \in {"top", "wait", "serve"} /\ ipc' = "top"
        /\ prune = "out" /\ prune' = "failed"
    BY <1>5 DEF FailPrune, Serving, Turn
  <2>2. UNCHANGED <<queries, cached, blockIndexChan, deleteChan, indexToken>>
    BY <1>5 DEF FailPrune, IndexSteps, cacheVars
  <2>3. n = m
    BY <2>2, <1>a, <1>b, <1>m
  <2>4. p >= 4 /\ q = 0
    BY <2>1, <1>p
  <2>5. j <= i + 1
    BY <2>1, <2>2, <1>i
  <2> QED BY <2>3, <2>4, <2>5
<1>6. CASE Prune
  <2>1. ipc \in {"top", "wait", "serve"} /\ ipc' = "deletes" /\ prune = "out"
    BY <1>6 DEF Prune, Serving, Turn
  <2>2. UNCHANGED <<prune, queries, cached, blockIndexChan, deleteChan, indexToken>>
    BY <1>6 DEF Prune, IndexSteps, cacheVars
  <2>3. n = m
    BY <2>2, <1>a, <1>b, <1>m
  <2>4. q < p
    BY <2>1, <2>2, <1>p
  <2>5. j <= i
    BY <2>1, <2>2, <1>i
  <2> QED BY <2>3, <2>4, <2>5
<1>7. CASE SendDelete
  <2>1. PICK sent \in doomed :
           doomed' = doomed \ {sent} /\ deleteChan' = Append(deleteChan, sent)
    BY <1>7 DEF SendDelete
  <2>2. ipc = "deletes" /\ prune = "out"
    BY <1>7, <1>t DEF SendDelete, Deletions
  <2>3. UNCHANGED <<ipc, prune, queries, cached, blockIndexChan, indexToken>>
    BY <1>7 DEF SendDelete, pruneVars, queryVars, cacheVars
  <2>4. Cardinality(doomed') = Cardinality(doomed) - 1
    BY <2>1, <1>f, FS_RemoveElement
  <2>5. Len(deleteChan') = Len(deleteChan) + 1
    BY <2>1, <1>t, Sent DEF Types
  <2>6. n = m + 2
    BY <2>3, <2>5, <1>a, <1>b, <1>m
  <2>7. p = q + 3
    BY <2>2, <2>3, <2>4, <1>p
  <2>8. j = i
    BY <2>3, <1>i
  <2> QED BY <2>6, <2>7, <2>8
<1>8. CASE PruneReturns
  <2>1. ipc = "deletes" /\ ipc' = "top" /\ prune = "out" /\ prune' = "ok"
    BY <1>8, <1>t DEF PruneReturns, Deletions
  <2>2. UNCHANGED <<queries, cached, blockIndexChan, deleteChan, indexToken>>
    BY <1>8 DEF PruneReturns, IndexSteps
  <2>3. n = m
    BY <2>2, <1>a, <1>b, <1>m
  <2>4. p >= 3 /\ q = 0
    BY <2>1, <1>p
  <2>5. j <= i + 1
    BY <2>1, <2>2, <1>i
  <2> QED BY <2>3, <2>4, <2>5
<1>9. CASE FlushIndex
  <2>1. ipc \in {"wait", "last"} /\ ipc' \in {"end", "top"} /\ indexToken /\ ~indexToken'
    BY <1>9 DEF FlushIndex
  <2>2. UNCHANGED <<prune, queries, blockIndexChan, deleteChan>>
    BY <1>9 DEF FlushIndex, pruneVars, queryVars
  <2>3. cached' = cached \/ cached' = TRUE
    BY <1>9 DEF FlushIndex, AddBlocks, cacheVars
  <2>4. m = n + 2
    BY <2>1, <2>2, <1>a, <1>b, <1>m
  <2>5. q = p
    BY <2>1, <2>2, <1>p
  <2>6. j <= i + 1
    BY <2>1, <2>3, <1>i
  <2> QED BY <2>4, <2>5, <2>6
<1>10. CASE LeaveIndex
  <2>1. ipc \in {"wait", "last", "end"} /\ ipc' = "gone"
    BY <1>10 DEF LeaveIndex
  <2>2. UNCHANGED <<prune, queries, cached, blockIndexChan, deleteChan, indexToken>>
    BY <1>10 DEF LeaveIndex, pruneVars, queryVars, cacheVars
  <2>3. n = m
    BY <2>2, <1>a, <1>b, <1>m
  <2>4. q = p
    BY <2>1, <2>2, <1>p
  <2>5. i = j + 1
    BY <2>1, <2>2, <1>i
  <2> QED BY <2>3, <2>4, <2>5
<1>11. CASE Broken
  <2>1. ipc = "broken" /\ ipc' \in {"broken", "gone"} /\ UNCHANGED <<cached, deleteChan>>
    BY <1>11 DEF Broken, cacheVars
  <2>2. CASE indexToken /\ indexToken' = FALSE
               /\ UNCHANGED <<blockIndexChan, queries, prune, ipc>>
    <3>1. m = n + 2
      BY <2>1, <2>2, <1>a, <1>b, <1>m
    <3>2. q = p /\ j = i
      BY <2>1, <2>2, <1>p, <1>i
    <3> QED BY <3>1, <3>2
  <2>3. CASE blockIndexChan # <<>> /\ blockIndexChan' = Tail(blockIndexChan)
               /\ UNCHANGED <<indexToken, queries, prune, ipc>>
    <3>1. Len(blockIndexChan') = Len(blockIndexChan) - 1
      BY <2>3, <1>t, Received DEF Types
    <3>2. m = n + 2
      BY <2>1, <2>3, <3>1, <1>a, <1>b, <1>m
    <3>3. q = p /\ j = i
      BY <2>1, <2>3, <1>p, <1>i
    <3> QED BY <3>2, <3>3
  <2>4. CASE queries > 0 /\ queries' = queries - 1
               /\ UNCHANGED <<indexToken, blockIndexChan, prune, ipc>>
    <3>1. m = n + 2
      BY <2>1, <2>4, <1>a, <1>b, <1>m
    <3>2. q = p /\ j = i
      BY <2>1, <2>4, <1>p, <1>i
    <3> QED BY <3>1, <3>2
  <2>5. CASE prune = "out" /\ prune' = "failed"
               /\ UNCHANGED <<indexToken, blockIndexChan, queries, ipc>>
    <3>1. n = m
      BY <2>1, <2>5, <1>a, <1>b, <1>m
    <3>2. p >= 4 /\ q = 0 /\ j = i
      BY <2>1, <2>5, <1>p, <1>i
    <3> QED BY <3>1, <3>2
  <2>6. CASE ipc' = "gone" /\ UNCHANGED <<indexToken, blockIndexChan, queries, prune>>
    <3>1. n = m
      BY <2>1, <2>6, <1>a, <1>b, <1>m
    <3>2. q = p /\ i = j + 1
      BY <2>1, <2>6, <1>p, <1>i
    <3> QED BY <3>1, <3>2
  <2> QED BY <1>11, <2>2, <2>3, <2>4, <2>5, <2>6 DEF Broken
<1> QED BY <1>1, <1>2, <1>3, <1>4, <1>5, <1>6, <1>7, <1>8, <1>9, <1>10, <1>11 DEF IndexWork

(* Each step of a flush leaves the flush less than what it sends.          *)
LEMMA FlushFinishes ==
    ASSUME Healthy, Healthy', FlushWork
    PROVE  MessagesLeft' + FlushLeft' < MessagesLeft + FlushLeft
<1>n. LeftAreNumbers /\ LeftAreNumbers'
  BY LeftTypes, PTL
<1>u. UNCHANGED <<putChan, blockIndexChan, deleteChan, queries>>
  BY DEF FlushWork, SendTokens, SendIndexToken, FlushReturns, FlushOnly, queryVars
<1>s. SUFFICES ASSUME NEW m \in Nat, NEW p \in Nat, NEW n \in Nat, NEW q \in Nat,
                      m = MessagesLeft, p = FlushLeft, n = MessagesLeft', q = FlushLeft'
               PROVE  n + q < m + p
  BY <1>n DEF LeftAreNumbers
<1>w. PICK workers \in Nat : workers = Cardinality(Worker)
  BY WorkersCounted
<1>a. PICK a \in Nat, b \in Nat, aa \in Nat, bb \in Nat :
        /\ a = tokens /\ b = (IF indexToken THEN 2 ELSE 0)
        /\ aa = tokens' /\ bb = (IF indexToken' THEN 2 ELSE 0)
  BY <1>n DEF LeftAreNumbers
<1>m. PICK rest \in Nat : m = rest + 2 * a + b /\ n = rest + 2 * aa + bb
  <2>1. PICK x \in Nat, y \in Nat, z \in Nat, v \in Nat :
          /\ x = Len(putChan) /\ y = Len(blockIndexChan)
          /\ z = Len(deleteChan) /\ v = queries
    BY <1>n DEF LeftAreNumbers
  <2>2. PICK rest \in Nat : rest = 6 * x + 2 * y + 2 * z + 2 * v
    OBVIOUS
  <2>3. /\ m = 6 * x + 2 * y + 2 * z + 2 * v + 2 * a + b
        /\ n = 6 * x + 2 * y + 2 * z + 2 * v + 2 * aa + bb
    BY <1>s, <1>u, <1>a, <2>1 DEF MessagesLeft
  <2>4. m = rest + 2 * a + b /\ n = rest + 2 * aa + bb
    BY <2>2, <2>3
  <2> QED BY <2>4
<1>1. CASE SendTokens
  <2>1. /\ flush = "tokens" /\ flush' = "replies" /\ tokens' = tokens + workers
        /\ UNCHANGED indexToken
    BY <1>1, <1>w DEF SendTokens
  <2>2. n = m + 2 * workers
    BY <2>1, <1>a, <1>m
  <2>3. p = 2 * workers + 5 /\ q = 4
    BY <2>1, <1>s, <1>w DEF FlushLeft
  <2> QED BY <2>2, <2>3
<1>2. CASE SendIndexToken
  <2>1. flush = "replies" /\ flush' = "reply" /\ UNCHANGED tokens
    BY <1>2 DEF SendIndexToken
  <2>2. n <= m + 2
    BY <2>1, <1>a, <1>m
  <2>3. p = 4 /\ q = 1
    BY <2>1, <1>s DEF FlushLeft
  <2> QED BY <2>2, <2>3
<1>3. CASE FlushReturns
  <2>1. flush = "reply" /\ flush' = "none" /\ UNCHANGED <<tokens, indexToken>>
    BY <1>3 DEF FlushReturns
  <2>2. n = m
    BY <2>1, <1>a, <1>m
  <2>3. p = 1 /\ q = 0
    BY <2>1, <1>s DEF FlushLeft
  <2> QED BY <2>2, <2>3
<1> QED BY <1>1, <1>2, <1>3 DEF FlushWork

(* Close waits for the workers, then for the content index worker.         *)
LEMMA CloseFinishes ==
    ASSUME CloseWork
    PROVE  CloseLeft' < CloseLeft
<1>1. CASE CloseIndex
  BY <1>1 DEF CloseIndex, CloseLeft
<1>2. CASE Closed
  BY <1>2 DEF Closed, CloseLeft
<1> QED BY <1>1, <1>2 DEF CloseWork

(* Who takes a step leaves the others what they had to do, but for the     *)
(* messages.                                                               *)
LEMMA OthersKeepTheirs ==
    /\ UNCHANGED wpc => WorkersLeft' = WorkersLeft
    /\ UNCHANGED <<putChan, blockIndexChan, deleteChan, queries, tokens, indexToken>> =>
          MessagesLeft' = MessagesLeft
    /\ UNCHANGED <<prune, ipc, doomed>> => PruneLeft' = PruneLeft
    /\ UNCHANGED <<ipc, cached>> => IndexLeft' = IndexLeft
    /\ UNCHANGED flush => FlushLeft' = FlushLeft
    /\ UNCHANGED close => CloseLeft' = CloseLeft
<1>1. ASSUME UNCHANGED wpc PROVE WorkersLeft' = WorkersLeft
  <2>1. \A phases : WorkersIn(phases)' = WorkersIn(phases)
    BY <1>1 DEF WorkersIn
  <2> QED BY <2>1 DEF WorkersLeft
<1>2. UNCHANGED <<putChan, blockIndexChan, deleteChan, queries, tokens, indexToken>> =>
          MessagesLeft' = MessagesLeft
  BY DEF MessagesLeft
<1>3. UNCHANGED <<prune, ipc, doomed>> => PruneLeft' = PruneLeft
  BY DEF PruneLeft
<1>4. UNCHANGED <<ipc, cached>> => IndexLeft' = IndexLeft
  BY DEF IndexLeft
<1>5. /\ UNCHANGED flush => FlushLeft' = FlushLeft
      /\ UNCHANGED close => CloseLeft' = CloseLeft
  BY DEF FlushLeft, CloseLeft
<1> QED BY <1>1, <1>2, <1>3, <1>4, <1>5

(* Whoever goes on leaves less to do for all.                              *)
LEMMA LessIsLeft ==
    ASSUME Healthy, Healthy', Next
    PROVE  Call \/ WorkLeft' < WorkLeft
<1>n. LeftAreNumbers /\ LeftAreNumbers'
  BY LeftTypes, PTL
<1>s. SUFFICES ASSUME ~Call,
                      NEW w \in Nat, NEW m \in Nat, NEW p \in Nat,
                      NEW i \in Nat, NEW f \in Nat, NEW c \in Nat,
                      NEW ww \in Nat, NEW mm \in Nat, NEW pp \in Nat,
                      NEW ii \in Nat, NEW ff \in Nat, NEW cc \in Nat,
                      w = WorkersLeft, m = MessagesLeft, p = PruneLeft,
                      i = IndexLeft, f = FlushLeft, c = CloseLeft,
                      ww = WorkersLeft', mm = MessagesLeft', pp = PruneLeft',
                      ii = IndexLeft', ff = FlushLeft', cc = CloseLeft'
               PROVE  ww + mm + pp + ii + ff + cc < w + m + p + i + f + c
  <2>1. /\ WorkLeft = WorkersLeft + MessagesLeft + PruneLeft + IndexLeft + FlushLeft
                         + CloseLeft
        /\ WorkLeft' = WorkersLeft' + MessagesLeft' + PruneLeft' + IndexLeft' + FlushLeft'
                         + CloseLeft'
    BY DEF WorkLeft
  <2>2. /\ WorkersLeft \in Nat /\ MessagesLeft \in Nat /\ PruneLeft \in Nat
        /\ IndexLeft \in Nat /\ FlushLeft \in Nat /\ CloseLeft \in Nat
        /\ WorkersLeft' \in Nat /\ MessagesLeft' \in Nat /\ PruneLeft' \in Nat
        /\ IndexLeft' \in Nat /\ FlushLeft' \in Nat /\ CloseLeft' \in Nat
    BY <1>n DEF LeftAreNumbers
  <2> QED BY <2>1, <2>2, Zenon
<1>1. ASSUME NEW v \in Worker, Work(v)
      PROVE  ww + mm + pp + ii + ff + cc < w + m + p + i + f + c
  <2>1. ww + mm < w + m
    BY <1>1, <1>s, WorkersFinish
  <2>2. UNCHANGED <<prune, ipc, doomed, cached, flush, close>>
    BY <1>1 DEF Work, Poll, TakePut, StoreBlock, Announce, DeleteBlock, TakeToken,
                Leave, WorkerOnly, pruneVars, cacheVars
  <2>3. pp = p /\ ii = i /\ ff = f /\ cc = c
    BY <2>2, <1>s, OthersKeepTheirs
  <2> QED BY <2>1, <2>3
<1>2. CASE IndexWork
  <2>1. mm + pp + ii < m + p + i
    BY <1>2, <1>s, IndexWorkFinishes
  <2>2. UNCHANGED <<wpc, flush, close>>
    BY <1>2 DEF IndexWork, PollIndex, TakeBlockIndex, ReadStoreIndex, AnswerQuery,
                FailPrune, Prune, SendDelete, PruneReturns, FlushIndex, LeaveIndex,
                Broken, IndexOnly, workVars
  <2>3. ww = w /\ ff = f /\ cc = c
    BY <2>2, <1>s, OthersKeepTheirs
  <2> QED BY <2>1, <2>3
<1>3. CASE FlushWork
  <2>1. mm + ff < m + f
    BY <1>3, <1>s, FlushFinishes
  <2>2. UNCHANGED <<wpc, prune, ipc, doomed, cached, close>>
    BY <1>3 DEF FlushWork, SendTokens, SendIndexToken, FlushReturns, FlushOnly,
                workVars, pruneVars, indexVars, cacheVars, closeVars
  <2>3. ww = w /\ pp = p /\ ii = i /\ cc = c
    BY <2>2, <1>s, OthersKeepTheirs
  <2> QED BY <2>1, <2>3
<1>4. CASE CloseWork
  <2>1. cc < c
    BY <1>4, <1>s, CloseFinishes
  <2>2. UNCHANGED <<wpc, putChan, blockIndexChan, deleteChan, queries, tokens, indexToken,
                    prune, ipc, doomed, cached, flush>>
    BY <1>4 DEF CloseWork, CloseIndex, Closed, workVars, queryVars, flushVars,
                pruneVars, indexVars, cacheVars
  <2>3. ww = w /\ mm = m /\ pp = p /\ ii = i /\ ff = f
    BY <2>2, <1>s, OthersKeepTheirs
  <2> QED BY <2>1, <2>3
<1> QED BY <1>1, <1>2, <1>3, <1>4, <1>s DEF Next

(* Every step of the store's goroutines, whichever of the remote           *)
(* operations fail in it, leaves them less to do; only the callers give    *)
(* them more.                                                              *)
THEOREM WorkIsFinite == Spec => WorkRunsOut
<1>1. ASSUME Healthy, Healthy', [Next]_vars PROVE [Call \/ WorkLeft' < WorkLeft]_vars
  BY <1>1, LessIsLeft
<1> QED BY <1>1, HealthAlways, PTL DEF Spec, WorkRunsOut

(* What is left is a number, so that it cannot become less forever.        *)
THEOREM WorkIsCounted == Spec => [](WorkLeft \in Nat)
<1>1. ASSUME Healthy PROVE WorkLeft \in Nat
  BY <1>1, LeftTypes DEF LeftAreNumbers, WorkLeft
<1> QED BY <1>1, HealthAlways, PTL
===============================================================================
