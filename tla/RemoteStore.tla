----------------------------- MODULE RemoteStore -----------------------------
(***************************************************************************)
(* One open remote block store: the goroutines of NewRemoteBlockStore in   *)
(* src/remotestore/remotestore.go and the channels between them.           *)
(*                                                                         *)
(* The workers store and delete blocks and announce every stored block to  *)
(* the one content index worker, which collects them and adds them to the  *)
(* store index when the store is flushed or closed.  It also caches the    *)
(* index, answers queries from it, and prunes.  Flush sends one token to   *)
(* each worker, but through one channel, and then one to the content index *)
(* worker.                                                                 *)
(*                                                                         *)
(* Abstractions:                                                           *)
(*   - reading, extending and overwriting the store index is one step that *)
(*     succeeds or fails (StoreIndexUnlocked, StoreIndexLocked);           *)
(*   - gets and prefetches are left out (PrefetchBlocks);                  *)
(*   - a block is announced and its put is answered in one step;           *)
(*   - the goroutine of Flush sends its tokens in one step and takes the   *)
(*     workers' replies in one: the channels hold all of them;             *)
(*   - a block is put once, and there is one prune, in the life of a store.*)
(*                                                                         *)
(* The callers are those of the commands: an "upload" asks for existing    *)
(* content and puts blocks (upsync, put, clone-store), a "prune" prunes, a *)
(* "query" only asks (init-remote-store).  They flush and close when all   *)
(* answers are there, and go on when the flush has returned, but           *)
(* clone-store may give up and close during a flush (lines 473-509 of      *)
(* src/commands/cmd_clonestore.go).  The C library's stores are flushed    *)
(* beside the remote store (FlushStores) and do not flush it.              *)
(***************************************************************************)
EXTENDS Integers, Sequences, FiniteSets

CONSTANTS
    Worker,      \* the worker goroutines
    Block,       \* the blocks of the store
    Sessions,    \* pairs of a kind of callers and an access type
    Starts,      \* the sets of blocks that the store may hold at the start
    Failures,    \* what may fail: "exists", "write", "delete", "read", "add",
                 \* "overwrite"
    PutCap,      \* capacity of putBlockChan
    IndexCap,    \* capacity of blockIndexChan
    DeleteCap,   \* capacity of deleteBlockChan
    MaxQueries,  \* bound: calls of GetExistingContent
    MaxFlushes,  \* bound: calls of Flush
    MaxFaults    \* bound: remote operations that fail

ASSUME RemoteStoreAssumption ==
    /\ IsFiniteSet(Worker) /\ Worker # {}
    /\ Sessions \subseteq {"upload", "prune", "query"}
                      \X {"ReadWrite", "ReadOnly", "Init"}
    /\ Starts \subseteq SUBSET Block
    /\ PutCap \in Nat \ {0} /\ IndexCap \in Nat \ {0} /\ DeleteCap \in Nat \ {0}
    /\ MaxQueries \in Nat /\ MaxFlushes \in Nat /\ MaxFaults \in Nat

VARIABLES
    callers, access,
    \* the remote store
    chunks,      \* the blocks that are stored
    index,       \* the blocks that the store index lists
    hasLsi,      \* FALSE if the store has locking but no store.lsi yet
    \* channels
    putChan, blockIndexChan, deleteChan,
    queries,     \* getExistingContentChan: how many messages
    tokens,      \* workerFlushChan: how many tokens
    replies,     \* workerFlushReplyChan
    indexToken,  \* indexFlushChan
    indexReply,  \* indexFlushReplyChan: "none", "ok" or "error"
    ended,       \* workerErrorChan: goroutines that ended and are not yet counted
    \* calls
    put,         \* of each block: "none", "out", "ok" or "failed"
    prune,       \* likewise
    keep,        \* the blocks the prune keeps
    flush,       \* "none", "tokens", "replies", "reply"
    close,       \* "open", "workers", "index", "closed"
    asked,       \* queries so far
    flushes,     \* flushes so far
    \* workers
    wpc, wblock,
    \* the content index worker
    ipc,         \* "top", "wait", "last", "end", "serve", "deletes", "gone",
                 \* or "broken" without a client
    cached,      \* whether storeIndex is valid
    storeIndex, addedBlockIndexes,
    err,
    doomed,      \* the blocks a prune has still to send for deletion
    deleting,    \* the deletions it waits for
    logged,      \* history: an error was logged by Close
    faults

remoteVars == <<chunks, index, hasLsi>>
flushVars == <<tokens, replies, indexToken, indexReply, flush, flushes>>
closeVars == <<ended, close>>
queryVars == <<queries, asked>>
pruneVars == <<prune, keep>>
workVars == <<wpc, wblock>>
cacheVars == <<cached, storeIndex>>
indexVars == <<ipc, cacheVars, addedBlockIndexes, err, doomed, deleting, logged>>
vars == <<callers, access, remoteVars, putChan, blockIndexChan, deleteChan,
          queryVars, flushVars, closeVars, put, pruneVars, workVars, indexVars,
          faults>>

NoBlock == "no block"

TypeOK ==
    /\ callers \in {"upload", "prune", "query"}
    /\ access \in {"ReadWrite", "ReadOnly", "Init"}
    /\ chunks \subseteq Block /\ index \subseteq Block
    /\ hasLsi \in BOOLEAN
    /\ putChan \in Seq(Block) /\ Len(putChan) <= PutCap
    /\ blockIndexChan \in Seq(Block) /\ Len(blockIndexChan) <= IndexCap
    /\ deleteChan \in Seq(Block) /\ Len(deleteChan) <= DeleteCap
    /\ queries \in Nat /\ asked \in Nat
    /\ tokens \in 0 .. Cardinality(Worker)
    /\ replies \in 0 .. Cardinality(Worker)
    /\ indexToken \in BOOLEAN
    /\ indexReply \in {"none", "ok", "error"}
    /\ ended \in 0 .. Cardinality(Worker) + 1
    /\ put \in [Block -> {"none", "out", "ok", "failed"}]
    /\ prune \in {"none", "out", "ok", "failed"}
    /\ keep \subseteq Block
    /\ flush \in {"none", "tokens", "replies", "reply"}
    /\ close \in {"open", "workers", "index", "closed"}
    /\ flushes \in Nat
    /\ wpc \in [Worker -> {"top", "wait", "last", "write", "announce", "gone"}]
    /\ wblock \in [Worker -> Block \cup {NoBlock}]
    /\ ipc \in {"top", "wait", "last", "end", "serve", "deletes", "broken", "gone"}
    /\ cached \in BOOLEAN
    /\ storeIndex \subseteq Block /\ addedBlockIndexes \subseteq Block
    /\ err \in BOOLEAN /\ logged \in BOOLEAN
    /\ doomed \subseteq Block
    /\ deleting \in Nat
    /\ faults \in Nat

(* The store holds some blocks and lists some of them.  A goroutine whose  *)
(* NewClient fails is gone, or broken, from the start; one worker has one. *)
Init ==
    /\ \E s \in Sessions : callers = s[1] /\ access = s[2]
    /\ chunks \in Starts /\ index \in SUBSET chunks
    /\ hasLsi \in {TRUE} \cup {index # {}}
    /\ putChan = <<>> /\ blockIndexChan = <<>> /\ deleteChan = <<>>
    /\ queries = 0 /\ asked = 0
    /\ tokens = 0 /\ replies = 0
    /\ indexToken = FALSE /\ indexReply = "none"
    /\ put = [b \in Block |-> "none"]
    /\ prune = "none" /\ keep = {}
    /\ flush = "none" /\ flushes = 0
    /\ close = "open"
    /\ \E dead \in SUBSET Worker :
          /\ dead # Worker
          /\ wpc = [w \in Worker |-> IF w \in dead THEN "gone" ELSE "top"]
          /\ ended = Cardinality(dead)
    /\ wblock = [w \in Worker |-> NoBlock]
    /\ ipc \in {"top", "broken"}
    /\ cached = FALSE /\ storeIndex = {} /\ addedBlockIndexes = {}
    /\ err = FALSE /\ logged = FALSE
    /\ doomed = {} /\ deleting = 0
    /\ faults = 0

Fault(what) ==
    /\ what \in Failures /\ faults < MaxFaults
    /\ faults' = faults + 1

-------------------------------------------------------------------------------
(* The callers of the store                                                *)

AllAnswered ==
    /\ \A b \in Block : put[b] # "out"
    /\ queries = 0
    /\ prune # "out"

CallOnly == UNCHANGED <<callers, access, remoteVars, blockIndexChan, deleteChan,
                        tokens, replies, indexToken, indexReply, ended, workVars,
                        indexVars, faults>>

PutStoredBlock(b) ==
    /\ close = "open" /\ flush = "none" /\ callers = "upload"
    /\ put[b] = "none" /\ Len(putChan) < PutCap
    /\ put' = [put EXCEPT ![b] = "out"]
    /\ putChan' = Append(putChan, b)
    /\ UNCHANGED <<queryVars, pruneVars, flush, flushes, close>>
    /\ CallOnly

GetExistingContent ==
    /\ close = "open" /\ flush = "none" /\ asked < MaxQueries
    /\ asked' = asked + 1
    /\ queries' = queries + 1
    /\ UNCHANGED <<put, putChan, pruneVars, flush, flushes, close>>
    /\ CallOnly

PruneBlocks(blocks) ==
    /\ close = "open" /\ flush = "none" /\ callers = "prune"
    /\ prune = "none"
    /\ prune' = "out"
    /\ keep' = blocks
    /\ UNCHANGED <<put, putChan, queryVars, flush, flushes, close>>
    /\ CallOnly

Flush ==
    /\ close = "open" /\ flush = "none" /\ flushes < MaxFlushes
    /\ AllAnswered
    /\ flush' = "tokens"
    /\ flushes' = flushes + 1
    /\ UNCHANGED <<put, putChan, queryVars, pruneVars, close>>
    /\ CallOnly

(* Close closes putBlockChan, counts as many ends of goroutines as there   *)
(* are workers, closes blockIndexChan and waits for one more end.          *)
Close ==
    /\ close = "open"
    /\ AllAnswered /\ (flush = "none" \/ callers = "upload")
    /\ close' = "workers"
    /\ UNCHANGED <<put, putChan, queryVars, pruneVars, flush, flushes>>
    /\ CallOnly

(* MUTANT of EndsToCount: it does not wait for the last worker.            *)
EndsButOne == Cardinality(Worker) - 1

EndsToCount == Cardinality(Worker)

CloseIndex ==
    /\ close = "workers" /\ ended >= EndsToCount
    /\ ended' = ended - EndsToCount
    /\ close' = "index"
    /\ UNCHANGED <<callers, access, remoteVars, putChan, blockIndexChan,
                   deleteChan, queryVars, flushVars, put, pruneVars, workVars,
                   indexVars, faults>>

Closed ==
    /\ close = "index" /\ ended > 0
    /\ ended' = ended - 1
    /\ close' = "closed"
    /\ UNCHANGED <<callers, access, remoteVars, putChan, blockIndexChan,
                   deleteChan, queryVars, flushVars, put, pruneVars, workVars,
                   indexVars, faults>>

-------------------------------------------------------------------------------
(* The goroutine of Flush                                                  *)

FlushOnly == UNCHANGED <<callers, access, remoteVars, putChan, blockIndexChan,
                         deleteChan, queryVars, closeVars, put, pruneVars,
                         workVars, indexVars, flushes, faults>>

SendTokens ==
    /\ flush = "tokens"
    /\ tokens' = tokens + Cardinality(Worker)
    /\ flush' = "replies"
    /\ UNCHANGED <<replies, indexToken, indexReply>>
    /\ FlushOnly

SendIndexToken ==
    /\ flush = "replies" /\ replies = Cardinality(Worker)
    /\ replies' = 0
    /\ indexToken' = TRUE
    /\ flush' = "reply"
    /\ UNCHANGED <<tokens, indexReply>>
    /\ FlushOnly

FlushReturns ==
    /\ flush = "reply" /\ indexReply # "none"
    /\ indexReply' = "none"
    /\ flush' = "none"
    /\ UNCHANGED <<tokens, replies, indexToken>>
    /\ FlushOnly

-------------------------------------------------------------------------------
(* remoteWorker                                                            *)

Goto(w, phase) == wpc' = [wpc EXCEPT ![w] = phase]

Ready(w) == wpc[w] \in {"top", "wait"}

WorkerOnly == UNCHANGED <<callers, access, hasLsi, index, queryVars, indexToken,
                          indexReply, flush, flushes, close, pruneVars, ipc,
                          cacheVars, addedBlockIndexes, err, doomed, logged>>

(* The first select, which does not look at the flush tokens, finds        *)
(* nothing to do, or putBlockChan closed; then the next thing it does is   *)
(* its last.                                                               *)
Poll(w) ==
    /\ wpc[w] = "top" /\ putChan = <<>>
    /\ \/ deleteChan = <<>> /\ close = "open" /\ Goto(w, "wait")
       \/ close # "open" /\ Goto(w, "last")
    /\ UNCHANGED <<chunks, putChan, blockIndexChan, deleteChan, tokens, replies,
                   ended, put, wblock, deleting, faults>>
    /\ WorkerOnly

TakePut(w) ==
    /\ Ready(w) /\ putChan # <<>>
    /\ putChan' = Tail(putChan)
    /\ LET b == Head(putChan)
       IN  IF access = "ReadOnly"
           THEN /\ put' = [put EXCEPT ![b] = "failed"]
                /\ Goto(w, "top")
                /\ UNCHANGED wblock
           ELSE /\ wblock' = [wblock EXCEPT ![w] = b]
                /\ Goto(w, "write")
                /\ UNCHANGED put
    /\ UNCHANGED <<chunks, blockIndexChan, deleteChan, tokens, replies, ended,
                   deleting, faults>>
    /\ WorkerOnly

(* putStoredBlock, up to the announcement.  A block that is there already  *)
(* is not written again; if Exists fails, it is not written either.        *)
StoreBlock(w) ==
    /\ wpc[w] = "write"
    /\ LET b == wblock[w]
       IN  \/ /\ chunks' = chunks \cup {b}
              /\ Goto(w, "announce")
              /\ UNCHANGED <<put, wblock, faults>>
           \/ /\ Fault("exists")
              /\ Goto(w, "announce")
              /\ UNCHANGED <<chunks, put, wblock>>
           \/ /\ Fault("write") /\ b \notin chunks
              /\ chunks' \in {chunks, chunks \cup {b}}
              /\ put' = [put EXCEPT ![b] = "failed"]
              /\ wblock' = [wblock EXCEPT ![w] = NoBlock]
              /\ Goto(w, "top")
    /\ UNCHANGED <<putChan, blockIndexChan, deleteChan, tokens, replies, ended,
                   deleting>>
    /\ WorkerOnly

Announce(w) ==
    /\ wpc[w] = "announce" /\ Len(blockIndexChan) < IndexCap
    /\ blockIndexChan' = Append(blockIndexChan, wblock[w])
    /\ put' = [put EXCEPT ![wblock[w]] = "ok"]
    /\ wblock' = [wblock EXCEPT ![w] = NoBlock]
    /\ Goto(w, "top")
    /\ UNCHANGED <<chunks, putChan, deleteChan, tokens, replies, ended, deleting,
                   faults>>
    /\ WorkerOnly

(* The prune counts the deletions that were tried.                         *)
(* MUTANT of Completed: those that succeeded.                              *)
CompletedIfDone(ok) == IF ok THEN deleting - 1 ELSE deleting

Completed(ok) == deleting - 1

DeleteBlock(w) ==
    /\ Ready(w) /\ deleteChan # <<>>
    /\ deleteChan' = Tail(deleteChan)
    /\ Goto(w, "top")
    /\ \/ /\ chunks' = chunks \ {Head(deleteChan)}
          /\ deleting' = Completed(TRUE)
          /\ UNCHANGED faults
       \/ /\ Fault("delete")
          /\ deleting' = Completed(FALSE)
          /\ UNCHANGED chunks
    /\ UNCHANGED <<putChan, blockIndexChan, tokens, replies, ended, put, wblock>>
    /\ WorkerOnly

(* MUTANT of End: it reports its end and goes on.                          *)
EndAndGoOn(w) ==
    /\ ended' = ended + 1
    /\ Goto(w, "top")

End(w) ==
    /\ ended' = ended + 1
    /\ Goto(w, "gone")

TakeToken(w) ==
    /\ wpc[w] \in {"wait", "last"}
    /\ tokens > 0 /\ replies < Cardinality(Worker)
    /\ tokens' = tokens - 1
    /\ replies' = replies + 1
    /\ \/ wpc[w] = "wait" /\ Goto(w, "top") /\ UNCHANGED ended
       \/ wpc[w] = "last" /\ End(w)
    /\ UNCHANGED <<chunks, putChan, blockIndexChan, deleteChan, put, wblock,
                   deleting, faults>>
    /\ WorkerOnly

(* putBlockChan is closed, and empty.                                      *)
Leave(w) ==
    /\ wpc[w] \in {"wait", "last"}
    /\ close # "open" /\ putChan = <<>>
    /\ End(w)
    /\ UNCHANGED <<chunks, putChan, blockIndexChan, deleteChan, tokens, replies,
                   put, wblock, deleting, faults>>
    /\ WorkerOnly

Work(w) ==
    \/ Poll(w) \/ TakePut(w) \/ StoreBlock(w) \/ Announce(w) \/ DeleteBlock(w)
    \/ TakeToken(w) \/ Leave(w)

-------------------------------------------------------------------------------
(* contentIndexWorker                                                      *)

Turn == ipc \in {"top", "wait"}

IndexOnly == UNCHANGED <<callers, access, putChan, tokens, replies, flush,
                         flushes, close, workVars>>

(* The first select, which does not look at the flush token either, finds  *)
(* nothing, or blockIndexChan closed.                                      *)
IndexClosed == close = "index" /\ blockIndexChan = <<>>

PollIndex ==
    /\ ipc = "top" /\ queries = 0 /\ prune # "out" /\ blockIndexChan = <<>>
    /\ ipc' = IF IndexClosed THEN "last" ELSE "wait"
    /\ UNCHANGED <<remoteVars, blockIndexChan, deleteChan, queryVars, indexToken,
                   indexReply, ended, put, pruneVars, cacheVars, addedBlockIndexes,
                   err, doomed, deleting, logged, faults>>
    /\ IndexOnly

TakeBlockIndex ==
    /\ Turn /\ blockIndexChan # <<>>
    /\ blockIndexChan' = Tail(blockIndexChan)
    /\ addedBlockIndexes' = addedBlockIndexes \cup {Head(blockIndexChan)}
    /\ ipc' = "top"
    /\ UNCHANGED <<remoteVars, deleteChan, queryVars, indexToken, indexReply,
                   ended, put, pruneVars, cacheVars, err, doomed, deleting,
                   logged, faults>>
    /\ IndexOnly

(* A query or a prune waits, and the index is not cached.  The access type *)
(* Init rebuilds it from the stored blocks; if it cannot add them to the   *)
(* store, that is only logged.                                             *)
Asked == queries > 0 \/ (prune = "out" /\ access # "ReadOnly")

(* What an add makes of the index, and whether it returns the result: not  *)
(* if it made a new store.lsi (remotestore.go:1190).                       *)
AddToIndex(new) ==
    /\ index' = index \cup new
    /\ hasLsi' = TRUE

ReturnsIndex == hasLsi

IndexSteps == UNCHANGED <<chunks, blockIndexChan, deleteChan, asked, indexToken,
                          indexReply, ended, put, keep, addedBlockIndexes,
                          logged>>

ReadStoreIndex ==
    /\ Turn /\ Asked /\ ~cached
    /\ ipc' = "serve"
    /\ cached' = TRUE
    /\ \/ /\ access # "Init"
          /\ storeIndex' = index
          /\ UNCHANGED <<index, hasLsi, faults>>
       \/ /\ access = "Init"
          /\ AddToIndex(chunks)
          /\ storeIndex' = IF ReturnsIndex THEN index \cup chunks ELSE chunks
          /\ UNCHANGED faults
       \/ /\ access = "Init" /\ Fault("add")
          /\ storeIndex' = chunks
          /\ UNCHANGED <<index, hasLsi>>
    /\ UNCHANGED <<queries, prune, err, doomed, deleting>>
    /\ IndexSteps /\ IndexOnly

(* MUTANT of Serving: whether or not it was read.                          *)
ServingAlways == ipc = "serve" \/ Turn

Serving == ipc = "serve" \/ (Turn /\ cached)

(* The answer is the cached index with the blocks added since.             *)
Current == storeIndex \cup addedBlockIndexes

AnswerQuery ==
    /\ queries > 0
    /\ queries' = queries - 1
    /\ \/ /\ Serving
          /\ err' = FALSE
          /\ UNCHANGED faults
       \/ /\ Turn /\ ~cached /\ Fault("read")
          /\ err' = TRUE
    /\ ipc' = "top"
    /\ UNCHANGED <<index, hasLsi, prune, cacheVars, doomed, deleting>>
    /\ IndexSteps /\ IndexOnly

(* A prune that is not allowed, or whose index cannot be read or written.  *)
(* An index that was written with an error may be there.                   *)
FailPrune ==
    /\ prune = "out"
    /\ prune' = "failed"
    /\ \/ /\ Turn /\ access = "ReadOnly"
          /\ UNCHANGED <<err, index, hasLsi, faults>>
       \/ /\ Turn /\ access # "ReadOnly" /\ ~cached /\ Fault("read")
          /\ err' = TRUE
          /\ UNCHANGED <<index, hasLsi>>
       \/ /\ Serving /\ access # "ReadOnly" /\ Fault("overwrite")
          /\ err' = TRUE
          /\ \/ UNCHANGED <<index, hasLsi>>
             \/ /\ index' = Current \cap keep
                /\ hasLsi' = TRUE
    /\ ipc' = "top"
    /\ UNCHANGED <<queries, cacheVars, doomed, deleting>>
    /\ IndexSteps /\ IndexOnly

(* The blocks a prune deletes.                                             *)
(* MUTANT of Doomed: it does not look for them among the kept ones.        *)
DoomedAll == Current

Doomed == Current \ keep

(* onPruneBlocksMessage: the pruned index is written, and then the blocks  *)
(* it does not list are sent to the workers.                               *)
Prune ==
    /\ prune = "out" /\ access # "ReadOnly" /\ Serving
    /\ index' = Current \cap keep
    /\ hasLsi' = TRUE
    /\ doomed' = Doomed
    /\ ipc' = "deletes"
    /\ UNCHANGED <<queries, prune, cacheVars, err, deleting, faults>>
    /\ IndexSteps /\ IndexOnly

(* The prune waits for one deletion more.                                  *)
(* MUTANT of Awaited: it is not counted.                                   *)
AwaitedNone == deleting

Awaited == deleting + 1

SendDelete ==
    /\ ipc = "deletes" /\ Len(deleteChan) < DeleteCap
    /\ \E b \in doomed :
          /\ doomed' = doomed \ {b}
          /\ deleteChan' = Append(deleteChan, b)
    /\ deleting' = Awaited
    /\ UNCHANGED <<remoteVars, blockIndexChan, queryVars, indexToken, indexReply,
                   ended, put, pruneVars, ipc, cacheVars, addedBlockIndexes, err,
                   logged, faults>>
    /\ IndexOnly

(* The pruned index becomes the cached one.                                *)
(* MUTANT of PrunedIndex: it does not.                                     *)
UnprunedIndex == storeIndex

PrunedIndex == Current \cap keep

PruneReturns ==
    /\ ipc = "deletes" /\ doomed = {} /\ deleting = 0
    /\ prune' = "ok"
    /\ storeIndex' = PrunedIndex
    /\ err' = FALSE
    /\ ipc' = "top"
    /\ UNCHANGED <<index, hasLsi, queries, cached, doomed, deleting, faults>>
    /\ IndexSteps /\ IndexOnly

(* addBlocksToRemoteStoreIndex with what was announced, and the index it   *)
(* returns taken for the cached one.                                       *)
AddBlocks ==
    /\ AddToIndex(addedBlockIndexes)
    /\ addedBlockIndexes' = {}
    /\ IF ReturnsIndex
       THEN cached' = TRUE /\ storeIndex' = index'
       ELSE UNCHANGED cacheVars

Adds == addedBlockIndexes # {} /\ access # "ReadOnly"

(* What is left to add when an add has failed.                             *)
(* MUTANT of LeftToAdd: nothing.                                           *)
NothingLeft == {}

LeftToAdd == addedBlockIndexes

(* An error that is left from a query or a prune is the answer of the next *)
(* flush, which then adds nothing.                                         *)
FlushIndex ==
    /\ ipc \in {"wait", "last"} /\ indexToken
    /\ indexToken' = FALSE
    /\ \/ /\ err
          /\ indexReply' = "error"
          /\ UNCHANGED <<index, hasLsi, cacheVars, addedBlockIndexes, faults>>
       \/ /\ ~err /\ Adds
          /\ AddBlocks
          /\ indexReply' = "ok"
          /\ UNCHANGED faults
       \/ /\ ~err /\ Adds /\ Fault("add")
          /\ indexReply' = "error"
          /\ addedBlockIndexes' = LeftToAdd
          /\ UNCHANGED <<index, hasLsi, cacheVars>>
       \/ /\ ~err /\ ~Adds
          /\ indexReply' = "ok"
          /\ UNCHANGED <<index, hasLsi, cacheVars, addedBlockIndexes, faults>>
    /\ err' = FALSE
    /\ ipc' = IF ipc = "last" THEN "end" ELSE "top"
    /\ UNCHANGED <<chunks, blockIndexChan, deleteChan, queryVars, ended, put,
                   pruneVars, doomed, deleting, logged>>
    /\ IndexOnly

(* blockIndexChan is closed, and empty: what is left is added.  An error   *)
(* is logged; one that is left from a query or a prune keeps the blocks    *)
(* from being added.                                                       *)
LeaveIndex ==
    /\ ipc = "end" \/ (ipc \in {"wait", "last"} /\ IndexClosed)
    /\ \/ /\ err
          /\ logged' = TRUE
          /\ UNCHANGED <<index, hasLsi, faults>>
       \/ /\ ~err /\ (Adds \/ access = "Init")
          /\ AddToIndex(addedBlockIndexes)
          /\ UNCHANGED <<logged, faults>>
       \/ /\ ~err /\ (Adds \/ access = "Init") /\ Fault("add")
          /\ logged' = TRUE
          /\ UNCHANGED <<index, hasLsi>>
       \/ /\ ~err /\ ~Adds /\ access # "Init"
          /\ UNCHANGED <<index, hasLsi, logged, faults>>
    /\ addedBlockIndexes' = {}
    /\ ended' = ended + 1
    /\ ipc' = "gone"
    /\ UNCHANGED <<chunks, blockIndexChan, deleteChan, queryVars, indexToken,
                   indexReply, put, pruneVars, cacheVars, err, doomed, deleting>>
    /\ IndexOnly

(* Without a client it refuses queries and prunes, drops the announcements *)
(* and answers flushes as if they had been added.                          *)
Broken ==
    /\ ipc = "broken"
    /\ \/ /\ indexToken
          /\ indexToken' = FALSE
          /\ indexReply' = "ok"
          /\ UNCHANGED <<blockIndexChan, queries, prune, ipc, ended, logged>>
       \/ /\ blockIndexChan # <<>>
          /\ blockIndexChan' = Tail(blockIndexChan)
          /\ UNCHANGED <<indexToken, indexReply, queries, prune, ipc, ended,
                         logged>>
       \/ /\ queries > 0
          /\ queries' = queries - 1
          /\ UNCHANGED <<indexToken, indexReply, blockIndexChan, prune, ipc,
                         ended, logged>>
       \/ /\ prune = "out"
          /\ prune' = "failed"
          /\ UNCHANGED <<indexToken, indexReply, blockIndexChan, queries, ipc,
                         ended, logged>>
       \/ /\ IndexClosed
          /\ ipc' = "gone"
          /\ ended' = ended + 1
          /\ logged' = TRUE
          /\ UNCHANGED <<indexToken, indexReply, blockIndexChan, queries, prune>>
    /\ UNCHANGED <<remoteVars, deleteChan, asked, put, keep, cacheVars,
                   addedBlockIndexes, err, doomed, deleting, faults>>
    /\ IndexOnly

IndexWork ==
    \/ PollIndex \/ TakeBlockIndex \/ ReadStoreIndex \/ AnswerQuery
    \/ FailPrune \/ Prune \/ SendDelete \/ PruneReturns
    \/ FlushIndex \/ LeaveIndex \/ Broken

-------------------------------------------------------------------------------
FlushWork == SendTokens \/ SendIndexToken \/ FlushReturns

CloseWork == CloseIndex \/ Closed

Call ==
    \/ \E b \in Block : PutStoredBlock(b)
    \/ GetExistingContent
    \/ \E blocks \in SUBSET Block : PruneBlocks(blocks)
    \/ Flush \/ Close

Next ==
    \/ Call \/ FlushWork \/ CloseWork \/ IndexWork
    \/ \E w \in Worker : Work(w)

Spec == Init /\ [][Next]_vars

(* Every goroutine goes on while it can; nobody has to call the store.     *)
FairSpec ==
    /\ Spec
    /\ \A w \in Worker : WF_vars(Work(w))
    /\ WF_vars(IndexWork)
    /\ WF_vars(FlushWork)
    /\ WF_vars(CloseWork)

-------------------------------------------------------------------------------
(* Properties                                                              *)

(* The store index lists no block that is not stored, at any time: a block *)
(* is stored before it is announced, and a pruned one is deleted after the *)
(* pruned index was written ("Don't update store index if we failed to     *)
(* upload blocks", src/CHANGELOG.md:5).                                    *)
IndexedBlocksExist == index \subseteq chunks

(* Whatever the content index worker answers or prunes from, its cached    *)
(* index with the announced blocks, lists stored blocks only: an upload    *)
(* leaves out the blocks it is told of.                                    *)
ContentIsStored == Serving => Current \subseteq chunks

Announced == {blockIndexChan[i] : i \in DOMAIN blockIndexChan}

(* A block whose put was reported a success is in the store index or on    *)
(* its way to it, through flushes, failed adds and the end of the store.   *)
(* It is given up only by a content index worker that had no client or     *)
(* left Close an error to log.                                             *)
PutsReachIndex ==
    callers = "upload" =>
        \A b \in Block : put[b] = "ok" =>
            \/ b \in index \cup Announced \cup addedBlockIndexes
            \/ ipc = "broken" \/ logged

(* No worker can send on blockIndexChan once it is closed, though Close    *)
(* cannot tell whose end it has counted.                                   *)
NoSendAfterClose ==
    close \in {"index", "closed"} => \A w \in Worker : wpc[w] = "gone"

(* A prune takes no block out of the index that it was to keep, whatever   *)
(* was cached, added or failed before it.                                  *)
PruneKeepsKept == [][keep \cap index \subseteq index']_vars

(* What a put reported is in the cached index, or about to be added to it, *)
(* so that the store answers a query with it: blocks that were put and     *)
(* flushed are all found (src/remotestore/remotestore_test.go:206-218).    *)
PutsAreCached ==
    callers = "upload" /\ cached /\ ipc \notin {"end", "gone"} =>
        \A b \in Block : put[b] = "ok" => b \in Current \cup Announced

AllReturned ==
    /\ AllAnswered
    /\ flush = "none" \/ close # "open"
    /\ close \in {"open", "closed"}

(* Every put, query, prune, flush and close returns, with any capacity of  *)
(* the channels, as long as one worker has a client; only a flush that the *)
(* store was closed on may never return.                                   *)
EveryCallReturns == ~AllReturned ~> AllReturned
===============================================================================
