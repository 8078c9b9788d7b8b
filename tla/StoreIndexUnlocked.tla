-------------------------- MODULE StoreIndexUnlocked --------------------------
(***************************************************************************)
(* The store index of a backend without write locking (S3, and file or     *)
(* memory stores opened without it): src/remotestore/remotestore.go.       *)
(*                                                                         *)
(* The index is the union of the files store_<sha256>.lsi.  A client that  *)
(* adds blocks lists the files, reads them one at a time, merges them with *)
(* its own blocks, writes the merged index under the name of its content   *)
(* and deletes the files it had merged.  A prune reads the index, lists    *)
(* the files again, writes the pruned index and deletes the other files.   *)
(* A reader lists, reads and merges.  Every remote call is one step, so    *)
(* clients interleave between any two of them, a call may fail, and a      *)
(* client may crash anywhere.                                              *)
(*                                                                         *)
(* Abstractions:                                                           *)
(*   - a file is its content (the name is the content's hash);             *)
(*   - a listing and a write are atomic, as S3 makes them; the torn writes *)
(*     of a file system are the subject of StoreIndexLocked;               *)
(*   - the six retries inside ReadBlobWithRetry and getStoreStoreIndexes   *)
(*     are one call that succeeds or fails;                                *)
(*   - Prunes run while no upload does: "Running uploads to a store that   *)
(*     is being pruned may cause loss of the uploaded data"                *)
(*     (src/commands/commands.go:31).  Readers may run at any time.        *)
(***************************************************************************)
EXTENDS StoreIndex, FiniteSets

CONSTANTS
    Client,        \* the processes that use the store
    AddedIndex,    \* the indexes that uploads add: what CreateStoreIndexFromBlocks built
    KeptBlocks,    \* the sets of blocks that prunes keep
    NameOrder,     \* pairs of indexes: the file of the first is listed before the second's
    WriteErrorIsOk,\* a failed write returns (true, err), as s3BlobObject.Write does
    MaxOps,        \* bound: operations started
    MaxFaults      \* bound: remote calls that fail and clients that crash

ASSUME UnlockedAssumption ==
    /\ AddedIndex \subseteq Index
    /\ KeptBlocks \subseteq SUBSET Block
    /\ NameOrder \subseteq Index \X Index
    /\ WriteErrorIsOk \in BOOLEAN
    /\ MaxOps \in Nat /\ MaxFaults \in Nat

MaxErrors == 3 \* errorRetries == 3, remotestore.go:1319 and :1470

VARIABLES
    files,     \* the index files in the store
    op,        \* what each client is doing: "none", "add", "prune" or "read"
    pc,        \* its next remote call
    added,     \* the index it adds
    keep,      \* the blocks it keeps
    items,     \* the files its last listing returned
    left,      \* those it has still to read, or to delete
    merged,    \* the index merged so far, then the one it writes
    errors,    \* errorRetries
    promised,  \* history: blocks whose add returned without an error, less the pruned
    asked,     \* history: what was promised when the client's read began
    written,   \* history: every index that was ever written
    ops,       \* operations started so far
    faults     \* faults so far

clientVars == <<op, pc, added, keep, items, left, merged, errors>>
vars == <<files, clientVars, promised, asked, written, ops, faults>>

Phase == {"idle", "list", "read", "relist", "exists", "write", "delete", "got"}

TypeOK ==
    /\ files \subseteq Index
    /\ op \in [Client -> {"none", "add", "prune", "read"}]
    /\ pc \in [Client -> Phase]
    /\ added \in [Client -> Index]
    /\ keep \in [Client -> SUBSET Block]
    /\ items \in [Client -> SUBSET Index]
    /\ left \in [Client -> SUBSET Index]
    /\ \A c \in Client : left[c] \subseteq items[c]
    /\ merged \in [Client -> Index]
    /\ errors \in [Client -> 0 .. MaxErrors - 1]
    /\ promised \subseteq Block
    /\ asked \in [Client -> SUBSET Block]
    /\ written \subseteq Index
    /\ ops \in Nat /\ faults \in Nat

Init ==
    /\ files = {}
    /\ op = [c \in Client |-> "none"]
    /\ pc = [c \in Client |-> "idle"]
    /\ added = [c \in Client |-> EmptyIndex]
    /\ keep = [c \in Client |-> {}]
    /\ items = [c \in Client |-> {}]
    /\ left = [c \in Client |-> {}]
    /\ merged = [c \in Client |-> EmptyIndex]
    /\ errors = [c \in Client |-> 0]
    /\ promised = {}
    /\ asked = [c \in Client |-> {}]
    /\ written = {}
    /\ ops = 0
    /\ faults = 0

-------------------------------------------------------------------------------
(* Steps of a client                                                       *)

Busy(c, what) == op[c] = what

NoUpload == \A c \in Client : ~Busy(c, "add")
NoPrune  == \A c \in Client : ~Busy(c, "prune")

Goto(c, phase) == pc' = [pc EXCEPT ![c] = phase]

(* The client forgets everything: its call returned, or it crashed.        *)
Forget(c) ==
    /\ op' = [op EXCEPT ![c] = "none"]
    /\ pc' = [pc EXCEPT ![c] = "idle"]
    /\ added' = [added EXCEPT ![c] = EmptyIndex]
    /\ keep' = [keep EXCEPT ![c] = {}]
    /\ items' = [items EXCEPT ![c] = {}]
    /\ left' = [left EXCEPT ![c] = {}]
    /\ merged' = [merged EXCEPT ![c] = EmptyIndex]
    /\ errors' = [errors EXCEPT ![c] = 0]
    /\ asked' = [asked EXCEPT ![c] = {}]

(* The call returns without an error.                                      *)
Succeed(c) ==
    /\ promised' = IF Busy(c, "add") THEN promised \cup added[c].blocks
                                     ELSE promised
    /\ Forget(c)

(* addToRemoteStoreIndex and tryOverwriteStoreIndexWithRetry start over; a *)
(* prune that got as far as this keeps the pruned index it writes.         *)
Retry(c) ==
    /\ Goto(c, IF Busy(c, "prune") THEN "relist" ELSE "list")
    /\ items' = [items EXCEPT ![c] = {}]
    /\ left' = [left EXCEPT ![c] = {}]
    /\ merged' = [merged EXCEPT ![c] = IF Busy(c, "prune") THEN @ ELSE EmptyIndex]
    /\ UNCHANGED <<op, added, keep, asked>>

Start(c) ==
    /\ pc[c] = "idle" /\ ops < MaxOps
    /\ ops' = ops + 1
    /\ Goto(c, "list")
    /\ UNCHANGED <<files, items, left, merged, errors, written, faults>>

StartAdd(c) ==
    /\ NoPrune
    /\ Start(c)
    /\ op' = [op EXCEPT ![c] = "add"]
    /\ \E index \in AddedIndex : added' = [added EXCEPT ![c] = index]
    /\ UNCHANGED <<keep, asked, promised>>

StartRead(c) ==
    /\ Start(c)
    /\ op' = [op EXCEPT ![c] = "read"]
    /\ asked' = [asked EXCEPT ![c] = promised]
    /\ UNCHANGED <<added, keep, promised>>

(* What a prune does not keep is not promised any more.                    *)
StartPrune(c) ==
    /\ NoPrune /\ NoUpload
    /\ Start(c)
    /\ op' = [op EXCEPT ![c] = "prune"]
    /\ \E blocks \in KeptBlocks :
          /\ keep' = [keep EXCEPT ![c] = blocks]
          /\ promised' = promised \cap blocks
          /\ asked' = [r \in Client |-> asked[r] \cap blocks]
    /\ UNCHANGED added

(* The index was read completely: an add merges its blocks into it, a      *)
(* prune cuts it down to what it keeps, a read is done.                    *)
Prepared(c, index) ==
    CASE Busy(c, "add")   -> Merge(index, added[c])
      [] Busy(c, "prune") -> PruneTo(index, keep[c])
      [] OTHER            -> index

AfterReading(c) ==
    CASE Busy(c, "add")   -> "exists"
      [] Busy(c, "prune") -> "relist"
      [] OTHER            -> "got"

(* getStoreStoreIndexes: the files there are now.                          *)
List(c) ==
    /\ pc[c] = "list"
    /\ items' = [items EXCEPT ![c] = files]
    /\ left' = [left EXCEPT ![c] = files]
    /\ merged' = [merged EXCEPT ![c] =
                    IF files = {} THEN Prepared(c, EmptyIndex) ELSE EmptyIndex]
    /\ Goto(c, IF files = {} THEN AfterReading(c) ELSE "read")
    /\ UNCHANGED <<files, op, added, keep, errors, promised, asked, written,
                   ops, faults>>

(* The next of the listed files, in the order of their names.              *)
IsNext(c, item) ==
    /\ item \in left[c]
    /\ \A other \in left[c] \ {item} : <<other, item>> \notin NameOrder

(* MUTANT of IsLast: the loop ends one file early.                         *)
IsNearlyLast(c, item) == Cardinality(left[c]) <= 2

IsLast(c, item) == left[c] = {item}

(* One turn of the loop in mergeStoreIndexItems.  A file that is gone by   *)
(* now makes readStoreStoreIndexWithItems list again.                      *)
ReadItem(c) ==
    /\ pc[c] = "read"
    /\ \E item \in left[c] :
          /\ IsNext(c, item)
          /\ \/ /\ item \notin files
                /\ Goto(c, "list")
                /\ items' = [items EXCEPT ![c] = {}]
                /\ left' = [left EXCEPT ![c] = {}]
                /\ merged' = [merged EXCEPT ![c] = EmptyIndex]
             \/ /\ item \in files
                /\ left' = [left EXCEPT ![c] = @ \ {item}]
                /\ LET index == Merge(merged[c], item)
                   IN  IF IsLast(c, item)
                       THEN /\ merged' = [merged EXCEPT ![c] = Prepared(c, index)]
                            /\ Goto(c, AfterReading(c))
                       ELSE /\ merged' = [merged EXCEPT ![c] = index]
                            /\ UNCHANGED pc
                /\ UNCHANGED items
    /\ UNCHANGED <<files, op, added, keep, errors, promised, asked, written,
                   ops, faults>>

(* tryOverwriteRemoteStoreIndexWithoutLocking lists again before it writes *)
Relist(c) ==
    /\ pc[c] = "relist"
    /\ items' = [items EXCEPT ![c] = files]
    /\ Goto(c, "exists")
    /\ UNCHANGED <<files, op, added, keep, left, merged, errors, promised,
                   asked, written, ops, faults>>

(* The call has only the files of `doomed` to delete before it returns.    *)
DeleteThen(c, doomed) ==
    /\ Goto(c, "delete")
    /\ left' = [left EXCEPT ![c] = doomed]
    /\ UNCHANGED <<op, added, keep, items, merged, errors, asked>>

(* The files a writer deletes: those of its listing, but not its own.      *)
(* MUTANTS of Doomed: its own file, too; or every file there is.           *)
DoomedWithOwn(c) == items[c]
DoomedUnread(c) == files \ {merged[c]}

Doomed(c) == items[c] \ {merged[c]}

(* tryWriteRemoteStoreIndex: a listed file has the very name it would      *)
(* write, so the add changes nothing.                                      *)
(* MUTANT of AlreadyListed: that test is forgotten.                        *)
NeverListed(c) == FALSE

AlreadyListed(c) == Busy(c, "add") /\ merged[c] \in items[c]

(* An add that changes nothing is done; one whose index another client has *)
(* written since the listing starts over; a prune leaves the file it finds *)
(* and deletes the others.                                                 *)
Exists(c) ==
    /\ pc[c] = "exists"
    /\ \/ /\ AlreadyListed(c)
          /\ DeleteThen(c, {})
       \/ /\ Busy(c, "add") /\ ~AlreadyListed(c) /\ merged[c] \in files
          /\ Retry(c)
          /\ UNCHANGED errors
       \/ /\ Busy(c, "prune") /\ merged[c] \in files
          /\ DeleteThen(c, Doomed(c))
       \/ /\ ~AlreadyListed(c) /\ merged[c] \notin files
          /\ Goto(c, "write")
          /\ UNCHANGED <<op, added, keep, items, left, merged, errors, asked>>
    /\ UNCHANGED <<files, promised, written, ops, faults>>

Write(c) ==
    /\ pc[c] = "write"
    /\ files' = files \cup {merged[c]}
    /\ written' = written \cup {merged[c]}
    /\ DeleteThen(c, Doomed(c))
    /\ UNCHANGED <<promised, ops, faults>>

DeleteItem(c) ==
    /\ pc[c] = "delete"
    /\ \E item \in left[c] :
          /\ IsNext(c, item)
          /\ files' = files \ {item}
          /\ left' = [left EXCEPT ![c] = @ \ {item}]
    /\ UNCHANGED <<op, pc, added, keep, items, merged, errors, promised, asked,
                   written, ops, faults>>

Return(c) ==
    /\ \/ pc[c] = "delete" /\ left[c] = {}
       \/ pc[c] = "got"
    /\ Succeed(c)
    /\ UNCHANGED <<files, written, ops, faults>>

-------------------------------------------------------------------------------
(* Faults                                                                  *)

Fault == /\ faults < MaxFaults
         /\ faults' = faults + 1

(* A failed attempt of an add, and of a prune that has its index, is       *)
(* repeated until the third error; an error while a prune or a reader      *)
(* reads the index is returned at once.                                    *)
Error(c) ==
    IF \/ Busy(c, "read")
       \/ Busy(c, "prune") /\ pc[c] \in {"list", "read"}
       \/ errors[c] + 1 = MaxErrors
    THEN Forget(c)
    ELSE /\ errors' = [errors EXCEPT ![c] = @ + 1]
         /\ Retry(c)

FailCall(c) ==
    /\ Fault
    /\ pc[c] \in {"list", "read", "relist", "exists"}
    /\ Error(c)
    /\ UNCHANGED <<files, promised, written, ops>>

(* tryOverwriteStoreIndexWithRetry looks at `ok` before the error          *)
(* (remotestore.go:1465), tryAddRemoteStoreIndex drops the `ok`.           *)
(* MUTANT of CountsAsOk: both look at `ok` first, and it is true.          *)
AlwaysOk(c) == TRUE

CountsAsOk(c) == Busy(c, "prune") /\ WriteErrorIsOk

(* The object may be there or not when a write fails.  A failure that      *)
(* counts as ok ends the call with success and nothing deleted.            *)
FailWrite(c) ==
    /\ Fault
    /\ pc[c] = "write"
    /\ \/ UNCHANGED <<files, written>>
       \/ /\ files' = files \cup {merged[c]}
          /\ written' = written \cup {merged[c]}
    /\ IF CountsAsOk(c)
       THEN DeleteThen(c, {})
       ELSE Error(c)
    /\ UNCHANGED <<promised, ops>>

(* An error of a delete is skipped: the file stays.                        *)
FailDelete(c) ==
    /\ Fault
    /\ pc[c] = "delete"
    /\ \E item \in left[c] :
          /\ IsNext(c, item)
          /\ left' = [left EXCEPT ![c] = @ \ {item}]
    /\ UNCHANGED <<files, op, pc, added, keep, items, merged, errors, promised,
                   asked, written, ops>>

Crash(c) ==
    /\ Fault
    /\ pc[c] # "idle"
    /\ Forget(c)
    /\ UNCHANGED <<files, promised, written, ops>>

-------------------------------------------------------------------------------
Step(c) ==
    \/ StartAdd(c) \/ StartRead(c) \/ StartPrune(c)
    \/ List(c) \/ ReadItem(c) \/ Relist(c) \/ Exists(c) \/ Write(c)
    \/ DeleteItem(c) \/ Return(c)
    \/ FailCall(c) \/ FailWrite(c) \/ FailDelete(c) \/ Crash(c)

Next == \E c \in Client : Step(c)

Spec == Init /\ [][Next]_vars

(* The clients' own steps, which a running client takes (not its start,    *)
(* which is up to its user, and no fault).                                 *)
Progress(c) ==
    \/ List(c) \/ ReadItem(c) \/ Relist(c) \/ Exists(c) \/ Write(c)
    \/ DeleteItem(c) \/ Return(c)

FairSpec == Spec /\ \A c \in Client : WF_vars(Progress(c))

-------------------------------------------------------------------------------
(* Properties                                                              *)

(* What a client finds that lists and reads all the files now.             *)
Indexed == BlocksIn(files)

(* No index was ever written twice in two orders.  Merging is              *)
(* order-dependent, so this is not guaranteed; it is what the protocol     *)
(* silently relies on.                                                     *)
OneOrderOnly ==
    \A i, j \in written : i.blocks = j.blocks => i = j

(* Every block whose addToRemoteStoreIndex returned success, and that no   *)
(* prune dropped, is in some index file: no deletion of another client     *)
(* takes the last file that lists it (src/README.md:228, several clients   *)
(* upload in parallel).                                                    *)
NoLostBlocks == promised \subseteq Indexed

(* The same, in every history in which no index was written in two orders. *)
NoLostBlocksInOneOrder == OneOrderOnly => NoLostBlocks

(* A reader (readRemoteStoreIndex) returns an index with every block that  *)
(* was promised when it started and is not being pruned, even when files   *)
(* come and go between its listing and its reads.                          *)
ReadersSeePromised ==
    OneOrderOnly =>
        \A c \in Client : pc[c] = "got" => asked[c] \subseteq merged[c].blocks

(* Every add, prune and read returns: a retry is only ever caused by       *)
(* another client's progress, so the unlimited retries of                  *)
(* addToRemoteStoreIndex and readStoreStoreIndexWithItems end.             *)
CallsReturn == \A c \in Client : pc[c] # "idle" ~> pc[c] = "idle"

(* The index files implement the promise of a store index.  What a prune   *)
(* under way does not keep may go; nothing else may.                       *)
Kept == IF NoPrune THEN Block
        ELSE UNION {keep[c] : c \in {p \in Client : Busy(p, "prune")}}

Promise == INSTANCE IndexPromise WITH indexed <- Indexed, kept <- Kept

ImplementsPromise == Promise!Spec

(* While a client deletes the files it merged, and until its add returns,  *)
(* what it merged is listed by one file that is there: a crash in the      *)
(* middle of the deletions loses nothing.                                  *)
MergedIsStored ==
    OneOrderOnly =>
        \A c \in Client :
            pc[c] = "delete" /\ (left[c] # {} \/ Busy(c, "add")) =>
                \E f \in files : merged[c].blocks \subseteq f.blocks

(* A prune that is about to return success has its pruned index in the     *)
(* store (BlobObject.Write returns true only for a success,                *)
(* src/longtailstorelib/blobStore.go:29-35).                               *)
PrunedIndexIsStored ==
    \A c \in Client :
        Busy(c, "prune") /\ pc[c] = "delete" => merged[c] \in files
===============================================================================
