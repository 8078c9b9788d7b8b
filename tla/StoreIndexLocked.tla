--------------------------- MODULE StoreIndexLocked ---------------------------
(***************************************************************************)
(* The store index of a backend with write locking (GCS, the memory store, *)
(* and fsblob:// stores): src/remotestore/remotestore.go, with the         *)
(* LockWriteVersion and Write of src/longtailstorelib/gcsstore.go,         *)
(* memblobstore.go and fsstore.go.                                         *)
(*                                                                         *)
(* The index is one object, store.lsi.  A client that adds blocks notes    *)
(* the object's generation, reads it, merges its own blocks and writes the *)
(* result on the condition that the generation is still the noted one; if  *)
(* it is not, it starts over.  A prune reads the index, and then notes the *)
(* generation and writes.  In a store of the kind "object" the conditional *)
(* write is one atomic step.  In a store of the kind "file" it is done     *)
(* under a file lock, which the readers of the file take but its listers   *)
(* do not, in three steps: the file is truncated, filled, and its          *)
(* generation is written to a second file.                                 *)
(*                                                                         *)
(* Abstractions:                                                           *)
(*   - reads and version locks of a file are one step: the file lock keeps *)
(*     them apart from everything but listings;                            *)
(*   - a write that was cut short leaves no bytes or some of them;         *)
(*   - Prunes run while no upload does, as in StoreIndexUnlocked.          *)
(***************************************************************************)
EXTENDS StoreIndex

CONSTANTS
    Client,       \* the processes that use the store
    AddedIndex,   \* the indexes that uploads add
    KeptBlocks,   \* the sets of blocks that prunes keep
    Stores,       \* the kinds of store: "object" and "file"
    MaxOps,       \* bound: operations started
    MaxFaults     \* bound: calls that fail and clients that crash

ASSUME LockedAssumption ==
    /\ AddedIndex \subseteq Index
    /\ KeptBlocks \subseteq SUBSET Block
    /\ Stores \subseteq {"object", "file"}
    /\ MaxOps \in Nat /\ MaxFaults \in Nat

MaxErrors == 3 \* errorRetries == 3, remotestore.go:1319 and :1470

VARIABLES
    store,      \* the kind of store
    shape,      \* of store.lsi: "absent", "whole", or "empty" or "partial" in a write
    content,    \* the index it holds, or held before the write
    generation, \* of the object, or the number in store.lsi.gen; 0 for none
    holder,     \* the client that holds the file lock over several steps, if any
    op,         \* what each client is doing: "none", "add", "prune" or "read"
    pc,         \* its next step
    added,      \* the index it adds
    keep,       \* the blocks it keeps
    version,    \* the generation it noted
    merged,     \* the index it read, or writes
    errors,     \* errorRetries
    promised,   \* history: blocks whose add returned without an error, less the pruned
    asked,      \* history: what was promised when the client's read began
    writes,     \* history: how often the bytes of store.lsi were changed
    seen,       \* history: writes, when the client noted the generation
    cut,        \* history: some write to a file was left unfinished
    ops,        \* operations started so far
    faults      \* faults so far

objectVars == <<store, shape, content, generation, holder>>
clientVars == <<op, pc, added, keep, version, merged, errors>>
historyVars == <<promised, asked, writes, seen, cut>>
vars == <<objectVars, clientVars, historyVars, ops, faults>>

Phase == {"idle", "list", "read", "lock", "fetch", "write", "fill", "stamp", "got"}

TypeOK ==
    /\ store \in {"object", "file"}
    /\ shape \in {"absent", "whole", "empty", "partial"}
    /\ content \in Index
    /\ generation \in Nat
    /\ holder = {c \in Client : pc[c] \in {"fill", "stamp"}}
    /\ \A c, d \in holder : c = d
    /\ op \in [Client -> {"none", "add", "prune", "read"}]
    /\ pc \in [Client -> Phase]
    /\ added \in [Client -> Index]
    /\ keep \in [Client -> SUBSET Block]
    /\ version \in [Client -> Nat]
    /\ merged \in [Client -> Index]
    /\ errors \in [Client -> 0 .. MaxErrors - 1]
    /\ promised \subseteq Block
    /\ asked \in [Client -> SUBSET Block]
    /\ writes \in Nat
    /\ seen \in [Client -> Nat]
    /\ cut \in BOOLEAN
    /\ ops \in Nat /\ faults \in Nat

Init ==
    /\ store \in Stores
    /\ shape = "absent"
    /\ content = EmptyIndex
    /\ generation = 0
    /\ holder = {}
    /\ op = [c \in Client |-> "none"]
    /\ pc = [c \in Client |-> "idle"]
    /\ added = [c \in Client |-> EmptyIndex]
    /\ keep = [c \in Client |-> {}]
    /\ version = [c \in Client |-> 0]
    /\ merged = [c \in Client |-> EmptyIndex]
    /\ errors = [c \in Client |-> 0]
    /\ promised = {}
    /\ asked = [c \in Client |-> {}]
    /\ writes = 0
    /\ seen = [c \in Client |-> 0]
    /\ cut = FALSE
    /\ ops = 0
    /\ faults = 0

-------------------------------------------------------------------------------
(* Steps of a client                                                       *)

Busy(c, what) == op[c] = what

NoUpload == \A c \in Client : ~Busy(c, "add")
NoPrune  == \A c \in Client : ~Busy(c, "prune")

Goto(c, phase) == pc' = [pc EXCEPT ![c] = phase]

(* The client forgets everything: its call returned, or it crashed, which  *)
(* releases its file lock.                                                 *)
Forget(c) ==
    /\ holder' = holder \ {c}
    /\ op' = [op EXCEPT ![c] = "none"]
    /\ pc' = [pc EXCEPT ![c] = "idle"]
    /\ added' = [added EXCEPT ![c] = EmptyIndex]
    /\ keep' = [keep EXCEPT ![c] = {}]
    /\ version' = [version EXCEPT ![c] = 0]
    /\ merged' = [merged EXCEPT ![c] = EmptyIndex]
    /\ errors' = [errors EXCEPT ![c] = 0]
    /\ asked' = [asked EXCEPT ![c] = {}]
    /\ seen' = [seen EXCEPT ![c] = 0]

(* The call returns without an error.                                      *)
Succeed(c) ==
    /\ promised' = IF Busy(c, "add") THEN promised \cup added[c].blocks
                                     ELSE promised
    /\ Forget(c)

(* addToRemoteStoreIndex and tryOverwriteStoreIndexWithRetry start over,   *)
(* with a new BlobObject: an add merges anew, a prune keeps its index.     *)
Retry(c) ==
    /\ holder' = holder \ {c}
    /\ Goto(c, "lock")
    /\ merged' = [merged EXCEPT ![c] = IF Busy(c, "prune") THEN @ ELSE EmptyIndex]
    /\ version' = [version EXCEPT ![c] = 0]
    /\ seen' = [seen EXCEPT ![c] = 0]
    /\ UNCHANGED <<op, added, keep, asked>>

Start(c, phase) ==
    /\ pc[c] = "idle" /\ ops < MaxOps
    /\ ops' = ops + 1
    /\ Goto(c, phase)
    /\ UNCHANGED <<objectVars, version, merged, errors, writes, seen, cut, faults>>

StartAdd(c) ==
    /\ NoPrune
    /\ Start(c, "lock")
    /\ op' = [op EXCEPT ![c] = "add"]
    /\ \E index \in AddedIndex : added' = [added EXCEPT ![c] = index]
    /\ UNCHANGED <<keep, asked, promised>>

StartRead(c) ==
    /\ Start(c, "list")
    /\ op' = [op EXCEPT ![c] = "read"]
    /\ asked' = [asked EXCEPT ![c] = promised]
    /\ UNCHANGED <<added, keep, promised>>

(* What a prune does not keep is not promised any more.                    *)
StartPrune(c) ==
    /\ NoPrune /\ NoUpload
    /\ Start(c, "list")
    /\ op' = [op EXCEPT ![c] = "prune"]
    /\ \E blocks \in KeptBlocks :
          /\ keep' = [keep EXCEPT ![c] = blocks]
          /\ promised' = promised \cap blocks
          /\ asked' = [r \in Client |-> asked[r] \cap blocks]
    /\ UNCHANGED added

(* A reader or a prune has read the index.                                 *)
Got(c, index) ==
    /\ merged' = [merged EXCEPT ![c] =
                    IF Busy(c, "prune") THEN PruneTo(index, keep[c]) ELSE index]
    /\ Goto(c, IF Busy(c, "prune") THEN "lock" ELSE "got")

(* getStoreStoreIndexes.  It takes no file lock, and it skips a file of no *)
(* bytes as if it were not there.                                          *)
List(c) ==
    /\ pc[c] = "list"
    /\ \/ /\ shape \in {"absent", "empty"}
          /\ Got(c, EmptyIndex)
       \/ /\ shape \in {"partial", "whole"}
          /\ Goto(c, "read")
          /\ UNCHANGED merged
    /\ UNCHANGED <<objectVars, op, added, keep, version, errors, historyVars,
                   ops, faults>>

(* The file lock is free, as far as this store has one.                    *)
(* MUTANT of LockIsFree: nobody looks.                                     *)
NoLock == TRUE

LockIsFree == holder = {}

(* readStoreStoreIndexFromPath.  A file of no bytes counts as gone.        *)
Read(c) ==
    /\ pc[c] = "read" /\ LockIsFree
    /\ \/ /\ shape = "whole"
          /\ Got(c, content)
       \/ /\ shape = "empty"
          /\ Goto(c, "list")
          /\ UNCHANGED merged
    /\ UNCHANGED <<objectVars, op, added, keep, version, errors, historyVars,
                   ops, faults>>

(* The generation LockWriteVersion notes: none if the object is not there. *)
(* MUTANT of Noted: of an object that is there, too.                       *)
NotedNone == 0

Noted == IF shape = "absent" THEN 0 ELSE generation

Lock(c) ==
    /\ pc[c] = "lock" /\ LockIsFree
    /\ version' = [version EXCEPT ![c] = Noted]
    /\ seen' = [seen EXCEPT ![c] = writes]
    /\ IF Busy(c, "add") /\ shape = "absent"
       THEN merged' = [merged EXCEPT ![c] = added[c]]
       ELSE UNCHANGED merged
    /\ Goto(c, IF Busy(c, "add") /\ shape # "absent" THEN "fetch" ELSE "write")
    /\ UNCHANGED <<objectVars, op, added, keep, errors, promised, asked, writes,
                   cut, ops, faults>>

(* An add reads the object it noted the generation of, or a newer one.     *)
Fetch(c) ==
    /\ pc[c] = "fetch" /\ LockIsFree /\ shape = "whole"
    /\ merged' = [merged EXCEPT ![c] = Merge(content, added[c])]
    /\ Goto(c, "write")
    /\ UNCHANGED <<objectVars, op, added, keep, version, errors, historyVars,
                   ops, faults>>

(* The condition of the write holds.                                       *)
(* MUTANT of SameVersion: it is not checked.                               *)
AnyVersion(c) == TRUE

SameVersion(c) == generation = version[c]

(* The write is prevented by a version change: the client starts over.     *)
WriteRefused(c) ==
    /\ pc[c] = "write" /\ LockIsFree
    /\ ~SameVersion(c)
    /\ Retry(c)
    /\ UNCHANGED <<store, shape, content, generation, errors, promised, writes,
                   cut, ops, faults>>

(* An object store checks the condition and writes in one step.            *)
Put(c) ==
    /\ shape' = "whole"
    /\ content' = merged[c]
    /\ generation' = generation + 1
    /\ writes' = writes + 1

WriteObject(c) ==
    /\ store = "object"
    /\ pc[c] = "write" /\ SameVersion(c)
    /\ Put(c)
    /\ Succeed(c)
    /\ UNCHANGED <<store, cut, ops, faults>>

(* fsBlobObject.Write takes the file lock, compares the generations and    *)
(* truncates the file,                                                     *)
Truncate(c) ==
    /\ store = "file"
    /\ pc[c] = "write" /\ LockIsFree /\ SameVersion(c)
    /\ holder' = {c}
    /\ shape' = "empty"
    /\ writes' = writes + 1
    /\ Goto(c, "fill")
    /\ UNCHANGED <<store, content, generation, op, added, keep, version, merged,
                   errors, promised, asked, seen, cut, ops, faults>>

(* fills it,                                                               *)
Fill(c) ==
    /\ pc[c] = "fill"
    /\ shape' = "whole"
    /\ content' = merged[c]
    /\ Goto(c, "stamp")
    /\ UNCHANGED <<store, generation, holder, op, added, keep, version, merged,
                   errors, historyVars, ops, faults>>

(* and stores the new generation.                                          *)
(* MUTANT of NextGeneration: the generation stays as it is.                *)
SameGeneration(c) == version[c]

NextGeneration(c) == version[c] + 1

Stamp(c) ==
    /\ pc[c] = "stamp"
    /\ generation' = NextGeneration(c)
    /\ Succeed(c)
    /\ UNCHANGED <<store, shape, content, writes, cut, ops, faults>>

Return(c) ==
    /\ pc[c] = "got"
    /\ Succeed(c)
    /\ UNCHANGED <<store, shape, content, generation, writes, cut, ops, faults>>

-------------------------------------------------------------------------------
(* Faults                                                                  *)

Fault == /\ faults < MaxFaults
         /\ faults' = faults + 1

(* A failed attempt of an add, and of a prune that has its index, is       *)
(* repeated until the third error; an error while a prune or a reader      *)
(* reads the index is returned at once.                                    *)
Error(c) ==
    IF pc[c] \in {"list", "read"} \/ errors[c] + 1 = MaxErrors
    THEN Forget(c)
    ELSE /\ errors' = [errors EXCEPT ![c] = @ + 1]
         /\ Retry(c)

(* Half a file does not parse, nor does an empty one that an add reads.    *)
ParseError(c) ==
    /\ LockIsFree
    /\ \/ pc[c] = "read" /\ shape = "partial"
       \/ pc[c] = "fetch" /\ shape \in {"partial", "empty"}
    /\ Error(c)
    /\ UNCHANGED <<store, shape, content, generation, promised, writes, cut,
                   ops, faults>>

FailCall(c) ==
    /\ Fault
    /\ pc[c] \in {"list", "read", "lock", "fetch", "write"}
    /\ Error(c)
    /\ UNCHANGED <<store, shape, content, generation, promised, writes, cut, ops>>

(* gcsBlobObject.Write: the answer of a write, or of the update of its     *)
(* content type, is an error (gcsstore.go:184-200).                        *)
FailAnswer(c) ==
    /\ Fault
    /\ store = "object"
    /\ pc[c] = "write" /\ SameVersion(c)
    /\ Put(c)
    /\ Error(c)
    /\ UNCHANGED <<store, promised, cut, ops>>

(* An error of Close that is no version change is wrapped from a nil error *)
(* (gcsstore.go:192, :194): it looks like one, and counts as no error.     *)
FailSilently(c) ==
    /\ Fault
    /\ store = "object"
    /\ pc[c] = "write"
    /\ \/ UNCHANGED <<shape, content, generation, writes>>
       \/ SameVersion(c) /\ Put(c)
    /\ Retry(c)
    /\ UNCHANGED <<store, errors, promised, cut, ops>>

(* What a write that stops here leaves of the file.                        *)
CutShort(c) ==
    /\ cut' = (cut \/ c \in holder)
    /\ shape' \in IF pc[c] = "fill" THEN {"empty", "partial"} ELSE {shape}

(* An error in the middle of writing a file leaves it empty or torn, or    *)
(* without its new generation.                                             *)
FailFile(c) ==
    /\ Fault
    /\ pc[c] \in {"fill", "stamp"}
    /\ CutShort(c)
    /\ Error(c)
    /\ UNCHANGED <<store, content, generation, promised, writes, ops>>

Crash(c) ==
    /\ Fault
    /\ pc[c] # "idle"
    /\ CutShort(c)
    /\ Forget(c)
    /\ UNCHANGED <<store, content, generation, promised, writes, ops>>

-------------------------------------------------------------------------------
Progress(c) ==
    \/ List(c) \/ Read(c) \/ Lock(c) \/ Fetch(c) \/ WriteRefused(c)
    \/ WriteObject(c) \/ Truncate(c) \/ Fill(c) \/ Stamp(c) \/ Return(c)
    \/ ParseError(c)

Step(c) ==
    \/ StartAdd(c) \/ StartRead(c) \/ StartPrune(c)
    \/ Progress(c)
    \/ FailCall(c) \/ FailAnswer(c) \/ FailSilently(c) \/ FailFile(c) \/ Crash(c)

Next == \E c \in Client : Step(c)

Spec == Init /\ [][Next]_vars

(* A running client takes its own steps.  The bounds let the file lock be  *)
(* taken only so often, so that whoever waits for it gets it in the end.   *)
FairSpec == Spec /\ \A c \in Client : WF_vars(Progress(c))

-------------------------------------------------------------------------------
(* Properties                                                              *)

(* Nobody is in the middle of a write, nor was one left unfinished.        *)
Settled == holder = {} /\ ~cut

Indexed == IF shape = "whole" THEN content.blocks ELSE {}

(* Every block whose addToRemoteStoreIndex returned success, and that no   *)
(* prune dropped, is in store.lsi: no add is overwritten by another, even  *)
(* if answers are lost, errors come as version changes and clients crash   *)
(* (src/README.md:221).  A file store is asked between two writes.         *)
NoLostBlocks == Settled => promised \subseteq Indexed

(* A reader gets every block that was promised when it started, or, in a   *)
(* file store whose index is being written, nothing at all: it never gets  *)
(* an older index.                                                         *)
ReadersGetAllOrNothing ==
    \A c \in Client :
        pc[c] = "got" /\ ~cut =>
            \/ asked[c] \subseteq merged[c].blocks
            \/ store = "file" /\ merged[c] = EmptyIndex

(* A client's write changes the object.                                    *)
Overwrites(c) == pc[c] = "write" /\ pc'[c] # "write" /\ writes' # writes

(* "If the underlying file has changed between the LockWriteVersion call   *)
(* and a Write or Delete operation the operation will fail"                *)
(* (src/longtailstorelib/blobStore.go:18-19).                              *)
LockedWriteFailsIfChanged ==
    [][\A c \in Client : Overwrites(c) => seen[c] = writes]_vars

(* That is so as long as no write of a file was left unfinished.           *)
LockedWriteFailsIfChangedUncut ==
    [][\A c \in Client : Overwrites(c) /\ ~cut => seen[c] = writes]_vars

(* Every add, prune and read returns: only the progress of another client, *)
(* or a fault, makes one start over.                                       *)
CallsReturn == \A c \in Client : pc[c] # "idle" ~> pc[c] = "idle"

(* store.lsi implements the promise of a store index, until a write of a   *)
(* file is left unfinished.  What a prune under way does not keep may go.  *)
Kept == IF NoPrune THEN Block
        ELSE UNION {keep[c] : c \in {p \in Client : Busy(p, "prune")}}

Promise == INSTANCE IndexPromise WITH indexed <- content.blocks, kept <- Kept

ImplementsPromise ==
    Promise!Init /\ [][Promise!Next \/ cut']_(Promise!vars)
===============================================================================
