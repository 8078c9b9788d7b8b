# Golongtail: models, checks and proofs

TLA+ models of golongtail, the Go front end of Longtail: the block store of
`remotestore/`, on the blob stores of `longtailstorelib/`, as the commands of
`commands/` use it, and those commands themselves: what several of them, run at
the same time on one store by people who know nothing of each other, leave
behind. The modules are checked with TLC on small instances, and the two
protocols that keep the store index, the block fetches and the goroutines of a
store, and the commands are proved safe with TLAPS for every instance.

Paths below are those of the repository, under `src/`.

## 1. The system and its parts

A *store* holds *blocks*, one object each under `chunks/`, and a *store index*
that lists them. A *version* (a folder at some time) is an index file kept
elsewhere; it needs the blocks that hold its content. A block that is stored
but not in the store index is never found, and will be uploaded again; a block
that is in the index but not stored makes every version that needs it
unreadable. So the rules are: store a block before it is indexed, take it out
of the index before it is deleted, lose nothing that was reported uploaded.

| part | code | state | operations |
|---|---|---|---|
| store index, no locking | `remotestore.go` 1193-1296, 1368-1479, 1664-1790 | files `store_<sha256>.lsi` | add, overwrite (prune), read |
| store index, with locking | `remotestore.go` 1112-1191, 1332-1366; `gcsstore.go`, `memblobstore.go`, `fsstore.go` | `store.lsi`, its generation, a file lock | the same, by conditional writes |
| block fetches | `remotestore.go` 202-463 | map `prefetchBlocks`, `prefetchMemory` | get, preflight, flush |
| remote store | `remotestore.go` 465-575, 600-1110 | channels, cached index, announced blocks | put, get existing content, prune, flush, close |
| rebuild of the index | `remotestore.go` 1481-1634 | none | list the blocks, read them in batches, merge, add |
| blob stores | `longtailstorelib/` | objects with versions | exists, lock version, read, write, delete, list |
| uploads | `cmd_upsync.go`, `cmd_put.go`, `cmd_initremotestore.go`, `cmd_createversionstoreindex.go` | version indexes (`.lvi`), version local store indexes (`.lsi`), get-configs | query, put blocks, flush, write the files |
| clone-store | `cmd_clonestore.go` | a work folder and the index it keeps of it | for each version: change the folder, upload it |
| prunes | `cmd_prunestore.go`, `cmd_prunestore_index.go`, `cmd_prunestore_blocks.go` | a pool of goroutines and its results | gather the blocks in use, cut the index, delete |
| syncs | `cmd_downsync.go`, `cmd_get.go`, `cmd_unpack.go`, `folderscanner.go` | a folder and the cached index in it | read versions, learn what is there, change, validate, cache |
| C library | `longtaillib/` | | merges, prunes and splits indexes; block stores that cache, share and compress |

**How they interact.** A command opens a remote store and stacks the C
library's caching, compressing and sharing block stores on it. Every call
takes a completion object; the remote store puts a message in a channel, and a
worker goroutine, or the one content index worker, handles it and calls the
completion. Workers *announce* stored blocks to the content index worker
through a channel. `Flush` sends tokens through the workers and then to the
content index worker, which adds the announced blocks to the store index: the
remote calls of the first two rows. Several processes share a store and know
of each other only by what the blob store holds. The commands meet again in the
files beside the store: an upload writes the `.lvi` that a sync reads and a
prune keeps, and the `.lsi` that a prune trusts and may rewrite.

**What is hard.**

* *Processes*: two clients change the index at once, with no lock in S3, with
  a compare-and-swap in GCS and the memory store, and under a file lock around
  a write in several steps in the file store. A client can crash between any
  two remote calls, and a call can fail, or take effect and lose its answer.
* *Goroutines*: the workers drop the lock around the remote read of a fetch;
  `select` picks any ready channel; the ends of all goroutines are counted in
  one channel; `prune` makes the content index worker wait for the workers
  that send to it.
* *Partial failure*: an error left over from one message is the answer to a
  later one; an add that fails must not lose what it had collected; a version
  that cannot be read must stop a prune, whichever of two loops takes its error.
* *Commands that stop half way*: between the blocks, the index and the version
  file; while a folder is changed under a cached index; while clone-store's
  flush is under way.
* *State that is out of date*: an `.lsi` of an earlier upload, an index cached
  in a folder that something else changed, the index that a session or a prune
  read before others wrote it.

**What makes each part correct.**

* Store index: every block whose add returned success is found by every later
  reader until a prune drops it; every call returns.
* Version lock: a write fails if the object changed since the lock.
* Fetches: every get is answered exactly once; the memory kept for prefetched
  blocks is bounded.
* Remote store: the index lists stored blocks only; every successful put gets
  into the index; no send on a closed channel; every call returns.
* Uploads: a version file names blocks that are in the index, or is not written.
* Prunes: no block of a version that is listed is dropped, or the command fails;
  a dry run changes nothing.
* Syncs: success means the version is in the folder; a cached index is true; a
  version that was uploaded and not pruned can be had.
* clone-store: what it uploads as a version is what its folder holds.
* All commands: none waits for something that will not come.

Section 8 says which of these are not modelled yet. The full list of hazards,
with the line of each and the properties that cover it, is in `PROJECT.json`.

## 2. The modules

```
IndexPromise                     what a store index promises (abstract)
StoreIndex                       what an index is; merge, prune, create
  StoreIndexUnlocked             index files, no locking
    MCStoreIndexUnlocked
    StoreIndexUnlockedProofs     (with StoreIndexProofs; the refinement too)
  StoreIndexLocked               one store.lsi, conditional writes
    MCStoreIndexLocked
    StoreIndexLockedProofs       (with StoreIndexProofs)
PrefetchBlocks                   gets and prefetches of one store
  MCPrefetchBlocks
  PrefetchBlocksProofs
RemoteStore                      puts, queries, prunes, flush and close
  RemoteStoreProgress            why every call returns
    MCRemoteStore
    RemoteStoreProofs
VersionStore                     what the commands share: store and files
  UploadCommands, PruneCommands, CloneCommand, FolderCommands
    Commands                     all of them at work on one store
      CommandsProofs             types, folders, work folders, dry runs
        CommandsSafetyProofs     the store and the versions in it
      CommandsProgress           why every command comes to an end
        MCCommands
        CommandsProgressProofs   (with CommandsProofs)
```

**IndexPromise** has three variables: the blocks a reader finds, the blocks
whose upload was reported, and the blocks that may not be taken out (all of
them, or what a running prune keeps). Both protocols implement it: `indexed`
is the union of the index files, or the content of `store.lsi`.

**StoreIndex** treats an index as its blocks and their order. The order
matters: without locking a file is named by the hash of its bytes, and
`Longtail_MergeStoreIndex` keeps the order of its arguments, so that the same
blocks merged in two orders are two files. The library's source is not in the
repository; what is assumed of it is stated in the module.

**StoreIndexUnlocked.** One action per remote call of `tryAddRemoteStoreIndex`,
`tryOverwriteRemoteStoreIndexWithoutLocking`, `tryWriteRemoteStoreIndex` and
`readStoreStoreIndexWithItems`: list, read one file, list again, test for
existence, write, delete one file, return; and one per way to fail. The retries
of `addToRemoteStoreIndex` and of `tryOverwriteStoreIndexWithRetry` with their
error counts are in `Retry` and `Error`. `WriteErrorIsOk` is what distinguishes
S3 from a file or memory store without locking (finding 2).

**StoreIndexLocked.** One action per remote call again. `store` is "object"
(GCS, memory), where a conditional write is one step, or "file", where the
write truncates, fills, and stamps the generation into a second file, under a
lock that listings do not take. Answers can be lost, errors can come wrapped
from nil, a client can stop at any of the three steps of a file write.

**PrefetchBlocks.** Workers wait, fetch, prefetch, flush. The remote read is
between two actions (`Fetch` and `EndFetch`, `Prefetch` and `EndPrefetch`), so
everything can happen to the map in between.

**RemoteStore.** The goroutines of one open store as they are: the worker's
first `select`, which does not look at the flush channel (`Poll`), its second
one (`TakePut`, `DeleteBlock`, `TakeToken`, `Leave`), the one thing it still does
after it found `putBlockChan` closed (phase "last"), the store and the
announcement of a block; the same for the content index worker, with its cached
index, its leftover error and the deletions a prune waits for; the goroutine of
`Flush`; the two phases of `Close`. Its callers are those of the commands: they
wait for all answers before they flush or close, and for the flush before they
go on, except that clone-store may close during a flush. The index itself is
one step that succeeds or fails: that is the subject of the modules above.

**VersionStore.** A version maps assets to chunks, a block holds chunks, and a
name has three files: `.lvi`, `.lsi` and get-config. What the C library decides
is left open within what the code relies on: which blocks a query answers
(`Existing`), which of them are used enough to count (`WorthReusing`), how
missing chunks are packed into blocks (`Packings`). The store index changes in
one step, which is what IndexPromise allows and the two protocols implement;
files beside the store are written in one step. A process runs in a role, and
three history variables record what a promise may depend on: `overlapped` (a
prune ran beside an upload or another prune, against the caution in
`commands.go:30-32`), `disturbed` (the readers that a prune ran beside) and
`standing`, what was last done to each version: `good` if it was uploaded and
flushed, and otherwise why a prune, a clone or a flush may have left it without
blocks. A flush may be overtaken (`Overtaken`, section 7): of the blocks that were
announced, any may stay out of the index until the next flush or `Close`.
Nothing is excluded by them: the behaviours go on, with fewer promises.

**UploadCommands.** One process per command, one action per store call or
file write: query, each block, flush, version index, `.lsi`, close (which adds
what is still announced, also after an error), get-config. `init-remote-store`
lists, reads block by block and adds what it could read.

**PruneCommands.** The gather loop with its pool: the loop takes one result
when the pool is full (`TakeWhenFull`), starts a goroutine (`LaunchPruneOne`),
takes what is ready (`TakeReady`), and waits for the rest (`TakeLast`); a
goroutine reads its version by the `.lsi` or by the store, validates, skips,
rewrites the `.lsi`, and sends its result, in one action, as it shares no file
with another. Then the prune of the store (index first, blocks after, errors
dropped) or of an index file. `prune-store-blocks` reads the index beside
listing the block files.

**CloneCommand.** The loop over versions: change the work folder from the
source store, or unzip and scan; query in one session, whose index may be behind
what it flushed (finding 5); put; flush in the background while the version
index is written (`StartFlush`, `EndFlush`, `WriteCloned`, `WaitFlush`). What a
flush overtook is `late`: the next query may be answered with it, and the next
flush, or the close, adds it.

**FolderCommands.** A sync merges the versions it is given, learns what the
folder holds by a scan, a given index, a cached one or not at all, asks for the
blocks, deletes the cached index, changes asset by asset, validates, and writes
the cached index, which may be cut short. Users edit the folder in between
(`EditFolder`). `misled`, `outdated` and `excused` record that a sync was told
something that was not so.

**Commands** composes them on one store. A *scenario* gives the processes that
take part, the blocks, index, files and folder at the start, and the bounds.

**RemoteStoreProgress, CommandsProgress** state why calls return and commands
end, as safety: the guards of the steps in which nothing fails (`WorkerGoesOn`,
`UploadHasStep`, ...), one of which always holds, and a measure of what is left to
do (`WorkLeft`, `UploadLeft`, ...), which each step lowers.

The map from every definition to the lines it stands for is in `PROJECT.json`.

## 3. The runs

| run | instance | shows |
|---|---|---|
| `unlocked_uploads` | 3 clients, 2 blocks, 4 operations, 1 fault | while no index is written in two orders: nothing lost, readers see all, deletions are covered |
| `unlocked_prune` | 2 clients, 2 blocks, 4 operations, 1 fault | uploads and prunes implement the promise; every call returns; a prune that reports success has stored its index |
| `unlocked_reorder` | 3 clients, 2 blocks, 7 uploads, no fault | **violation**, finding 1 |
| `unlocked_s3_write_error` | 2 clients, 2 blocks, S3's `Write` | **violation**, finding 2 |
| `locked` | 2 clients, 2 blocks, 4 operations, 2 faults, both kinds of store | nothing lost, readers get all or nothing, the version lock works until a write is cut short, promise implemented, calls return |
| `prefetch` | 2 workers, 2 blocks, 2 gets, limit 1, 3 preflights, 1 flush | gets answered once, no nil entry used, memory bounded |
| `prefetch_two_waiters` | 2 workers, 1 block, 2 gets | **violation**, finding 3 |
| `remotestore` | 2 workers, 2 blocks, channels of 1, 1 query, 1 flush, 1 prune, 1 failure | index within stored blocks, puts reach it, Close is safe, calls return: some goroutine always goes on, and each step leaves them less to do |
| `remotestore_exists_error` | the same, one failing `Exists` | **violation**, finding 4 |
| `remotestore_stale_cache` | the same, no failure | **violation**, finding 5 |
| `commands` | 11 scenarios of 1 to 3 processes, 2 names, 2 assets, 2 chunks, 3 blocks; 1 to 3 commands and up to 2 faults each; pool of 1 | versions not pruned stay restorable, listed blocks are stored, folders and cached indexes are what they are said to be, syncs find their blocks, dry runs change nothing; a command at work always has a step, and each leaves it less to do |
| `prune_dropped_error` | 1 upload and 1 prune of 2 listed versions, pool of 1, no fault | **violation**, finding 6 |

**Why the bounds are enough for what they show.** Two clients are enough for
every race between a reader or an adder and a deleter, and three for the one
that needs a third to delete the second's file (finding 1). Two blocks make
indexes that are equal, contained in one another and incomparable. Four
operations let one client finish and start again beside a slow one; one fault
puts a crash or a failed call anywhere. Two workers let one take both flush
tokens, and be overtaken in a remote read. Channels of capacity one are full at
once, so every send that can block does. For the commands, two chunks in three
blocks (each alone, and both together) let a chunk be held by two blocks, be
shared by two versions, and be packed in two ways; three versions differ by an
asset that is added and by one that moves; a store begins empty, with one
version, or with two. A pool of one is full at once, which is when the gather
loop takes its other path, and a list of two versions goes through it twice. Two
commands meet in every order of their calls, three where a sync runs between an
upload and a prune; one fault, or two where a flush and a write both matter,
puts a failed call, an overtaken flush or a crash anywhere. `starts` and `faults`
bound that. The counters `ops`, `faults`, `asked`,
`flushes` and `prefetches` appear only in guards that bound the run, and every
bound is a constant of its module. Wherever the proofs reach (section 5), the
bounds do not matter.

**Initial states.** The index modules start from an empty store. The commands
start from a store that finished uploads may have left, with or without blocks
that an upload stored before it crashed (`Plausible`). RemoteStore
starts from any set of stored blocks that the run gives it and any subset of
them indexed, with any workers but one, or the content index worker, without a
client.

**Symmetry** is used where no liveness property is checked, over clients only.

`CHECK_DEADLOCK FALSE` is set everywhere: clients and users stop when they have
no more operations to start, and a closed store stays closed. That none is stuck
is checked by properties instead: `EveryoneHasAStep` for the commands,
`SomebodyGoesOn` for the goroutines of a store, the liveness properties for the
others.

## 4. Fairness

Each client, or each goroutine, has weak fairness on its own progress: a
process that runs goes on, and the Go scheduler gives every runnable goroutine
its turn. Nothing obliges a user to start an operation, and no fault is fair.
`WF` of the disjunction of a goroutine's steps, not of each, leaves the choice
in a `select` free: a worker may take what it likes, for ever if there is
always something. In StoreIndexLocked the file lock is taken only finitely
often within the bounds, so weak fairness is enough for whoever waits for it;
beyond them, the polling lock of `fsstore.go` promises nothing.
RemoteStore assumes that one worker at least has a client; with none, `Flush`
never returns, by the shape of the code. Nor may a flush that the store was
closed on.

The commands have no fairness: that each of them ends is two safety properties.
A command that runs has a step to take in which no call fails
(`EveryoneHasAStep`), and each of its steps leaves it less to do
(`NobodyGoesRound`), so that it ends if only it is scheduled. The same two for the
goroutines of a store, `SomebodyGoesOn` and `WorkRunsOut`, are what
`EveryCallReturns` rests on: when the callers call no more, the goroutines come
to rest, and they rest only when all calls have returned. All four are proved
(section 5); the last inference, from both and from weak fairness to the temporal
formula, is what TLC checks.

## 5. What is proved

`tlapm` checks every theorem of the eight proof modules to the last leaf, for
any sets of blocks, clients and workers, any added indexes and kept sets, any
capacities and any bounds; for the commands, for any processes, requests,
versions, names, chunks and packings, pools of any size, and any scenario. The
only assumptions are the named ones of `StoreIndexUnlocked`, `StoreIndexLocked`,
`PrefetchBlocks`, `RemoteStore`, `VersionStore`, `UploadCommands`,
`PruneCommands`, `CloneCommand`, `FolderCommands` and `Commands` on their
constants, such as that there is a worker and that there are finitely many,
that missing chunks can be packed, that a list names no version twice, that
processes are told apart and that a scenario is `Plausible`; and, for the
measures only, that there are finitely many blocks and assets
(`BlocksAreFinite`, `FinitenessAssumption`): blocks are named by hashes of 64
bits, and a folder has finitely many paths. TLC evaluates them in every run.

**The unlocked index.** `NoLostBlocks` is not inductive: when a client deletes
a file it merged, one must know that some file lists what that one listed. The
inductive invariant `IInv` (`Invariance`) has two layers.

* `Structure` holds always: types; each operation at a step of its own; a prune
  alone with the promised blocks in what it keeps; a client deletes only what it
  listed; what an adder has listed and read is in what it merged; only written
  indexes are files.
* `Cover` holds as long as no index was written in two orders
  (`OneOrderOnly`): promised blocks are in the files; every file that an adder
  listed, and what it merged once it deletes, is *covered*, that is, listed in
  full by one file that is there; a prune or a reader has merged, or has still
  to read, everything it must find.

The key step is the deletion of a file that covers something. The deleter had
merged that file, so the file that covers what the deleter merged covers it
too. That is another file: if it were the deleted one, this file would list
exactly the blocks that the deleter merged, so by `OneOrderOnly` it would be
the deleter's own file, which it does not delete. The condition is needed:
finding 1 is what happens without it. From `IInv` follow
`PromisedBlocksAreIndexed`, `ReadersFindPromised` and `DeletionsAreSafe`;
`PrunesAreWritten` needs `~WriteErrorIsOk`, and finding 2 shows that it does.

**The locked index.** The invariant (`Invariance`) relates generations to a
history count of writes: while no file lock is held, the generation is the
number of writes; a client that has noted a generation noted the number of
writes at that time; a client whose noted number is still the number of writes
has read the content that is there. So a conditional write that succeeds
replaces the content that was merged. All of this holds until a write to a file
is left unfinished (`~cut`), and section 7 shows why the condition is needed.
From it follow `PromisedBlocksAreIndexed`, `ReadersGetPromised` and
`VersionLockWorks`.

**The refinements.** `UnlockedImplementsPromise` and `LockedImplementsPromise`
show that each step is a step of IndexPromise or changes none of its variables.
The invariants above are not enough: a prune must not take out a block it keeps
that was indexed but not promised (an upload that crashed before its return).
The second inductive invariants `PruneSees` say that the index a prune is about
to write has every block it keeps that is in the store. The first theorem is
about the behaviours in which `OneOrderOnly` always holds, the second about
each behaviour up to the first write that is cut.

**Block fetches.** `NoGetIsForgotten` says where a get is, and is not inductive:
a get that left its callback with an entry is lost if the reader of that entry
finds it flushed, or serves others of several waiters. The invariant
(`Invariance`) has four parts besides the types.

* `Apart`: a get is in the channel, with an entry or in the hand of a worker,
  in one of these, once, and not answered yet. So an answer is the first one
  (`AnsweredOnce`), whoever calls the store.
* `Attended`: nobody waits at an entry that has its block or an error, and an
  entry that has neither has a worker whose read is under way. So a get that
  joins an entry has somebody who comes back to it.
* `Kept`, for quiet callers: while a flush or a close is under way no get is
  out, and no two gets of one block are. The first is why an entry is there when
  its reader returns (`NeverPanics`): the reader's get is out, so no flush came
  between. The second is why those who wait at an entry are one get at most,
  which the loop of finding 3 does serve.
* `Counted`: `prefetchMemory` covers what is kept; and with one more for each
  worker that saw room and has still to add its block, it is below the limit
  plus the number of workers. `MemoryIsBounded` alone is not inductive, because
  all workers may have seen the same room.

**The remote store.** That the index lists stored blocks only is not inductive
either: a block is deleted by a worker long after the content index worker wrote
the index without it. The invariant (`Invariance`) says what a prune relies on
meanwhile: while it waits, the index has only blocks it keeps, none of those it
sends for deletion is one, and it counts what is in the channel (`Deletions`);
no put is under way in the same session (`Apart`); the index it prunes from is
not behind the store's (`Cached`). `Stored` then follows what is listed through
the workers, the channel, the announced blocks and the cached index; it has the
condition that `Exists` does not fail in an upload, and finding 4 shows why.
From the invariant follow `IndexedBlocksAreStored`, `AnswersAreStored`,
`KeptIsKept` and, together with the property itself, `PutsArrive`.
`WorkersEndFirst` and the counts in `TypeCorrect` rest on a second invariant:
while `Close` counts ends, there are as many as workers that are gone
(`Counted`), and a flush hands out as many tokens as it gets replies
(`Tallies`).

**The remote store: no deadlock, and an end** (`NoDeadlock`, `WorkIsFinite`). The
goroutines could wait for one another in several circles: workers for room in
`blockIndexChan`, the content index worker for the deletions that workers make, a
flush for its tokens, `Close` for all ends. `CallsAreHeld` says where what is out
is: a put in the channel or with a worker, of which one is left while the store
is open; a flush without its token is owed a reply; nothing is out after a close.
With the invariants above (`Healthy`) the argument goes round: the content index
worker takes announcements at every stage but "deletes", where no put is under
way, so no worker waits for room; a worker that does not wait for room takes puts
and deletions, so the content index worker does not wait for those; what is then
still out is a flush or a close, whose counts are complete.

`WorkLeft` weighs each message by the steps that it still costs, a put by the six
of its way through a worker, the channel and the content index worker, a prune by
three for each block that it may delete. It is a natural number (`WorkIsCounted`),
and every step of a goroutine lowers it, also one whose remote operation fails;
only a caller's call raises it. A goroutine that polls and finds nothing ready
does not poll again before it took a message, which is why its phase is weighed.

**The commands: types, folders, dry runs** (`CommandsProofs`). `TypesInv` adds
to the types that the jobs and results of a gather are finite sets, without
which `Cardinality` in the type of the pool says nothing, and that a loop that
takes the next version has one. `FolderInv` is needed for `CacheIsTrue` and
`SyncedIsVersion`: it says, of each phase of a sync, what it *knows* (`Knows`):
that the index it goes by is the folder's unless it was misled, that all assets
but those left to change are those of the version, that a caching sync has
deleted the cached index before it changes anything. After a validation it knows
the same whether it was misled or not. `WorkInv` says that clone-store's index
is that of its work folder also before each change, which is why a change of
the assets in which two indexes differ makes the folder the new version.
`DryInv` says that a dry run never gets to the phases that write: it ends after
the gather, and `prune-store-blocks` has nothing to delete.

**The commands: the store** (`CommandsSafetyProofs`). That a version file can be
restored depends on the commands at work, so the invariant `SafeInv` has a part
for each of them and a part for what is published.

* `Roles`: every command at work is in `running` with its role, and as long as
  nothing overlapped, a prune that runs is the only one that writes (`Alone`).
  So what a prune read of the store is still so when it writes.
* `UploadSafe`, `CloneSafe`: what was announced is stored; what the version
  needs is in the blocks found, which are indexed and stored, and those made,
  which are stored when the flush begins and indexed, or announced still, when
  the version index is written. Clone-store's are so only once the flush is waited
  for. A version gets the standing `good` when nothing is announced still.
* `PruneSafe`: a version on the list is still to come, or is looked at by a
  goroutine, or has its result in the channel, or is in what the loop keeps, or
  had its error dropped, or the gather fails: the loop forgets none. Blocks that
  are to be deleted are not in the index.
* `Published`: the index lists stored blocks, and a version that is `good` is
  restorable.

The conditions are needed: without `~overlapped` a prune can delete what an
upload was told is there, and the standings `dropped` and `stale` are findings.
From `SafeInv` follow `ListedIsStored` and `PublishedIsRestorable`.
`UploadedCanBeHad` needs more (`HadInv`): while a sync that nothing disturbed
is at work, no prune runs, so the blocks that it planned with stay in the index
and, by `SafeInv`, in the store, and they hold all that is left to change.

**The commands: an end** (`CommandsProgressProofs`). `NobodyStuck` needs of each
phase that what it goes by is there (`MovesInv`, with the types): who queries has a
version, a prune of an index file has read it, a clone that waits has a flush that
runs or has ended, and clones put blocks only when the last flush is over. A gather
loop that waits has a goroutine or a result to wait for, for `Active`, the number
it goes by, counts both. Every query has an answer and every set of missing chunks
a packing (`AnswerExists`, `UploadExists`). `NobodyCircles` is about the pairs
<<stage, rest>>: a step goes to a later stage, or stays and takes something away,
as a block to store, a version to gather, an asset to change, or for clone-store a
version of its list with all its stages. A version costs the gather loop four
steps, of which the last takes it back from "drain", so that both ways in which
the loop takes a result lower the count. `LeftIsCounted` says that the pairs are
pairs of natural numbers, and `NoEndlessDescent` that these have no endless
descent.

## 6. What is only model-checked

Every invariant and action property that a passing run checks is also a theorem.
Liveness is not: `CallsReturn`, `GetsAreAnswered` and `EveryCallReturns` are out of
the prover's reach, and TLC checks them on the instances of section 3. What
`EveryCallReturns` rests on is proved (section 4). `NoLostBlocks` of the unlocked
index is false (finding 1); its theorem, `NoLostBlocksInOneOrder`, has the
condition that the finding shows to be needed. That `EveryoneHasAStep` and
`SomebodyGoesOn` speak of the guards of the actions is by reading: ENABLED, which
would say it, is beyond the prover.

## 7. Findings

1. *Blocks lost without locking.* `tryWriteRemoteStoreIndex`
   (`remotestore.go:1212-1256`) decides by the name of a file whether the index
   is there already. Because a merge depends on the order of its inputs, three
   clients that upload at the same time can leave a reported block in no index
   file (`unlocked_reorder`).
2. *A failed S3 write counts as a success.* `s3Store.go:171` returns
   `(true, err)` and `tryOverwriteStoreIndexWithRetry` looks at the first only;
   a prune then deletes blocks that are still indexed (`unlocked_s3_write_error`).
3. *The last of several waiters is never answered.* The loop at
   `remotestore.go:398` stops before it (`prefetch_two_waiters`). Behind a share
   block store there is never more than one waiter, and `prefetch` shows that
   gets are answered then.
4. *A block that was never stored gets indexed.* `remotestore.go:145` takes an
   error of `Exists` for "exists" (`remotestore_exists_error`).
5. *Flushed blocks are not found.* The first add to a store with locking returns
   no index (`remotestore.go:1190`), and the content index worker keeps the one
   it had cached (`remotestore.go:858-862`): in a session that asked before it
   put, later queries miss what was flushed (`remotestore_stale_cache`). Nothing
   is lost, but clone-store puts the same content again for the next version.
6. *A prune deletes the blocks of a version whose error it dropped.* While the
   pool is full, the gather loop takes a result without looking at its error
   (`cmd_prunestore.go:187-196`, `cmd_prunestore_index.go:131-140`); the help of
   `--skip-invalid-versions` says that the command aborts
   (`prune_dropped_error`).

Met while modelling, and in the models, but not the subject of a run of their
own:

* A file store writes the generation after the content (`fsstore.go:266-277`).
  A client that stops in between leaves new content under the old generation,
  and the next conditional write of another client succeeds that should fail.
  `LockedWriteFailsIfChangedUncut` and the theorems on the locked index have the
  condition `~cut` for it; `LockedWriteFailsIfChanged`, without it, is false.
* A flush can be overtaken. The content index worker looks at its channels in
  one `select` that does not see the flush token, and then in one that does
  (`remotestore.go:774-842`, `:843`). If it is held up between the two, while
  workers announce blocks and a flush comes, both are ready in the second, and it
  may take the token: the flush reports success, and the blocks get into the index
  with the next flush or at `Close`. The test at `remotestore_test.go:206-218`
  puts six blocks, flushes, and expects to find all six. In RemoteStore this is an
  interleaving like others, and `PutsReachIndex` says that such blocks are not
  lost; in the models of the commands a version that is written on such a flush has
  the standing `unflushed`, since a crash before `Close` leaves it without blocks.
* A prune trusts an `.lsi` that validates against its version without asking
  the store, also with `--validate-versions` (`cmd_prunestore.go:40-57`). An
  `.lsi` of an earlier upload can list blocks that are gone, and the blocks that
  replaced them are dropped (standing `stale`).
* clone-store writes the version index before its flush is waited for
  (`cmd_clonestore.go:482`): a crash in between leaves a version without blocks
  (standing `unflushed`).
* clone-store passes the arguments of `validateOneVersion` in the wrong order
  (`cmd_clonestore.go:398` against `:21`), and never skips a version that is
  there.
* A failed prune looks like one that found nothing (`longtailutils.go:50`), and
  `prune-store-blocks` reports success when it cannot read the index
  (`cmd_prunestore_blocks.go:111`).
* A cached index that is cut short while it is written (`cmd_downsync.go:459`)
  makes every later caching sync of that folder fail (`cmd_downsync.go:240`).

## 8. Not modelled, and the plan

Not modelled on purpose: the C library and its bindings in `longtaillib/` (its
source is not in the repository; what the code relies on is in `StoreIndex` and
VersionStore), argument parsing, progress bars, statistics, reports, path
filters (a sync has a set of hidden assets for them), `pack`, `cp`, `ls`,
`validate-version` and the print commands, which read and report, and leave
nothing that another command goes by. Of what is modelled, left out are the
local block cache of a sync, which is a block store of the C library; how an
archive is read; the retries of `ReadBlobWithRetry`; and the batches in which a
rebuild reads blocks, which are reads in any order.

What is left of the plan:

* **BlobObjects** (`longtailstorelib/`): the backends against the contract of
  `blobStore.go` 9-41, with the torn writes of the file backend: an empty
  `store_<sha256>.lsi`, a generation file cut short (`fsstore.go:158`).
* Preflights through the content index worker into a bounded
  `prefetchBlockChan` (`remotestore.go:614`), and put and prune in one session.
* The store index of VersionStore as an instance of IndexPromise, so that the
  step from the protocols to the commands is a theorem and not an argument.
* That a version written on an overtaken flush is `good` again once the store was
  closed without a fault: the standing stays `unflushed`, which promises less than
  the code does.
