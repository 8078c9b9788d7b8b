---------------------------- MODULE PruneCommands ----------------------------
(***************************************************************************)
(* The commands that take blocks out of a store:                           *)
(*   prune-store          src/commands/cmd_prunestore.go                   *)
(*   prune-store-index    src/commands/cmd_prunestore_index.go             *)
(*   prune-store-blocks   src/commands/cmd_prunestore_blocks.go            *)
(*                                                                         *)
(* The first two gather the blocks in use with a pool of goroutines, one   *)
(* for each version in the list of the user, and a loop that starts them   *)
(* and takes their results; the code is written twice, and is the same.    *)
(* The third reads a store index file while it lists the block files, and  *)
(* deletes those that are not in the index.                                *)
(*                                                                         *)
(* A goroutine of the pool reads and writes the files of its own version   *)
(* only, so all that it does is one step.  The order in which results wait *)
(* in the channel is not kept.                                             *)
(***************************************************************************)
EXTENDS VersionStore

CONSTANTS
    Pruner,   \* processes
    Prune,    \* what users may ask for
    PoolSize  \* workerCount of the gather loop

VARIABLE pr   \* the command of each process

PruneKind == {"store", "index", "blocks"}

PruneRequest ==
    [kind : PruneKind,
     list : Seq(Name),    \* source-paths
     local : BOOLEAN,     \* version-local-store-index-paths is given
     rewrite : BOOLEAN,   \* write-version-local-store-index
     validate : BOOLEAN, skip : BOOLEAN, dryRun : BOOLEAN]

ASSUME PruneAssumption ==
    /\ Prune \subseteq PruneRequest
    /\ \A r \in Prune : \A i, j \in 1 .. Len(r.list) : r.list[i] = r.list[j] => i = j
    /\ PoolSize \in Nat \ {0}

PruneResting == {"idle", "done", "failed"}

PrunePhase ==
    PruneResting \cup {"index", "next", "drain", "final", "prune", "scan", "delete"}

IdlePrune ==
    [at |-> "idle",
     ask |-> [kind |-> "store", list |-> <<>>, local |-> FALSE, rewrite |-> FALSE,
              validate |-> FALSE, skip |-> FALSE, dryRun |-> FALSE],
     todo |-> <<>>, jobs |-> {}, results |-> {}, used |-> {}, err |-> FALSE,
     index |-> NoFile, listed |-> NoFile, doomed |-> {}, dropped |-> {}, stale |-> {}]

Result == [name : Name, ok : BOOLEAN, blocks : SUBSET Block]

PruneState ==
    [at : PrunePhase,
     ask : Prune \cup {IdlePrune.ask},
     todo : Seq(Name),         \* versions the loop has not come to
     jobs : SUBSET Name,       \* versions that a goroutine looks at
     results : SUBSET Result,  \* resultChannel
     used : SUBSET Block,      \* usedBlocks
     err : BOOLEAN,
     index : {NoFile} \cup SUBSET Block,   \* the store index it read
     listed : {NoFile} \cup SUBSET Block,  \* the block files it listed
     doomed : SUBSET Block,    \* blocks it has still to delete
     dropped : SUBSET Name,    \* history: versions whose error was dropped
     stale : SUBSET Name]      \* history: versions kept by a stale .lsi

PruneTypeOK ==
    /\ pr \in [Pruner -> PruneState]
    /\ \A p \in Pruner : Cardinality(pr[p].jobs) + Cardinality(pr[p].results) <= PoolSize

PruneInit == pr = [p \in Pruner |-> IdlePrune]

PruneAt(p, phase) == pr[p].at = phase

PruneGoes(p, phase) == pr' = [pr EXCEPT ![p].at = phase]

PruneEnds(p, phase) == pr' = [pr EXCEPT ![p] = [IdlePrune EXCEPT !.at = phase]] /\ End(p)

StartPrune(p) ==
    \E r \in Prune :
        /\ pr[p].at \in PruneResting
        /\ Begin(p, "prune")
        /\ pr' = [pr EXCEPT ![p] =
               [IdlePrune EXCEPT
                   !.ask = r, !.todo = r.list,
                   !.at = CASE r.kind = "blocks" -> "scan"
                            [] r.kind = "index" -> "index"
                            [] OTHER -> IF r.list = <<>> THEN "final" ELSE "next"]]
        /\ UNCHANGED <<fileVars, standing, faults>>

\* prune-store-index reads the index file before it gathers.
ReadPrunedIndex(p) ==
    /\ PruneAt(p, "index")
    /\ \/ /\ pr' = [pr EXCEPT ![p] = [@ EXCEPT !.index = indexed,
                              !.at = IF pr[p].todo = <<>> THEN "final" ELSE "next"]]
          /\ NoFault /\ GoOn
       \/ Fault /\ PruneEnds(p, "failed")
    /\ UNCHANGED <<fileVars, standing>>

-----------------------------------------------------------------------------
(* gatherBlocksToKeep, gatherBlocksToKeepFromStoreIndex *)

\* Goroutines whose result was not taken.
\* MUTANT of Active: one that has sent its result does not count.
ActiveAtWork(p) == Cardinality(pr[p].jobs)

Active(p) == Cardinality(pr[p].jobs) + Cardinality(pr[p].results)

Used(p, r) == IF r.ok THEN pr[p].used \cup r.blocks ELSE pr[p].used

\* With a goroutine for each worker, the loop waits for one to end.  Here it
\* does not look at the error of the result (cmd_prunestore.go:187-196).
TakeWhenFull(p) ==
    /\ PruneAt(p, "next")
    /\ Active(p) = PoolSize
    /\ \E r \in pr[p].results :
        pr' = [pr EXCEPT ![p] = [@ EXCEPT
            !.results = pr[p].results \ {r}, !.used = Used(p, r),
            !.dropped = IF r.ok THEN pr[p].dropped ELSE pr[p].dropped \cup {r.name}]]
    /\ GoOn /\ UNCHANGED <<fileVars, standing, faults>>

LaunchPruneOne(p) ==
    /\ PruneAt(p, "next")
    /\ Active(p) < PoolSize
    /\ pr' = [pr EXCEPT ![p] = [@ EXCEPT !.at = "drain",
           !.jobs = pr[p].jobs \cup {Head(pr[p].todo)}, !.todo = Tail(pr[p].todo)]]
    /\ GoOn /\ UNCHANGED <<fileVars, standing, faults>>

\* Then it takes the results that are there, without waiting.
TakeReady(p) ==
    /\ PruneAt(p, "drain")
    /\ \E r \in pr[p].results :
        pr' = [pr EXCEPT ![p] = [@ EXCEPT
            !.results = pr[p].results \ {r}, !.used = Used(p, r), !.err = pr[p].err \/ ~r.ok]]
    /\ GoOn /\ UNCHANGED <<fileVars, standing, faults>>

\* MUTANT of NoneReady: the loop does not see that it was the last version.
NoneReadyUnended(p) ==
    /\ PruneAt(p, "drain")
    /\ pr[p].results = {}
    /\ PruneGoes(p, IF pr[p].err THEN "final" ELSE "next")
    /\ GoOn /\ UNCHANGED <<fileVars, standing, faults>>

NoneReady(p) ==
    /\ PruneAt(p, "drain")
    /\ pr[p].results = {}
    /\ PruneGoes(p, IF pr[p].err \/ pr[p].todo = <<>> THEN "final" ELSE "next")
    /\ GoOn /\ UNCHANGED <<fileVars, standing, faults>>

TakeLast(p) ==
    /\ PruneAt(p, "final")
    /\ \E r \in pr[p].results :
        pr' = [pr EXCEPT ![p] = [@ EXCEPT
            !.results = pr[p].results \ {r}, !.used = Used(p, r), !.err = pr[p].err \/ ~r.ok]]
    /\ GoOn /\ UNCHANGED <<fileVars, standing, faults>>

\* MUTANT of GatherFails: a version that could not be read counts as unused.
GatherGoesOn(p) == FALSE

GatherFails(p) == pr[p].err

EndGather(p) ==
    /\ PruneAt(p, "final")
    /\ Active(p) = 0
    /\ IF GatherFails(p) THEN PruneEnds(p, "failed")
       ELSE IF pr[p].ask.dryRun THEN PruneEnds(p, "done")
       ELSE PruneGoes(p, "prune") /\ GoOn
    /\ UNCHANGED <<fileVars, standing, faults>>

\* A goroutine sends its result, and is no longer at work.
\* MUTANT of Sends: it stays, and sends it again.
SendsAgain(p, n, ok, blocks) ==
    [pr[p] EXCEPT !.results = @ \cup {[name |-> n, ok |-> ok, blocks |-> blocks]}]

Sends(p, n, ok, blocks) ==
    [pr[p] EXCEPT !.jobs = @ \ {n}, !.results = @ \cup {[name |-> n, ok |-> ok, blocks |-> blocks]}]

\* readPruneVersion found the .lsi: its blocks are kept if they are enough for
\* the version.  The store is not asked, whatever validate-versions says.
PruneOneByLocalIndex(p, n) ==
    LET lsi == localIndex[n] IN
    /\ n \in pr[p].jobs
    /\ versionFile[n] # NoFile
    /\ pr[p].ask.local /\ ~pr[p].ask.rewrite /\ lsi # NoFile
    /\ pr' = [pr EXCEPT ![p] =
           [Sends(p, n, Validates(lsi, versionFile[n]), lsi) EXCEPT
               !.stale = IF Validates(lsi \cap indexed, versionFile[n]) THEN @ ELSE @ \cup {n}]]
    /\ GoOn /\ UNCHANGED <<fileVars, standing, faults>>

\* MUTANT of RewritesIndex: in a dry run too.
RewritesAlways(p) == pr[p].ask.local /\ pr[p].ask.rewrite

RewritesIndex(p) == pr[p].ask.local /\ pr[p].ask.rewrite /\ ~pr[p].ask.dryRun

\* Otherwise, or when the .lsi cannot be read, the blocks are those the store
\* has for the version.  The read-only store of prune-store reads its index at
\* the first query, and keeps it.
PruneOneByStore(p, n) ==
    LET v == versionFile[n]
        index == IF pr[p].index = NoFile THEN indexed ELSE pr[p].index
        Keeps(ok, blocks) ==
            pr' = [pr EXCEPT ![p] = [Sends(p, n, ok, blocks) EXCEPT !.index = index]]
    IN
    /\ n \in pr[p].jobs
    /\ v # NoFile
    /\ IF pr[p].ask.local /\ ~pr[p].ask.rewrite /\ localIndex[n] # NoFile THEN Fault ELSE NoFault
    /\ \E kept \in Existing(index, Needed(v)) :
        IF pr[p].ask.validate /\ ~Validates(kept, v)
        THEN /\ Keeps(pr[p].ask.skip, {})
             /\ UNCHANGED localIndex
        ELSE /\ Keeps(TRUE, kept)
             /\ IF RewritesIndex(p)
                THEN localIndex' = [localIndex EXCEPT ![n] = kept]
                ELSE UNCHANGED localIndex
    /\ GoOn /\ UNCHANGED <<stored, indexed, versionFile, config, standing>>

\* The version index is missing, or a call fails.
PruneOneFails(p, n) ==
    /\ n \in pr[p].jobs
    /\ \/ versionFile[n] = NoFile /\ NoFault
       \/ Fault
    /\ pr' = [pr EXCEPT ![p] = Sends(p, n, FALSE, {})]
    /\ GoOn /\ UNCHANGED <<fileVars, standing>>

-----------------------------------------------------------------------------
(* The prune itself *)

\* What happens to the versions when the index loses what p did not find in use.
Judged(p) ==
    [n \in Name |->
        IF n \in pr[p].dropped THEN "dropped"
        ELSE IF n \in pr[p].stale THEN "stale"
        ELSE IF n \notin {pr[p].ask.list[i] : i \in 1 .. Len(pr[p].ask.list)} THEN "unlisted"
        ELSE standing[n]]

\* PruneBlocksSync opens the store again.  Its completion drops the error, so a
\* prune that failed looks like one that found nothing (longtailutils.go:50).
PruneIndex(p) ==
    /\ PruneAt(p, "prune")
    /\ pr[p].ask.kind = "store"
    /\ \/ /\ indexed' = indexed \cap pr[p].used
          /\ standing' = Judged(p)
          /\ pr' = [pr EXCEPT ![p] = [@ EXCEPT !.at = "delete", !.doomed = indexed \ pr[p].used]]
          /\ NoFault
       \/ Fault /\ PruneGoes(p, "delete") /\ UNCHANGED <<indexed, standing>>
    /\ GoOn /\ UNCHANGED <<stored, versionFile, localIndex, config>>

\* The workers of the store delete the blocks, and ignore errors.
DeletePruned(p, b) ==
    /\ PruneAt(p, "delete")
    /\ pr[p].ask.kind = "store"
    /\ b \in pr[p].doomed
    /\ pr' = [pr EXCEPT ![p].doomed = @ \ {b}]
    /\ \/ stored' = stored \ {b} /\ NoFault
       \/ Fault /\ UNCHANGED stored
    /\ GoOn /\ UNCHANGED <<indexed, versionFile, localIndex, config, standing>>

EndPrune(p) ==
    /\ PruneAt(p, "delete")
    /\ pr[p].ask.kind = "store"
    /\ pr[p].doomed = {}
    /\ \/ NoFault /\ PruneEnds(p, "done")
       \/ Fault /\ PruneEnds(p, "failed")
    /\ UNCHANGED <<fileVars, standing>>

\* prune-store-index writes what it read, less what is not in use.
WritePrunedIndex(p) ==
    /\ PruneAt(p, "prune")
    /\ pr[p].ask.kind = "index"
    /\ \/ /\ indexed' = pr[p].index \cap pr[p].used
          /\ standing' = Judged(p)
          /\ NoFault /\ PruneEnds(p, "done")
       \/ Fault /\ PruneEnds(p, "failed") /\ UNCHANGED <<indexed, standing>>
    /\ UNCHANGED <<stored, versionFile, localIndex, config>>

-----------------------------------------------------------------------------
(* prune-store-blocks *)

\* The index is read by a goroutine of its own, so before or after the listing.
ReadIndexFile(p) ==
    /\ PruneAt(p, "scan")
    /\ pr[p].index = NoFile /\ ~pr[p].err
    /\ \/ pr' = [pr EXCEPT ![p].index = indexed] /\ NoFault
       \/ Fault /\ pr' = [pr EXCEPT ![p].err = TRUE]
    /\ GoOn /\ UNCHANGED <<fileVars, standing>>

ListBlockFiles(p) ==
    /\ PruneAt(p, "scan")
    /\ pr[p].listed = NoFile
    /\ \/ pr' = [pr EXCEPT ![p].listed = stored] /\ NoFault /\ GoOn
       \/ Fault /\ PruneEnds(p, "failed")
    /\ UNCHANGED <<fileVars, standing>>

\* When the index could not be read, the command wraps the wrong error, which
\* is nil: it reports success and deletes nothing (cmd_prunestore_blocks.go:111).
JoinIndexAndBlocks(p) ==
    /\ PruneAt(p, "scan")
    /\ pr[p].listed # NoFile
    /\ \/ pr[p].err /\ PruneEnds(p, "done")
       \/ /\ pr[p].index # NoFile
          /\ pr' = [pr EXCEPT ![p] = [@ EXCEPT !.at = "delete",
                        !.doomed = IF pr[p].ask.dryRun THEN {} ELSE pr[p].listed \ pr[p].index]]
          /\ GoOn
    /\ UNCHANGED <<fileVars, standing, faults>>

\* A pool of clients deletes the unused blocks.  After an error no deletion is
\* started, but those under way are waited for.
DeleteUnused(p, b) ==
    /\ PruneAt(p, "delete")
    /\ pr[p].ask.kind = "blocks"
    /\ b \in pr[p].doomed
    /\ \/ /\ stored' = stored \ {b} /\ NoFault
          /\ pr' = [pr EXCEPT ![p].doomed = @ \ {b}]
       \/ /\ Fault /\ UNCHANGED stored
          /\ pr' = [pr EXCEPT ![p] = [@ EXCEPT !.doomed = pr[p].doomed \ {b}, !.err = TRUE]]
    /\ GoOn /\ UNCHANGED <<indexed, versionFile, localIndex, config, standing>>

EndDelete(p) ==
    /\ PruneAt(p, "delete")
    /\ pr[p].ask.kind = "blocks"
    /\ pr[p].err \/ pr[p].doomed = {}
    /\ PruneEnds(p, IF pr[p].err THEN "failed" ELSE "done")
    /\ UNCHANGED <<fileVars, standing, faults>>

-----------------------------------------------------------------------------

CrashPrune(p) ==
    /\ pr[p].at \notin PruneResting
    /\ Fault
    /\ PruneEnds(p, "failed")
    /\ UNCHANGED <<fileVars, standing>>

PruneProgress(p) ==
    \/ ReadPrunedIndex(p)
    \/ TakeWhenFull(p) \/ LaunchPruneOne(p) \/ TakeReady(p) \/ NoneReady(p)
    \/ TakeLast(p) \/ EndGather(p)
    \/ \E n \in Name :
           PruneOneByLocalIndex(p, n) \/ PruneOneByStore(p, n) \/ PruneOneFails(p, n)
    \/ PruneIndex(p) \/ EndPrune(p) \/ WritePrunedIndex(p)
    \/ ReadIndexFile(p) \/ ListBlockFiles(p) \/ JoinIndexAndBlocks(p) \/ EndDelete(p)
    \/ \E b \in Block : DeletePruned(p, b) \/ DeleteUnused(p, b)

PruneStep(p) == StartPrune(p) \/ PruneProgress(p) \/ CrashPrune(p)

=============================================================================
