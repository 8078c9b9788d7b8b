----------------------------- MODULE VersionStore -----------------------------
(***************************************************************************)
(* What the commands of src/commands share: the blocks and the index of    *)
(* one store, and the files that users keep beside it, which are version   *)
(* indexes (.lvi), version local store indexes (.lsi) and get-configs.     *)
(*                                                                         *)
(* Abstractions:                                                           *)
(*   - a version index maps each asset to the chunk that holds its         *)
(*     content; an asset of several chunks is several assets;              *)
(*   - the store index changes in one step, which IndexPromise justifies:  *)
(*     StoreIndexUnlocked and StoreIndexLocked implement it;               *)
(*   - a file is written in one step, as object stores do; a file system   *)
(*     that tears a write is the subject of StoreIndexLocked.              *)
(*                                                                         *)
(* Pruning beside an upload is excluded by the help of the prune commands, *)
(* "Running uploads to a store that is being pruned may cause loss of the  *)
(* uploaded data" (src/commands/commands.go:31).  Such behaviours are not  *)
(* left out: overlapped records that the store has seen one.               *)
(***************************************************************************)
EXTENDS Naturals, FiniteSets, Sequences

CONSTANTS
    Chunk,      \* pieces of content
    Block,      \* blocks of chunks, by hash
    Holds,      \* the chunks of each block
    Asset,      \* paths of a folder
    Version,    \* the version indexes that occur
    Name,       \* version file names, each with its .lsi and get-config
    Absent,     \* the content of an asset that is not there
    NoFile,     \* the content of a file that is not there
    Scenario    \* what runs start with: store, folder, processes, bounds

VARIABLES
    stored,       \* the blocks under chunks/
    indexed,      \* the blocks in the store index
    versionFile,  \* the version index of each name
    localIndex,   \* the version local store index of each name
    config,       \* the names that have a get-config
    mix,          \* the processes that may run in this behaviour
    running,      \* history: the processes that run, each with its role
    overlapped,   \* history: a prune ran beside an upload or another prune
    disturbed,    \* history: the readers that a prune ran beside
    standing,     \* history: what was last done for, or to, each version
    starts,       \* bound: commands that may still be started
    faults        \* bound: calls that may still fail and processes that may crash

fileVars == <<stored, indexed, versionFile, localIndex, config>>
runVars == <<mix, running, overlapped, disturbed, starts>>
storeVars == <<fileVars, runVars, standing, faults>>

ASSUME VersionStoreAssumption ==
    /\ Holds \in [Block -> (SUBSET Chunk) \ {{}}]
    /\ Absent \notin Chunk
    /\ Name # {}
    /\ Version \subseteq [Asset -> Chunk \cup {Absent}]
    /\ \A v \in Version : v # NoFile
    /\ \A blocks \in SUBSET Block : blocks # NoFile

Contents == [Asset -> Chunk \cup {Absent}] \* what a folder may hold

Role == {"read", "write", "prune"}

\* good: uploaded, and flushed; unflushed: written with blocks that were not
\* flushed yet (clone-store) or that the flush overtook; unlisted, dropped, stale: a prune took its blocks out,
\* for the user did not list it, its error was dropped, or its .lsi was stale
Standing == {"good", "unflushed", "unlisted", "dropped", "stale"}

FilesTypeOK ==
    /\ stored \subseteq Block
    /\ indexed \subseteq Block
    /\ versionFile \in [Name -> {NoFile} \cup Contents]
    /\ localIndex \in [Name -> {NoFile} \cup SUBSET Block]
    /\ config \subseteq Name
    /\ standing \in [Name -> Standing]

RunTypeOK ==
    /\ running \subseteq mix \X Role
    /\ overlapped \in BOOLEAN
    /\ disturbed \subseteq mix
    /\ starts \in Nat /\ faults \in Nat

StoreTypeOK == FilesTypeOK /\ RunTypeOK

-----------------------------------------------------------------------------
(* Content *)

Content(blocks) == UNION {Holds[b] : b \in blocks}

Needed(v) == {v[a] : a \in Asset} \ {Absent}

\* Longtail_ValidateStore: every chunk of the version is in a block of the index.
Validates(blocks, v) == Needed(v) \subseteq Content(blocks)

\* What Longtail_GetExistingStoreIndex may answer: blocks of the index, each
\* with a chunk that is asked for, that together hold all of those the index
\* has.  Which block it prefers where several hold a chunk is left open.
Existing(index, chunks) ==
    {f \in SUBSET {b \in index : Holds[b] \cap chunks # {}} :
        Content(index) \cap chunks \subseteq Content(f)}

\* With min-block-usage-percent, blocks that are used too little do not count;
\* the two extremes, any use and full use, stand for the percentages.
WorthReusing(index, chunks) ==
    {index, {b \in index : Holds[b] \subseteq chunks}}

\* Longtail_CreateMissingContent: the blocks that the missing chunks are packed
\* into; how they are packed depends on the block size that the user asks for.
Packings(chunks) ==
    {p \in SUBSET Block :
        /\ Content(p) = chunks
        /\ \A b, d \in p : b # d => Holds[b] \cap Holds[d] = {}}

Restorable(v) == Validates(indexed \cap stored, v)

-----------------------------------------------------------------------------
(* Processes *)

RolesOf(rs) == {r[2] : r \in rs}

Clash(role, others) ==
    \/ role = "prune" /\ others \cap {"prune", "write"} # {}
    \/ role = "write" /\ "prune" \in others

Begin(x, role) ==
    /\ x \in mix
    /\ starts > 0
    /\ starts' = starts - 1
    /\ running' = running \cup {<<x, role>>}
    /\ overlapped' = (overlapped \/ Clash(role, RolesOf(running)))
    /\ disturbed' =
           IF role = "prune" THEN disturbed \cup {r[1] : r \in {s \in running : s[2] = "read"}}
           ELSE IF role = "read" /\ "prune" \in RolesOf(running) THEN disturbed \cup {x}
           ELSE disturbed \ {x}
    /\ mix' = mix

End(x) ==
    /\ running' = {r \in running : r[1] # x}
    /\ UNCHANGED <<mix, overlapped, disturbed, starts>>

GoOn == UNCHANGED runVars

Fault == faults > 0 /\ faults' = faults - 1

NoFault == faults' = faults

\* A flush may be answered before blocks that were announced ahead of it: the
\* content index worker looks at both channels in one select (remotestore.go:843).
\* They stay announced, until the next flush or Close.  It counts as a fault.
Overtaken(late) == IF late = {} THEN NoFault ELSE Fault

StoreInit(s) ==
    /\ stored = s.stored
    /\ indexed = s.indexed
    /\ versionFile = s.versions
    /\ localIndex = s.localIndexes
    /\ config = {}
    /\ mix = s.mix
    /\ running = {}
    /\ overlapped = FALSE
    /\ disturbed = {}
    /\ standing = [n \in Name |-> "good"]
    /\ starts = s.starts
    /\ faults = s.faults

\* A scenario is a store that finished uploads may have left, with or without
\* blocks of an upload that crashed.
Plausible(s) ==
    /\ s.starts \in Nat /\ s.faults \in Nat
    /\ s.indexed \subseteq s.stored /\ s.stored \subseteq Block
    /\ s.versions \in [Name -> {NoFile} \cup Version]
    /\ s.localIndexes \in [Name -> {NoFile} \cup SUBSET Block]
    /\ \A n \in Name :
        /\ s.versions[n] # NoFile => Validates(s.indexed, s.versions[n])
        /\ s.localIndexes[n] # NoFile =>
              s.versions[n] # NoFile /\ Validates(s.localIndexes[n], s.versions[n])

-----------------------------------------------------------------------------
(* Properties of the store *)

\* A version file that is there can be restored, as long as no prune ran beside
\* an upload and no prune took its blocks out for a reason of its own.  It is
\* what upsync promises by writing the version index last (cmd_upsync.go:167-199)
\* and what the prunes promise to the versions they are given.
PublishedIsRestorable ==
    \A n \in Name :
        ~overlapped /\ versionFile[n] # NoFile /\ standing[n] = "good"
            => Restorable(versionFile[n])

\* The index lists stored blocks only: uploads store before they index, prunes
\* take out of the index before they delete, and a rebuild lists what is stored.
ListedIsStored == ~overlapped => indexed \subseteq stored

=============================================================================
