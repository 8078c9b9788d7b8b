---------------------------- MODULE FolderCommands ----------------------------
(***************************************************************************)
(* The commands that bring a folder to a version:                          *)
(*   downsync   src/commands/cmd_downsync.go                               *)
(*   get        src/commands/cmd_get.go      get-configs, then downsync    *)
(*   unpack     src/commands/cmd_unpack.go   the same from an archive      *)
(*                                                                         *)
(* A command finds out what the folder holds, changes the assets that      *)
(* differ from the version it wants, one at a time here, and may leave an  *)
(* index of the folder in it, .longtail.index.cache.lvi, that the next     *)
(* command goes by instead of scanning.  Blocks can be pruned meanwhile,   *)
(* and the process can crash, between any two assets or in one.            *)
(*                                                                         *)
(* One command at a time works on a folder.  The local block cache is not  *)
(* modelled.  How an archive came about is not either: it has its blocks.  *)
(***************************************************************************)
EXTENDS VersionStore

CONSTANTS
    Folder,  \* folders that commands sync to
    Sync,    \* what users may ask for
    Torn     \* the content of an asset, or of an index, that is cut short

VARIABLES
    folder,   \* the content of each asset of each folder
    cache,    \* .longtail.index.cache.lvi in each folder
    outdated, \* history: the folder was changed beside its cached index
    sy        \* the command at work on each folder

folderVars == <<folder, cache, outdated, sy>>

SyncKind == {"downsync", "get", "unpack"}

\* How a command learns what the folder holds when it does not go by a cached
\* index: by a scan, from an index file that the user gives (target-index-path),
\* or not at all (no-scan-target).
TargetKind == {"scan", "given", "none"}

SyncRequest ==
    [kind : SyncKind,
     list : Seq(Name),      \* the versions to merge, the last one on top
     archive : Version,     \* what unpack unpacks
     caching : BOOLEAN,     \* cache-target-index
     target : TargetKind,
     given : Version,       \* what the given index file says
     hidden : SUBSET Asset, \* what the path filter leaves out, with the cached index
     local : BOOLEAN,       \* the .lsi of each version is given
     validate : BOOLEAN]

ASSUME FolderAssumption ==
    /\ Sync \subseteq SyncRequest /\ Sync # {}
    /\ \A r \in Sync : r.kind # "unpack" => r.list # <<>>
    /\ Torn \notin Chunk \cup {Absent, NoFile}
    /\ \A v \in Contents : v # Torn /\ v # NoFile

SyncResting == {"idle", "done", "failed", "missing"}

SyncPhase ==
    SyncResting \cup {"config", "source", "target", "query", "clean", "change", "check", "cache"}

Empty == [a \in Asset |-> Absent]

IdleSync(r) ==
    [at |-> "idle", ask |-> r, todo |-> <<>>, source |-> Empty, target |-> Empty,
     plan |-> {}, left |-> {}, seen |-> FALSE, misled |-> FALSE, excused |-> FALSE]

Disk == [Asset -> Chunk \cup {Absent, Torn}]

SyncState ==
    [at : SyncPhase,
     ask : Sync,
     todo : Seq(Name),
     source : Contents,   \* sourceVersionIndex
     target : Disk,       \* targetVersionIndex
     plan : SUBSET Block, \* retargettedVersionStoreIndex
     left : SUBSET Asset, \* versionDiff: assets still to change
     seen : BOOLEAN,      \* the scan found the cached index among the assets
     misled : BOOLEAN,    \* history: the user, or what changed the folder, misled it
     excused : BOOLEAN]   \* history: a version it read was not good, or its .lsi not

FolderTypeOK ==
    /\ folder \in [Folder -> Disk]
    /\ cache \in [Folder -> {NoFile, Torn} \cup Contents]
    /\ outdated \in [Folder -> BOOLEAN]
    /\ sy \in [Folder -> SyncState]

FolderInit(s) ==
    /\ folder = [f \in Folder |-> s.folder]
    /\ cache = [f \in Folder |-> NoFile]
    /\ outdated = [f \in Folder |-> FALSE]
    /\ sy = [f \in Folder |-> IdleSync(CHOOSE r \in Sync : TRUE)]

SyncAt(f, phase) == sy[f].at = phase

SyncGoes(f, phase) == sy' = [sy EXCEPT ![f].at = phase]

SyncEnds(f, phase) == SyncGoes(f, phase) /\ End(f)

\* A given index turns caching off.
Caching(f) == sy[f].ask.caching /\ sy[f].ask.target # "given"

NamesOf(f) == {sy[f].ask.list[i] : i \in 1 .. Len(sy[f].ask.list)}

StartSync(f) ==
    \E r \in Sync :
        /\ sy[f].at \in SyncResting
        /\ Begin(f, "read")
        /\ sy' = [sy EXCEPT ![f] =
               [IdleSync(r) EXCEPT
                   !.at = CASE r.kind = "unpack" -> "target"
                            [] r.kind = "get" -> "config"
                            [] OTHER -> "source",
                   !.todo = r.list,
                   !.source = IF r.kind = "unpack" THEN r.archive ELSE @]]
        /\ UNCHANGED <<fileVars, standing, faults, folder, cache, outdated>>

\* get reads the get-config of each version.
ReadConfig(f) ==
    /\ SyncAt(f, "config")
    /\ \/ NamesOf(f) \subseteq config /\ NoFault /\ SyncGoes(f, "source") /\ GoOn
       \/ ~(NamesOf(f) \subseteq config) /\ NoFault /\ SyncEnds(f, "failed")
       \/ Fault /\ SyncEnds(f, "failed")
    /\ UNCHANGED <<fileVars, standing, folder, cache, outdated>>

\* Longtail_MergeVersionIndex: the assets of the second, and those of the first
\* that it does not have.
Merge(base, overlay) == [a \in Asset |-> IF overlay[a] = Absent THEN base[a] ELSE overlay[a]]

ReadSource(f) ==
    LET v == versionFile[Head(sy[f].todo)] IN
    /\ SyncAt(f, "source")
    /\ \/ /\ v # NoFile /\ NoFault
          /\ sy' = [sy EXCEPT ![f] = [@ EXCEPT
                              !.source = Merge(sy[f].source, v), !.todo = Tail(sy[f].todo),
                              !.excused = (sy[f].excused \/ standing[Head(sy[f].todo)] # "good"),
                              !.at = IF Tail(sy[f].todo) = <<>> THEN "target" ELSE "source"]]
          /\ GoOn
       \/ v = NoFile /\ NoFault /\ SyncEnds(f, "failed")
       \/ Fault /\ SyncEnds(f, "failed")
    /\ UNCHANGED <<fileVars, standing, folder, cache, outdated>>

\* GetFolderIndex.  A cached index that is cut short cannot be parsed, and the
\* command fails before it would delete it (cmd_downsync.go:240-243).  The scan
\* of a command that does not look for a cached index takes it for an asset.
ReadTarget(f) ==
    LET r == sy[f].ask
        scanned == [a \in Asset |-> IF a \in r.hidden THEN Absent ELSE folder[f][a]]
        Reads(index, misled, seen) ==
            /\ sy' = [sy EXCEPT ![f] = [@ EXCEPT !.at = "query", !.target = index,
                                !.misled = misled, !.seen = seen]]
            /\ GoOn /\ NoFault
    IN
    /\ SyncAt(f, "target")
    /\ \/ Caching(f) /\ cache[f] \notin {NoFile, Torn} /\ Reads(cache[f], outdated[f], FALSE)
       \/ Caching(f) /\ cache[f] = Torn /\ NoFault /\ SyncEnds(f, "failed")
       \/ /\ ~(Caching(f) /\ cache[f] # NoFile)
          /\ CASE r.target = "scan" ->
                    Reads(scanned, scanned # folder[f], cache[f] # NoFile /\ r.hidden = {})
               [] r.target = "given" -> Reads(r.given, r.given # folder[f], FALSE)
               [] r.target = "none" -> Reads(Empty, Empty # folder[f], FALSE)
       \/ Fault /\ SyncEnds(f, "failed")
    /\ UNCHANGED <<fileVars, standing, folder, cache, outdated>>

Differ(f) == {a \in Asset : sy[f].target[a] # sy[f].source[a]}

Required(f) == {sy[f].source[a] : a \in Differ(f)} \ {Absent}

\* The blocks for what is required, from the given .lsi files if all of them
\* can be read, and else from the store index.  An archive has all its blocks.
QueryContent(f) ==
    LET locals == {localIndex[n] : n \in NamesOf(f)}
        useLocal == sy[f].ask.local /\ NoFile \notin locals
        index == IF useLocal THEN UNION locals ELSE indexed
        IndexHas(plan) == plan \subseteq indexed /\ Required(f) \subseteq Content(plan)
    IN
    /\ SyncAt(f, "query")
    /\ \/ /\ sy[f].ask.kind = "unpack"
          /\ SyncGoes(f, "clean") /\ NoFault /\ GoOn
       \/ /\ sy[f].ask.kind # "unpack"
          /\ \E plan \in Existing(index, Required(f)) :
                sy' = [sy EXCEPT ![f] = [@ EXCEPT !.at = "clean", !.plan = plan,
                                 !.excused = (sy[f].excused \/ (useLocal /\ ~IndexHas(plan)))]]
          /\ NoFault /\ GoOn
       \/ Fault /\ SyncEnds(f, "failed")
    /\ UNCHANGED <<fileVars, standing, folder, cache, outdated>>

NoCache(f) ==
    /\ cache' = [cache EXCEPT ![f] = NoFile]
    /\ outdated' = [outdated EXCEPT ![f] = FALSE]

\* MUTANT of Deletes: the cached index stays until it is written anew.
DeletesNever(f) == FALSE

Deletes(f) == Caching(f)

\* The cached index is deleted before the first change: a command that does not
\* get to its end leaves none.
DeleteCache(f) ==
    /\ SyncAt(f, "clean")
    /\ \/ /\ IF Deletes(f) THEN NoCache(f) ELSE UNCHANGED <<cache, outdated>>
          /\ sy' = [sy EXCEPT ![f] = [@ EXCEPT !.at = "change", !.left = Differ(f)]]
          /\ NoFault /\ GoOn
       \/ /\ Caching(f) /\ cache[f] # NoFile
          /\ Fault /\ SyncEnds(f, "failed")
          /\ UNCHANGED <<cache, outdated>>
    /\ UNCHANGED <<fileVars, standing, folder>>

\* The blocks that hold what an asset needs; of several, any may be fetched.
Carriers(f, a) ==
    IF sy[f].source[a] = Absent THEN {} ELSE {b \in sy[f].plan : sy[f].source[a] \in Holds[b]}

FromStore(f, a) == sy[f].source[a] # Absent /\ sy[f].ask.kind # "unpack"

CanFetch(f, a) == FromStore(f, a) => Carriers(f, a) \cap stored # {}

CanMiss(f, a) == FromStore(f, a) /\ (Carriers(f, a) = {} \/ Carriers(f, a) \ stored # {})

\* A folder that changes beside a cached index, by something that does not heed
\* it, outdates it.
Outdates(f, heeds) == outdated' = [outdated EXCEPT ![f] = (@ \/ (cache[f] # NoFile /\ ~heeds))]

\* ChangeVersion, one asset.  A block that cannot be had ends the command, with
\* the folder in part the old one and in part the new one.
ChangeAsset(f, a) ==
    /\ SyncAt(f, "change")
    /\ a \in sy[f].left
    /\ \/ /\ CanFetch(f, a)
          /\ folder' = [folder EXCEPT ![f][a] = sy[f].source[a]]
          /\ sy' = [sy EXCEPT ![f].left = @ \ {a}]
          /\ NoFault /\ GoOn
       \/ /\ CanMiss(f, a)
          /\ folder' = [folder EXCEPT ![f][a] = Torn]
          /\ NoFault /\ SyncEnds(f, "missing")
       \/ /\ folder' = [folder EXCEPT ![f][a] = Torn]
          /\ Fault /\ SyncEnds(f, "failed")
    /\ Outdates(f, Caching(f))
    /\ UNCHANGED <<fileVars, standing, cache>>

\* What the scan took for an asset is removed, as the version does not have it.
RemoveSeen(f) ==
    /\ SyncAt(f, "change")
    /\ sy[f].seen
    /\ sy' = [sy EXCEPT ![f].seen = FALSE]
    /\ NoCache(f)
    /\ GoOn /\ UNCHANGED <<fileVars, standing, faults, folder>>

EndChange(f) ==
    /\ SyncAt(f, "change")
    /\ sy[f].left = {} /\ ~sy[f].seen
    /\ SyncGoes(f, IF sy[f].ask.validate THEN "check" ELSE "cache")
    /\ GoOn /\ UNCHANGED <<fileVars, standing, faults, folder, cache, outdated>>

\* The assets that a validation compares.
\* MUTANT of Compared: those that the command set out to change.
ComparedChanged(f) == Differ(f)

Compared(f) == Asset

\* The folder is scanned again, and compared with the version asset by asset.
ValidateTarget(f) ==
    LET visible == [a \in Asset |-> IF a \in sy[f].ask.hidden THEN Absent ELSE folder[f][a]]
        same ==
            /\ \A a \in Compared(f) : visible[a] = sy[f].source[a]
            /\ (cache[f] = NoFile \/ sy[f].ask.hidden # {})
    IN
    /\ SyncAt(f, "check")
    /\ \/ same /\ NoFault /\ SyncGoes(f, "cache") /\ GoOn
       \/ ~same /\ NoFault /\ SyncEnds(f, "failed")
       \/ Fault /\ SyncEnds(f, "failed")
    /\ UNCHANGED <<fileVars, standing, folder, cache, outdated>>

\* The index of the version is written to the folder last; it may be cut short.
WriteCache(f) ==
    /\ SyncAt(f, "cache")
    /\ \/ ~Caching(f) /\ NoFault /\ SyncEnds(f, "done") /\ UNCHANGED <<cache, outdated>>
       \/ /\ Caching(f) /\ NoFault /\ SyncEnds(f, "done")
          /\ cache' = [cache EXCEPT ![f] = sy[f].source]
          /\ outdated' = [outdated EXCEPT ![f] = sy[f].misled]
       \/ /\ Caching(f) /\ Fault /\ SyncEnds(f, "failed")
          /\ cache' = [cache EXCEPT ![f] = Torn]
          /\ UNCHANGED outdated
    /\ UNCHANGED <<fileVars, standing, folder>>

CrashSync(f) ==
    /\ sy[f].at \notin SyncResting
    /\ Fault
    /\ SyncEnds(f, "failed")
    /\ UNCHANGED <<fileVars, standing, folder, cache, outdated>>

\* The user changes a file of a folder that no command is at work on.
EditFolder(f, a) ==
    /\ f \in mix
    /\ sy[f].at \in SyncResting
    /\ starts > 0 /\ starts' = starts - 1
    /\ \E content \in (Chunk \cup {Absent}) \ {folder[f][a]} :
           folder' = [folder EXCEPT ![f][a] = content]
    /\ sy' = [sy EXCEPT ![f].at = "idle"]
    /\ Outdates(f, FALSE)
    /\ UNCHANGED <<fileVars, standing, faults, mix, running, overlapped, disturbed, cache>>

SyncProgress(f) ==
    \/ ReadConfig(f) \/ ReadSource(f) \/ ReadTarget(f) \/ QueryContent(f) \/ DeleteCache(f)
    \/ \E a \in Asset : ChangeAsset(f, a)
    \/ RemoveSeen(f) \/ EndChange(f) \/ ValidateTarget(f) \/ WriteCache(f)

FolderStep(f) ==
    StartSync(f) \/ SyncProgress(f) \/ CrashSync(f) \/ \E a \in Asset : EditFolder(f, a)

-----------------------------------------------------------------------------

\* A cached index says what is in its folder, unless something else than a
\* caching command changed the folder: whatever was interrupted, and wherever,
\* the next command that goes by it is right to.
CacheIsTrue ==
    \A f \in Folder : cache[f] \notin {NoFile, Torn} /\ ~outdated[f] => cache[f] = folder[f]

\* A command that reports success has left the version in the folder, unless it
\* was told something else than what was there.
SyncedIsVersion ==
    \A f \in Folder : sy[f].at = "done" /\ ~sy[f].misled => folder[f] = sy[f].source

\* With --validate it has, whatever it was told, as long as nothing is hidden.
ValidatedIsVersion ==
    \A f \in Folder :
        sy[f].at = "done" /\ sy[f].ask.validate /\ sy[f].ask.hidden = {}
            => folder[f] = sy[f].source

\* A version that was uploaded and not pruned can be had: no command ends for
\* want of a block, unless a prune ran beside it or its .lsi was out of date.
UploadedCanBeHad ==
    \A f \in Folder :
        sy[f].at = "missing"
            => overlapped \/ f \in disturbed \/ sy[f].excused

=============================================================================
