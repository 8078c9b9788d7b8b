----------------------------- MODULE CloneCommand -----------------------------
(***************************************************************************)
(* clone-store, src/commands/cmd_clonestore.go: for each version in a      *)
(* list, it brings a work folder to that version with the source store,    *)
(* or with a zip file if that fails, and uploads the folder to this store, *)
(* the target.  It opens the stores once, keeps the version index of the   *)
(* work folder from one version to the next instead of scanning it, and    *)
(* writes the version index while the flush of its blocks is under way.    *)
(*                                                                         *)
(* The source store is external: a change of the work folder may fail, and *)
(* may then have changed any of the assets.  The zip file of a version has *)
(* the files of the version.                                               *)
(*                                                                         *)
(* cloneOneVersion means to skip a version that is there already, but      *)
(* passes the arguments of validateOneVersion in the wrong order           *)
(* (cmd_clonestore.go:398 against :21), so that it looks for a file with   *)
(* the name of the endpoint and clones every version again.                *)
(***************************************************************************)
EXTENDS VersionStore

CONSTANTS
    Cloner,  \* processes
    Clone,   \* what users may ask for: [list, local]
    Source   \* the versions in the source store, by name

VARIABLES
    cl,   \* the command of each process
    work  \* the folder of each, target-path

cloneVars == <<cl, work>>

ASSUME CloneAssumption ==
    /\ Clone \subseteq [list : Seq(Name), local : BOOLEAN]
    /\ Source \in [Name -> Version]
    /\ \A chunks \in SUBSET Chunk : Packings(chunks) # {}

CloneResting == {"idle", "done", "failed"}

ClonePhase ==
    CloneResting \cup {"next", "change", "unzip", "rescan", "query", "put",
                       "publish", "local", "wait", "close"}

IdleClone ==
    [at |-> "idle", todo |-> <<>>, local |-> FALSE, current |-> NoFile,
     name |-> CHOOSE n \in Name : TRUE, found |-> {}, made |-> {}, put |-> {},
     late |-> {}, cached |-> NoFile, flush |-> "none", ok |-> FALSE]

CloneState ==
    [at : ClonePhase,
     todo : Seq(Name),
     local : BOOLEAN,
     current : {NoFile} \cup Contents, \* currentVersionIndex, then targetVersionIndex
     name : Name,
     found : SUBSET Block,
     made : SUBSET Block,
     put : SUBSET Block,                \* blocks announced and not yet flushed
     late : SUBSET Block,               \* of an earlier version, overtaken by its flush
     cached : {NoFile} \cup SUBSET Block, \* the index of the target session
     flush : {"none", "running", "ok", "error"},
     ok : BOOLEAN]

CloneTypeOK ==
    /\ cl \in [Cloner -> CloneState]
    /\ work \in [Cloner -> Contents]

CloneInit(s) ==
    /\ cl = [c \in Cloner |-> IdleClone]
    /\ work = [c \in Cloner |-> s.work]

CloneAt(c, phase) == cl[c].at = phase

CloneEnds(c, phase) == cl' = [cl EXCEPT ![c] = [IdleClone EXCEPT !.at = phase]] /\ End(c)

CloneGoes(c, phase) == cl' = [cl EXCEPT ![c].at = phase]

\* cloneOneVersion returns an error, and that ends the command.
CloneAborts(c) == cl' = [cl EXCEPT ![c] = [@ EXCEPT !.at = "close", !.ok = FALSE]]

StartClone(c) ==
    \E r \in Clone :
        /\ cl[c].at \in CloneResting
        /\ Begin(c, "write")
        /\ cl' = [cl EXCEPT ![c] = [IdleClone EXCEPT !.at = "next", !.todo = r.list,
                                                     !.local = r.local, !.ok = TRUE]]
        /\ UNCHANGED <<fileVars, standing, faults, work>>

\* The next line of the lists; the source version is read, and the folder is
\* scanned unless its index is known.
NextVersion(c) ==
    /\ CloneAt(c, "next")
    /\ \/ /\ cl[c].todo = <<>> /\ NoFault
          /\ CloneGoes(c, "close")
       \/ /\ cl[c].todo # <<>> /\ NoFault
          /\ cl' = [cl EXCEPT ![c] = [@ EXCEPT
                 !.at = "change", !.name = Head(cl[c].todo), !.todo = Tail(cl[c].todo),
                 !.current = IF cl[c].current = NoFile THEN work[c] ELSE cl[c].current]]
       \/ cl[c].todo # <<>> /\ Fault /\ CloneAborts(c)
    /\ GoOn /\ UNCHANGED <<fileVars, standing, work>>

\* When the source store does not deliver, the zip file may.
\* MUTANT of ChangeFails: the error goes unnoticed.
ChangeUnnoticed(c) ==
    cl' = [cl EXCEPT ![c] = [@ EXCEPT !.at = "query", !.current = Source[cl[c].name]]]

ChangeFails(c) == CloneGoes(c, "unzip")

\* ChangeVersion touches the assets in which the two indexes differ.
ChangeWork(c) ==
    LET v == Source[cl[c].name]
        differ == {a \in Asset : cl[c].current[a] # v[a]}
    IN
    /\ CloneAt(c, "change")
    /\ \/ /\ work' = [work EXCEPT ![c] = [a \in Asset |-> IF a \in differ THEN v[a] ELSE @[a]]]
          /\ cl' = [cl EXCEPT ![c] = [@ EXCEPT !.at = "query", !.current = v]]
          /\ NoFault
       \/ /\ \E done \in SUBSET differ :
                work' = [work EXCEPT ![c] = [a \in Asset |-> IF a \in done THEN v[a] ELSE @[a]]]
          /\ ChangeFails(c)
          /\ Fault
    /\ GoOn /\ UNCHANGED <<fileVars, standing>>

\* downloadFromZip empties the folder first.  It fails if there is no zip file.
Unzip(c) ==
    LET v == Source[cl[c].name] IN
    /\ CloneAt(c, "unzip")
    /\ \/ work' = [work EXCEPT ![c] = v] /\ NoFault /\ CloneGoes(c, "rescan")
       \/ UNCHANGED work /\ NoFault /\ CloneAborts(c)
       \/ /\ \E done \in SUBSET Asset :
                work' = [work EXCEPT ![c] = [a \in Asset |-> IF a \in done THEN v[a] ELSE Absent]]
          /\ Fault /\ CloneAborts(c)
    /\ GoOn /\ UNCHANGED <<fileVars, standing>>

Rescan(c) ==
    /\ CloneAt(c, "rescan")
    /\ \/ cl' = [cl EXCEPT ![c] = [@ EXCEPT !.at = "query", !.current = work[c]]] /\ NoFault
       \/ Fault /\ CloneAborts(c)
    /\ GoOn /\ UNCHANGED <<fileVars, standing, work>>

\* The session of the target store caches its index at the first query, and adds
\* what it was told of since, and has not flushed, to what it answers.
FindCloned(c) ==
    LET index == IF cl[c].cached = NoFile THEN indexed ELSE cl[c].cached
        needed == Needed(cl[c].current)
    IN
    /\ CloneAt(c, "query")
    /\ \/ /\ \E told \in SUBSET cl[c].late :
             \E worth \in WorthReusing(index \cup told, needed) :
             \E found \in Existing(worth, needed) :
             \E made \in Packings(needed \ Content(found)) :
                cl' = [cl EXCEPT ![c] = [@ EXCEPT !.at = "put",
                                 !.found = found, !.made = made, !.put = {},
                                 !.cached = index]]
          /\ NoFault
       \/ Fault /\ CloneAborts(c)
    /\ GoOn /\ UNCHANGED <<fileVars, standing, work>>

StoreCloned(c, b) ==
    /\ CloneAt(c, "put")
    /\ b \in cl[c].made \ cl[c].put
    /\ \/ /\ stored' = stored \cup {b}
          /\ cl' = [cl EXCEPT ![c].put = @ \cup {b}]
          /\ NoFault
       \/ Fault /\ CloneAborts(c) /\ UNCHANGED stored
    /\ GoOn /\ UNCHANGED <<indexed, versionFile, localIndex, config, standing, work>>

\* FlushStores starts the flush and returns.
StartFlush(c) ==
    /\ CloneAt(c, "put")
    /\ cl[c].made \subseteq cl[c].put
    /\ cl' = [cl EXCEPT ![c] = [@ EXCEPT !.at = "publish", !.flush = "running"]]
    /\ GoOn /\ UNCHANGED <<fileVars, standing, faults, work>>

\* The store adds what was announced, what the last flush overtook included, but
\* for what this one overtakes (VersionStore: Overtaken).  Whether the session's cached index then
\* has it depends on the store (RemoteStore: AddBlocks).
EndFlush(c) ==
    /\ cl[c].flush = "running"
    /\ \/ \E late \in SUBSET cl[c].put :
             /\ Overtaken(late)
             /\ indexed' = indexed \cup cl[c].late \cup (cl[c].put \ late)
             /\ \E cached \in {cl[c].cached, indexed'} :
                   cl' = [cl EXCEPT ![c] = [@ EXCEPT !.flush = "ok", !.put = {},
                                                     !.late = late, !.cached = cached]]
       \/ Fault /\ cl' = [cl EXCEPT ![c].flush = "error"] /\ UNCHANGED indexed
    /\ GoOn /\ UNCHANGED <<stored, versionFile, localIndex, config, standing, work>>

WriteCloned(c) ==
    /\ CloneAt(c, "publish")
    /\ \/ /\ versionFile' = [versionFile EXCEPT ![cl[c].name] = cl[c].current]
          /\ standing' = [standing EXCEPT ![cl[c].name] = "unflushed"]
          /\ NoFault
          /\ CloneGoes(c, IF cl[c].local THEN "local" ELSE "wait")
       \/ Fault /\ CloneAborts(c) /\ UNCHANGED <<versionFile, standing>>
    /\ GoOn /\ UNCHANGED <<stored, indexed, localIndex, config, work>>

WriteClonedIndex(c) ==
    /\ CloneAt(c, "local")
    /\ \/ /\ localIndex' = [localIndex EXCEPT ![cl[c].name] = cl[c].found \cup cl[c].made]
          /\ NoFault
          /\ CloneGoes(c, "wait")
       \/ Fault /\ CloneAborts(c) /\ UNCHANGED localIndex
    /\ GoOn /\ UNCHANGED <<stored, indexed, versionFile, config, standing, work>>

FlushFailed(c) == cl[c].flush = "error"

\* StoreFlush.Wait: only now is the version known to be in the store.
WaitFlush(c) ==
    /\ CloneAt(c, "wait")
    /\ \/ /\ cl[c].flush = "ok"
          /\ cl' = [cl EXCEPT ![c] = [@ EXCEPT !.at = "next", !.flush = "none"]]
          /\ standing' = IF versionFile[cl[c].name] = cl[c].current /\ cl[c].late = {}
                         THEN [standing EXCEPT ![cl[c].name] = "good"] ELSE standing
       \/ FlushFailed(c) /\ CloneAborts(c) /\ UNCHANGED standing
    /\ GoOn /\ UNCHANGED <<fileVars, faults, work>>

\* The deferred Dispose of the target store adds what is still announced.
CloseClone(c) ==
    /\ CloneAt(c, "close")
    /\ \/ indexed' = indexed \cup cl[c].late \cup cl[c].put /\ NoFault
       \/ Fault /\ UNCHANGED indexed
    /\ CloneEnds(c, IF cl[c].ok THEN "done" ELSE "failed")
    /\ UNCHANGED <<stored, versionFile, localIndex, config, standing, work>>

CrashClone(c) ==
    /\ cl[c].at \notin CloneResting
    /\ Fault
    /\ CloneEnds(c, "failed")
    /\ UNCHANGED <<fileVars, standing, work>>

CloneProgress(c) ==
    \/ NextVersion(c) \/ ChangeWork(c) \/ Unzip(c) \/ Rescan(c) \/ FindCloned(c)
    \/ \E b \in Block : StoreCloned(c, b)
    \/ StartFlush(c) \/ EndFlush(c)
    \/ WriteCloned(c) \/ WriteClonedIndex(c) \/ WaitFlush(c) \/ CloseClone(c)

CloneStep(c) == StartClone(c) \/ CloneProgress(c) \/ CrashClone(c)

\* The version index that clone-store goes by is that of its work folder
\* whenever it reads files for new blocks, and when it goes on to the next
\* version: it never scans a folder that it has an index for.
WorkIsCurrent ==
    \A c \in Cloner :
        cl[c].at \in {"next", "query", "put", "publish", "local", "wait"}
            /\ cl[c].current # NoFile => work[c] = cl[c].current

=============================================================================
