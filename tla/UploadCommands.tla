---------------------------- MODULE UploadCommands ----------------------------
(***************************************************************************)
(* The commands that write to a store or beside it, one version at a time: *)
(*   upsync, put               src/commands/cmd_upsync.go, cmd_put.go      *)
(*   create-version-store-index     cmd_createversionstoreindex.go         *)
(*   init-remote-store              cmd_initremotestore.go                 *)
(*                                                                         *)
(* Each call to the store or of WriteToURI is a step; a call may fail and  *)
(* the process may crash between any two.  A command that returns disposes *)
(* its store, and a store that closes still adds the blocks that were      *)
(* announced to it (RemoteStore: Close).                                   *)
(*                                                                         *)
(* The scan of the source folder comes before the first step, and its      *)
(* result is the version of the request; folders that change during an     *)
(* upload are not modelled.                                                *)
(***************************************************************************)
EXTENDS VersionStore

CONSTANTS
    Uploader, \* processes
    Upload    \* what users may ask for: [kind, name, version, local]

VARIABLE up   \* the command of each process

UploadKind == {"upsync", "put", "index", "init"}

ASSUME UploadAssumption ==
    /\ Upload \subseteq [kind : UploadKind, name : Name, version : Version, local : BOOLEAN]
    /\ \A chunks \in SUBSET Chunk : Packings(chunks) # {}

Resting == {"idle", "done", "failed"}

UploadPhase ==
    Resting \cup {"read", "query", "put", "publish", "local",
                  "list", "rebuild", "close", "config"}

IdleUpload ==
    [at |-> "idle", kind |-> "upsync", name |-> CHOOSE n \in Name : TRUE,
     version |-> NoFile, local |-> FALSE, found |-> {}, made |-> {}, put |-> {},
     ok |-> FALSE]

UploadState ==
    [at : UploadPhase, kind : UploadKind, name : Name,
     version : {NoFile} \cup Contents, local : BOOLEAN,
     found : SUBSET Block,  \* blocks of the store that the version will use
     made : SUBSET Block,   \* blocks to store for what was missing
     put : SUBSET Block,    \* those announced to the content index worker, not flushed
     ok : BOOLEAN]          \* no error so far

UploadTypeOK == up \in [Uploader -> UploadState]

UploadInit == up = [u \in Uploader |-> IdleUpload]

At(u, phase) == up[u].at = phase

Goes(u, phase) == up' = [up EXCEPT ![u].at = phase]

UploadEnds(u, phase) == up' = [up EXCEPT ![u] = [IdleUpload EXCEPT !.at = phase]] /\ End(u)

\* The command returns an error; its store is closed first.
Abort(u) == up' = [up EXCEPT ![u] = [@ EXCEPT !.at = "close", !.ok = FALSE]]

StartUpload(u) ==
    \E r \in Upload :
        /\ up[u].at \in Resting
        /\ Begin(u, IF r.kind = "index" THEN "read" ELSE "write")
        /\ up' = [up EXCEPT ![u] =
               [IdleUpload EXCEPT
                   !.at = CASE r.kind = "index" -> "read"
                            [] r.kind = "init" -> "list"
                            [] OTHER -> "query",
                   !.kind = r.kind, !.name = r.name, !.local = r.local, !.ok = TRUE,
                   !.version = IF r.kind \in {"upsync", "put"} THEN r.version ELSE NoFile]]
        /\ UNCHANGED <<fileVars, standing, faults>>

\* create-version-store-index reads the version index that it is for.
ReadVersion(u) ==
    /\ At(u, "read")
    /\ LET v == versionFile[up[u].name]
       IN \/ /\ v # NoFile /\ NoFault
             /\ up' = [up EXCEPT ![u] = [@ EXCEPT !.at = "query", !.version = v]]
          \/ v = NoFile /\ NoFault /\ Abort(u)
          \/ Fault /\ Abort(u)
    /\ GoOn /\ UNCHANGED <<fileVars, standing>>

\* GetExistingStoreIndexSync and CreateMissingContent.
FindExisting(u) ==
    /\ At(u, "query")
    /\ \/ /\ up[u].kind # "index"
          /\ \E index \in WorthReusing(indexed, Needed(up[u].version)) :
                \E found \in Existing(index, Needed(up[u].version)) :
                \E made \in Packings(Needed(up[u].version) \ Content(found)) :
                    up' = [up EXCEPT ![u] = [@ EXCEPT !.at = "put",
                                     !.found = found, !.made = made]]
          /\ NoFault
       \/ /\ up[u].kind = "index"
          /\ \E found \in Existing(indexed, Needed(up[u].version)) :
                up' = [up EXCEPT ![u] = [@ EXCEPT !.at = "local", !.found = found]]
          /\ NoFault
       \/ Fault /\ Abort(u)
    /\ GoOn /\ UNCHANGED <<fileVars, standing>>

\* The blocks announced to the content index worker after a put.
\* MUTANT of Announced: one that could not be stored as well.
AnnouncedAlways(u, b, ok) == up[u].put \cup {b}

Announced(u, b, ok) == IF ok THEN up[u].put \cup {b} ELSE up[u].put

\* WriteContent: the blocks are stored in any order; it returns the first error.
StoreBlock(u, b) ==
    /\ At(u, "put")
    /\ b \in up[u].made \ up[u].put
    /\ \/ /\ stored' = stored \cup {b}
          /\ up' = [up EXCEPT ![u].put = Announced(u, b, TRUE)]
          /\ NoFault
       \/ /\ Fault /\ UNCHANGED stored
          /\ up' = [up EXCEPT ![u] = [@ EXCEPT !.at = "close", !.ok = FALSE,
                                               !.put = Announced(u, b, FALSE)]]
    /\ GoOn /\ UNCHANGED <<indexed, versionFile, localIndex, config, standing>>

\* MUTANT of FlushFails: the error goes unnoticed, and what was announced is taken
\* for added.
FlushIgnored(u) == up' = [up EXCEPT ![u] = [@ EXCEPT !.at = "publish", !.put = {}]]

FlushFails(u) == Abort(u)

\* FlushStoresSync: what was announced is added to the store index, but for the
\* announcements that the flush overtook (VersionStore: Overtaken).
FlushUpload(u) ==
    /\ At(u, "put")
    /\ up[u].made \subseteq up[u].put
    /\ \/ \E late \in SUBSET up[u].put :
             /\ Overtaken(late)
             /\ indexed' = indexed \cup (up[u].put \ late)
             /\ up' = [up EXCEPT ![u] = [@ EXCEPT !.at = "publish", !.put = late]]
       \/ Fault /\ FlushFails(u) /\ UNCHANGED indexed
    /\ GoOn /\ UNCHANGED <<stored, versionFile, localIndex, config, standing>>

\* The version index is written last, so that whoever reads it finds its blocks,
\* once the flush has told of all of them.
WriteVersion(u) ==
    /\ At(u, "publish")
    /\ \/ /\ versionFile' = [versionFile EXCEPT ![up[u].name] = up[u].version]
          /\ standing' = [standing EXCEPT ![up[u].name] =
                              IF up[u].put = {} THEN "good" ELSE "unflushed"]
          /\ NoFault
          /\ Goes(u, IF up[u].local THEN "local" ELSE "close")
       \/ Fault /\ Abort(u) /\ UNCHANGED <<versionFile, standing>>
    /\ GoOn /\ UNCHANGED <<stored, indexed, localIndex, config>>

WriteLocalIndex(u) ==
    /\ At(u, "local")
    /\ \/ /\ localIndex' = [localIndex EXCEPT ![up[u].name] = up[u].found \cup up[u].made]
          /\ NoFault
          /\ Goes(u, "close")
       \/ Fault /\ Abort(u) /\ UNCHANGED localIndex
    /\ GoOn /\ UNCHANGED <<stored, indexed, versionFile, config, standing>>

-----------------------------------------------------------------------------
(* init-remote-store *)

\* getStoreIndexFromBlocks reads every block under chunks/, several at a time;
\* one that cannot be read is left out, and no error is returned.
ListBlocks(u) ==
    /\ At(u, "list")
    /\ \/ up' = [up EXCEPT ![u] = [@ EXCEPT !.at = "rebuild", !.found = stored]] /\ NoFault
       \/ Fault /\ Abort(u)
    /\ GoOn /\ UNCHANGED <<fileVars, standing>>

ReadBlock(u, b) ==
    /\ At(u, "rebuild")
    /\ b \in up[u].found \ up[u].made
    /\ \/ /\ up' = [up EXCEPT ![u] = [@ EXCEPT !.made = up[u].made \cup {b},
                                               !.put = up[u].put \cup ({b} \cap stored)]]
          /\ NoFault
       \/ Fault /\ up' = [up EXCEPT ![u].made = @ \cup {b}]
    /\ GoOn /\ UNCHANGED <<fileVars, standing>>

\* readRemoteStoreIndex adds the rebuilt index to the one that is there; when
\* that fails, it logs a warning and goes on.
AddRebuilt(u) ==
    /\ At(u, "rebuild")
    /\ up[u].found = up[u].made
    /\ \/ indexed' = indexed \cup up[u].put /\ NoFault
       \/ Fault /\ UNCHANGED indexed
    /\ up' = [up EXCEPT ![u] = [@ EXCEPT !.at = "close", !.put = {}]]
    /\ GoOn /\ UNCHANGED <<stored, versionFile, localIndex, config, standing>>

-----------------------------------------------------------------------------

\* The deferred Dispose of the store: Close adds what is still announced, and
\* has nobody to report a failure to.  Only put goes on after it.
CloseUpload(u) ==
    /\ At(u, "close")
    /\ \/ indexed' = indexed \cup up[u].put /\ NoFault
       \/ Fault /\ UNCHANGED indexed
    /\ IF up[u].kind = "put" /\ up[u].ok
       THEN Goes(u, "config") /\ GoOn
       ELSE UploadEnds(u, IF up[u].ok THEN "done" ELSE "failed")
    /\ UNCHANGED <<stored, versionFile, localIndex, config, standing>>

\* put writes the get-config when upsync returned no error.
WriteConfig(u) ==
    /\ At(u, "config")
    /\ \/ config' = config \cup {up[u].name} /\ NoFault /\ UploadEnds(u, "done")
       \/ Fault /\ UploadEnds(u, "failed") /\ UNCHANGED config
    /\ UNCHANGED <<stored, indexed, versionFile, localIndex, standing>>

CrashUpload(u) ==
    /\ up[u].at \notin Resting
    /\ Fault
    /\ UploadEnds(u, "failed")
    /\ UNCHANGED <<fileVars, standing>>

UploadProgress(u) ==
    \/ ReadVersion(u) \/ FindExisting(u)
    \/ \E b \in Block : StoreBlock(u, b) \/ ReadBlock(u, b)
    \/ FlushUpload(u) \/ WriteVersion(u) \/ WriteLocalIndex(u)
    \/ ListBlocks(u) \/ AddRebuilt(u)
    \/ CloseUpload(u) \/ WriteConfig(u)

UploadStep(u) == StartUpload(u) \/ UploadProgress(u) \/ CrashUpload(u)

=============================================================================
