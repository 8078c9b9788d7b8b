------------------------------- MODULE Commands -------------------------------
(***************************************************************************)
(* The commands at work on one store, by as many processes as a scenario   *)
(* has: uploads, prunes, clones and syncs of folders, in any interleaving  *)
(* of their calls.  They meet in the store and in the files beside it.     *)
(***************************************************************************)
EXTENDS UploadCommands, PruneCommands, CloneCommand, FolderCommands

vars == <<storeVars, up, pr, cloneVars, folderVars>>

ASSUME ScenarioAssumption ==
    \A s \in Scenario :
        /\ Plausible(s)
        /\ s.mix \subseteq Uploader \cup Pruner \cup Cloner \cup Folder
        /\ s.folder \in Contents /\ s.work \in Contents

\* Processes are told apart by what they do.
ASSUME ProcessAssumption ==
    /\ Uploader \cap (Pruner \cup Cloner \cup Folder) = {}
    /\ Pruner \cap (Cloner \cup Folder) = {}
    /\ Cloner \cap Folder = {}

TypeOK == StoreTypeOK /\ UploadTypeOK /\ PruneTypeOK /\ CloneTypeOK /\ FolderTypeOK

Init ==
    \E s \in Scenario :
        StoreInit(s) /\ UploadInit /\ PruneInit /\ CloneInit(s) /\ FolderInit(s)

Uploads == (\E u \in Uploader : UploadStep(u)) /\ UNCHANGED <<pr, cloneVars, folderVars>>

Prunes == (\E p \in Pruner : PruneStep(p)) /\ UNCHANGED <<up, cloneVars, folderVars>>

Clones == (\E c \in Cloner : CloneStep(c)) /\ UNCHANGED <<up, pr, folderVars>>

Syncs == (\E f \in Folder : FolderStep(f)) /\ UNCHANGED <<up, pr, cloneVars>>

Next == Uploads \/ Prunes \/ Clones \/ Syncs

Spec == Init /\ [][Next]_vars

-----------------------------------------------------------------------------

\* "Don't prune, just show": a prune that was asked for a dry run changes no
\* file, the .lsi files included (cmd_prunestore.go:407, and the same words for
\* the two other prunes).
DryRunKeepsAll ==
    [][\A p \in Pruner : pr[p].ask.dryRun /\ pr'[p] # pr[p] => UNCHANGED fileVars]_vars

\* The help of skip-invalid-versions says what happens without it: an "invalid
\* version will abort with an error" (cmd_prunestore.go:410).  So no listed
\* version loses its blocks because it was found invalid.
ListedSurvive ==
    \A n \in Name :
        ~overlapped /\ versionFile[n] # NoFile /\ standing[n] \in {"good", "dropped"}
            => Restorable(versionFile[n])

=============================================================================
