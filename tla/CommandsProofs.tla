---------------------------- MODULE CommandsProofs ----------------------------
(***************************************************************************)
(* Proofs about the commands, for any stores, folders, requests, processes *)
(* and bounds: the types, and what commands make of folders.               *)
(***************************************************************************)
EXTENDS Commands, FiniteSetTheorems, TLAPS

-----------------------------------------------------------------------------
(* Types                                                                   *)

LEMMA RunTypes ==
    /\ \A x, role : RunTypeOK /\ role \in Role /\ faults' \in Nat /\ Begin(x, role) => RunTypeOK'
    /\ \A x : RunTypeOK /\ faults' \in Nat /\ End(x) => RunTypeOK'
    /\ RunTypeOK /\ faults' \in Nat /\ GoOn => RunTypeOK'
    /\ RunTypeOK /\ (Fault \/ NoFault \/ UNCHANGED faults) => faults' \in Nat
<1>1. ASSUME NEW x, NEW role, RunTypeOK, role \in Role, faults' \in Nat, Begin(x, role)
      PROVE  RunTypeOK'
  <2>1. running' \subseteq mix' \X Role
    BY <1>1 DEF RunTypeOK, Begin
  <2>2. disturbed' \subseteq mix'
    <3>1. {r[1] : r \in {s \in running : s[2] = "read"}} \subseteq mix
      BY <1>1 DEF RunTypeOK
    <3> QED BY <3>1, <1>1 DEF RunTypeOK, Begin
  <2>3. overlapped' \in BOOLEAN
    BY <1>1 DEF RunTypeOK, Begin
  <2> QED BY <2>1, <2>2, <2>3, <1>1 DEF RunTypeOK, Begin
<1>2. ASSUME NEW x, RunTypeOK, faults' \in Nat, End(x) PROVE RunTypeOK'
  BY <1>2 DEF RunTypeOK, End
<1>3. RunTypeOK /\ faults' \in Nat /\ GoOn => RunTypeOK'
  BY DEF RunTypeOK, GoOn, runVars
<1>4. RunTypeOK /\ (Fault \/ NoFault \/ UNCHANGED faults) => faults' \in Nat
  BY DEF RunTypeOK, Fault, NoFault
<1> QED BY <1>1, <1>2, <1>3, <1>4

LEMMA IdleUploadType ==
    \A at \in Resting : [IdleUpload EXCEPT !.at = at] \in UploadState /\ IdleUpload \in UploadState
<1> (CHOOSE n \in Name : TRUE) \in Name
  BY VersionStoreAssumption
<1> QED BY DEF IdleUpload, UploadState, UploadPhase, UploadKind, Resting

(* The updates that the steps of an upload make.                           *)
LEMMA UploadUpdates ==
    ASSUME NEW s \in UploadState, NEW at \in UploadPhase, NEW ok \in BOOLEAN,
           NEW x \in SUBSET Block, NEW y \in SUBSET Block, NEW v \in {NoFile} \cup Contents
    PROVE  /\ [s EXCEPT !.at = at] \in UploadState
           /\ [s EXCEPT !.at = at, !.ok = ok] \in UploadState
           /\ [s EXCEPT !.at = at, !.version = v] \in UploadState
           /\ [s EXCEPT !.at = at, !.found = x, !.made = y] \in UploadState
           /\ [s EXCEPT !.at = at, !.found = x] \in UploadState
           /\ [s EXCEPT !.at = at, !.put = x] \in UploadState
           /\ [s EXCEPT !.put = x] \in UploadState
           /\ [s EXCEPT !.at = at, !.ok = ok, !.put = x] \in UploadState
           /\ [s EXCEPT !.made = x, !.put = y] \in UploadState
           /\ [s EXCEPT !.made = x] \in UploadState
BY DEF UploadState

LEMMA UploadFields ==
    ASSUME NEW s \in UploadState
    PROVE  /\ s.at \in UploadPhase /\ s.name \in Name
           /\ s.found \in SUBSET Block /\ s.made \in SUBSET Block /\ s.put \in SUBSET Block
           /\ s.version \in {NoFile} \cup Contents
BY DEF UploadState

LEMMA UploadPhases ==
    /\ {"read", "query", "put", "publish", "local"} \subseteq UploadPhase
    /\ {"list", "rebuild", "close", "config"} \subseteq UploadPhase
    /\ Resting \subseteq UploadPhase
BY DEF UploadPhase

(* What an upload does to the files: each step writes one of them.         *)
LEMMA UploadTypes ==
    ASSUME StoreTypeOK, UploadTypeOK, NEW u \in Uploader, UploadStep(u)
    PROVE  StoreTypeOK' /\ UploadTypeOK'
<1> DEFINE s == up[u]
<1> USE DEF StoreTypeOK, UploadTypeOK
<1>a. s \in UploadState
  OBVIOUS
<1>f. /\ s.at \in UploadPhase /\ s.name \in Name
      /\ s.found \in SUBSET Block /\ s.made \in SUBSET Block /\ s.put \in SUBSET Block
      /\ s.version \in {NoFile} \cup Contents
  BY <1>a, UploadFields
<1>n. ASSUME NEW t \in UploadState, up' = [up EXCEPT ![u] = t] PROVE UploadTypeOK'
  BY <1>n
<1>u. \A at \in UploadPhase : up' = [up EXCEPT ![u].at = at] => UploadTypeOK'
  BY <1>a, UploadUpdates
<1>x. Abort(u) => UploadTypeOK'
  BY <1>a, UploadUpdates, UploadPhases DEF Abort
<1>b. ASSUME NEW phase \in Resting, UploadEnds(u, phase), faults' \in Nat
      PROVE  RunTypeOK' /\ UploadTypeOK'
  <2>1. RunTypeOK'
    BY <1>b, RunTypes DEF UploadEnds
  <2>2. UploadTypeOK'
    BY <1>b, IdleUploadType DEF UploadEnds
  <2> QED BY <2>1, <2>2
<1>1. CASE StartUpload(u)
  <2>1. PICK r \in Upload :
           /\ Begin(u, IF r.kind = "index" THEN "read" ELSE "write")
           /\ up' = [up EXCEPT ![u] =
               [IdleUpload EXCEPT
                   !.at = CASE r.kind = "index" -> "read"
                            [] r.kind = "init" -> "list"
                            [] OTHER -> "query",
                   !.kind = r.kind, !.name = r.name, !.local = r.local, !.ok = TRUE,
                   !.version = IF r.kind \in {"upsync", "put"} THEN r.version ELSE NoFile]]
           /\ UNCHANGED <<fileVars, standing, faults>>
    BY <1>1 DEF StartUpload
  <2>2. r.kind \in UploadKind /\ r.name \in Name /\ r.version \in Contents /\ r.local \in BOOLEAN
    BY UploadAssumption, VersionStoreAssumption DEF Contents
  <2>3. RunTypeOK'
    BY RunTypes, <2>1 DEF Role
  <2>4. FilesTypeOK'
    BY <2>1 DEF FilesTypeOK, fileVars
  <2>5. UploadTypeOK'
    <3>1. IdleUpload \in UploadState
      BY IdleUploadType DEF Resting
    <3>2. PICK at \in UploadPhase, version \in {NoFile} \cup Contents :
             up' = [up EXCEPT ![u] =
                 [IdleUpload EXCEPT !.at = at, !.kind = r.kind, !.name = r.name,
                                    !.local = r.local, !.ok = TRUE, !.version = version]]
      BY <2>1, <2>2, UploadPhases
    <3>3. [IdleUpload EXCEPT !.at = at, !.kind = r.kind, !.name = r.name,
                             !.local = r.local, !.ok = TRUE, !.version = version] \in UploadState
      BY <3>1, <2>2 DEF UploadState
    <3> QED BY <3>2, <3>3, <1>n
  <2> QED BY <2>3, <2>4, <2>5
<1>2. CASE ReadVersion(u)
  <2>1. RunTypeOK' /\ FilesTypeOK'
    BY RunTypes, <1>2 DEF ReadVersion, FilesTypeOK, fileVars
  <2>2. versionFile[s.name] \in {NoFile} \cup Contents
    BY <1>f DEF FilesTypeOK
  <2>3. UploadTypeOK'
    <3>1. [s EXCEPT !.at = "query", !.version = versionFile[s.name]] \in UploadState
      BY <1>a, <2>2, UploadUpdates, UploadPhases
    <3> QED BY <1>2, <1>n, <1>x, <3>1 DEF ReadVersion
  <2> QED BY <2>1, <2>3
<1>3. CASE FindExisting(u)
  <2>1. RunTypeOK' /\ FilesTypeOK'
    BY RunTypes, <1>3 DEF FindExisting, FilesTypeOK, fileVars
  <2>2. \A index, chunks : \A found \in Existing(index, chunks) : found \subseteq index
    BY DEF Existing
  <2>3. \A chunks : WorthReusing(indexed, chunks) \subseteq SUBSET Block
    BY DEF WorthReusing, FilesTypeOK
  <2>4. \A chunks : Packings(chunks) \subseteq SUBSET Block
    BY DEF Packings
  <2>5. ASSUME NEW index \in WorthReusing(indexed, Needed(s.version)),
               NEW found \in Existing(index, Needed(s.version)),
               NEW made \in Packings(Needed(s.version) \ Content(found)),
               up' = [up EXCEPT ![u] = [@ EXCEPT !.at = "put",
                                                 !.found = found, !.made = made]]
        PROVE  UploadTypeOK'
    <3>1. found \in SUBSET Block /\ made \in SUBSET Block
      BY <2>2, <2>3, <2>4
    <3> QED BY <2>5, <3>1, <1>a, UploadUpdates, UploadPhases
  <2>6. ASSUME NEW found \in Existing(indexed, Needed(s.version)),
               up' = [up EXCEPT ![u] = [@ EXCEPT !.at = "local", !.found = found]]
        PROVE  UploadTypeOK'
    <3>1. found \in SUBSET Block
      BY <2>2 DEF FilesTypeOK
    <3> QED BY <2>6, <3>1, <1>a, UploadUpdates, UploadPhases
  <2>7. UploadTypeOK'
    BY <1>3, <1>x, <2>5, <2>6 DEF FindExisting
  <2> QED BY <2>1, <2>7
<1>4. ASSUME NEW b \in Block, StoreBlock(u, b) PROVE StoreTypeOK' /\ UploadTypeOK'
  <2>1. RunTypeOK' /\ FilesTypeOK'
    BY RunTypes, <1>4 DEF StoreBlock, FilesTypeOK
  <2>2. s.put \cup {b} \in SUBSET Block
    BY <1>f
  <2>3. UploadTypeOK'
    <3>1. CASE up' = [up EXCEPT ![u].put = s.put \cup {b}]
      BY <3>1, <1>a, <1>f, <2>2, UploadUpdates
    <3>2. CASE up' = [up EXCEPT ![u] = [s EXCEPT !.at = "close", !.ok = FALSE, !.put = s.put]]
      BY <3>2, <1>a, <1>f, UploadUpdates, UploadPhases
    <3> QED BY <1>4, <3>1, <3>2 DEF StoreBlock, Announced
  <2> QED BY <2>1, <2>3
<1>5. ASSUME NEW b \in Block, ReadBlock(u, b) PROVE StoreTypeOK' /\ UploadTypeOK'
  <2>1. RunTypeOK' /\ FilesTypeOK'
    BY RunTypes, <1>5 DEF ReadBlock, FilesTypeOK, fileVars
  <2>2. s.made \cup {b} \in SUBSET Block /\ s.put \cup {b} \in SUBSET Block
    BY <1>f
  <2>3. UploadTypeOK'
    <3>1. CASE up' = [up EXCEPT ![u] = [s EXCEPT !.made = s.made \cup {b},
                                                 !.put = s.put \cup ({b} \cap stored)]]
      <4>1. s.put \cup ({b} \cap stored) \in SUBSET Block
        BY <1>f, <2>2
      <4> QED BY <3>1, <4>1, <1>a, <1>f, <2>2, UploadUpdates
    <3>2. CASE up' = [up EXCEPT ![u].made = s.made \cup {b}]
      BY <3>2, <1>a, <1>f, <2>2, UploadUpdates
    <3> QED BY <1>5, <3>1, <3>2 DEF ReadBlock
  <2> QED BY <2>1, <2>3
<1>6. CASE FlushUpload(u)
  <2>1. RunTypeOK' /\ FilesTypeOK'
    BY RunTypes, <1>6, <1>f DEF FlushUpload, Overtaken, FilesTypeOK
  <2>2. \A late \in SUBSET s.put : [s EXCEPT !.at = "publish", !.put = late] \in UploadState
    BY <1>a, <1>f, UploadUpdates, UploadPhases
  <2>3. UploadTypeOK'
    BY <1>6, <2>2, <1>n, <1>x DEF FlushUpload, FlushFails
  <2> QED BY <2>1, <2>3
<1>7. CASE WriteVersion(u)
  <2>1. RunTypeOK'
    BY RunTypes, <1>7 DEF WriteVersion
  <2>2. FilesTypeOK'
    BY <1>7, <1>f DEF WriteVersion, FilesTypeOK, Standing
  <2>3. UploadTypeOK'
    BY <1>7, <1>u, <1>x, UploadPhases DEF WriteVersion, Goes
  <2> QED BY <2>1, <2>2, <2>3
<1>8. CASE WriteLocalIndex(u)
  <2>1. RunTypeOK'
    BY RunTypes, <1>8 DEF WriteLocalIndex
  <2>2. FilesTypeOK'
    BY <1>8, <1>f DEF WriteLocalIndex, FilesTypeOK
  <2>3. UploadTypeOK'
    BY <1>8, <1>u, <1>x, UploadPhases DEF WriteLocalIndex, Goes
  <2> QED BY <2>1, <2>2, <2>3
<1>9. CASE ListBlocks(u)
  <2>1. RunTypeOK' /\ FilesTypeOK'
    BY RunTypes, <1>9 DEF ListBlocks, FilesTypeOK, fileVars
  <2>2. stored \in SUBSET Block
    BY DEF FilesTypeOK
  <2>3. UploadTypeOK'
    <3>1. [s EXCEPT !.at = "rebuild", !.found = stored] \in UploadState
      BY <1>a, <2>2, UploadUpdates, UploadPhases
    <3> QED BY <1>9, <1>n, <1>x, <3>1 DEF ListBlocks
  <2> QED BY <2>1, <2>3
<1>10. CASE AddRebuilt(u)
  <2>1. RunTypeOK' /\ FilesTypeOK'
    BY RunTypes, <1>10, <1>f DEF AddRebuilt, FilesTypeOK
  <2>2. UploadTypeOK'
    BY <1>10, <1>a, UploadUpdates, UploadPhases DEF AddRebuilt
  <2> QED BY <2>1, <2>2
<1>11. CASE CloseUpload(u)
  <2>1. faults' \in Nat /\ FilesTypeOK'
    BY RunTypes, <1>11, <1>f DEF CloseUpload, FilesTypeOK
  <2>2. CASE Goes(u, "config") /\ GoOn
    BY <2>1, <2>2, <1>u, RunTypes, UploadPhases DEF Goes
  <2>3. CASE UploadEnds(u, IF s.ok THEN "done" ELSE "failed")
    BY <2>1, <2>3, <1>b DEF Resting
  <2> QED BY <1>11, <2>2, <2>3 DEF CloseUpload
<1>12. CASE WriteConfig(u)
  <2>1. faults' \in Nat /\ FilesTypeOK'
    BY RunTypes, <1>12, <1>f DEF WriteConfig, FilesTypeOK
  <2>2. RunTypeOK' /\ UploadTypeOK'
    BY <1>12, <2>1, <1>b DEF WriteConfig, Resting
  <2> QED BY <2>1, <2>2
<1>13. CASE CrashUpload(u)
  <2>1. faults' \in Nat /\ FilesTypeOK'
    BY RunTypes, <1>13 DEF CrashUpload, FilesTypeOK, fileVars
  <2>2. RunTypeOK' /\ UploadTypeOK'
    BY <1>13, <2>1, <1>b DEF CrashUpload, Resting
  <2> QED BY <2>1, <2>2
<1> QED BY <1>1, <1>2, <1>3, <1>4, <1>5, <1>6, <1>7, <1>8, <1>9, <1>10, <1>11, <1>12, <1>13
        DEF UploadStep, UploadProgress

-----------------------------------------------------------------------------
(* Types of the prunes.  That the pool is never more than full needs that  *)
(* its sets are finite, and Head and Tail that there is a version left.    *)

PoolOK(s) ==
    /\ IsFiniteSet(s.jobs) /\ IsFiniteSet(s.results)
    /\ Cardinality(s.jobs) + Cardinality(s.results) <= PoolSize

PruneOK(s) ==
    /\ s \in PruneState
    /\ PoolOK(s)
    /\ s.at = "next" => s.todo # <<>>

PruneInv == pr = [p \in Pruner |-> pr[p]] /\ \A p \in Pruner : PruneOK(pr[p])

LEMMA PrunePhases ==
    /\ {"index", "next", "drain", "final", "prune", "scan", "delete"} \subseteq PrunePhase
    /\ PruneResting \subseteq PrunePhase
    /\ "next" \notin PruneResting
BY DEF PrunePhase, PruneResting

LEMMA PruneFields ==
    ASSUME NEW s \in PruneState
    PROVE  /\ s.at \in PrunePhase /\ s.todo \in Seq(Name)
           /\ s.ask \in Prune \cup {IdlePrune.ask}
           /\ s.jobs \in SUBSET Name /\ s.results \in SUBSET Result
           /\ s.used \in SUBSET Block /\ s.err \in BOOLEAN
           /\ s.index \in {NoFile} \cup SUBSET Block
           /\ s.listed \in {NoFile} \cup SUBSET Block
           /\ s.doomed \in SUBSET Block
           /\ s.dropped \in SUBSET Name /\ s.stale \in SUBSET Name
BY DEF PruneState

LEMMA IdlePruneType ==
    /\ IdlePrune \in PruneState
    /\ \A at \in PruneResting : PruneOK([IdlePrune EXCEPT !.at = at])
<1> IdlePrune \in PruneState
  <2>1. IdlePrune.ask \in Prune \cup {IdlePrune.ask}
    OBVIOUS
  <2> QED BY <2>1 DEF IdlePrune, PruneState, PrunePhase, PruneResting
<1> SUFFICES ASSUME NEW at \in PruneResting PROVE PruneOK([IdlePrune EXCEPT !.at = at])
  OBVIOUS
<1>1. [IdlePrune EXCEPT !.at = at] \in PruneState
  BY PrunePhases DEF PruneState
<1>2. PoolOK([IdlePrune EXCEPT !.at = at])
  BY FS_EmptySet, PruneAssumption DEF IdlePrune, PoolOK
<1> QED BY <1>1, <1>2, PrunePhases DEF PruneOK, IdlePrune

(* A result that is taken leaves room in the pool.                         *)
LEMMA PoolTakes ==
    ASSUME NEW s, NEW t, PoolOK(s), NEW r \in s.results,
           t.jobs = s.jobs, t.results = s.results \ {r}
    PROVE  PoolOK(t)
BY FS_RemoveElement, FS_CardinalityType, PruneAssumption DEF PoolOK

(* A goroutine that sends its result makes way for it.                     *)
LEMMA PoolSends ==
    ASSUME NEW s, NEW t, PoolOK(s), NEW n \in s.jobs, NEW r,
           t.jobs = s.jobs \ {n}, t.results = s.results \cup {r}
    PROVE  PoolOK(t)
<1>1. IsFiniteSet(t.jobs) /\ Cardinality(t.jobs) = Cardinality(s.jobs) - 1
  <2>1. IsFiniteSet(s.jobs)
    BY DEF PoolOK
  <2> QED BY <2>1, FS_RemoveElement
<1>2. /\ IsFiniteSet(t.results)
      /\ Cardinality(t.results) \in {Cardinality(s.results), Cardinality(s.results) + 1}
  <2>1. IsFiniteSet(s.results)
    BY DEF PoolOK
  <2>2. IsFiniteSet(s.results \cup {r})
    BY <2>1, FS_AddElement
  <2>3. Cardinality(s.results \cup {r}) \in {Cardinality(s.results), Cardinality(s.results) + 1}
    BY <2>1, FS_AddElement
  <2> QED BY <2>2, <2>3
<1>3. Cardinality(s.jobs) \in Nat /\ Cardinality(s.results) \in Nat
  BY FS_CardinalityType DEF PoolOK
<1> QED BY <1>1, <1>2, <1>3, PruneAssumption DEF PoolOK

LEMMA PoolStarts ==
    ASSUME NEW s, NEW t, PoolOK(s), NEW n,
           Cardinality(s.jobs) + Cardinality(s.results) < PoolSize,
           t.jobs = s.jobs \cup {n}, t.results = s.results
    PROVE  PoolOK(t)
<1>1. /\ IsFiniteSet(t.jobs)
      /\ Cardinality(t.jobs) \in {Cardinality(s.jobs), Cardinality(s.jobs) + 1}
  <2>1. IsFiniteSet(s.jobs)
    BY DEF PoolOK
  <2>2. IsFiniteSet(s.jobs \cup {n})
    BY <2>1, FS_AddElement
  <2>3. Cardinality(s.jobs \cup {n}) \in {Cardinality(s.jobs), Cardinality(s.jobs) + 1}
    BY <2>1, FS_AddElement
  <2> QED BY <2>2, <2>3
<1>2. Cardinality(s.jobs) \in Nat /\ Cardinality(s.results) \in Nat
  BY FS_CardinalityType DEF PoolOK
<1> QED BY <1>1, <1>2, PruneAssumption DEF PoolOK

LEMMA PruneTypes ==
    ASSUME StoreTypeOK, PruneInv, NEW p \in Pruner, PruneStep(p)
    PROVE  StoreTypeOK' /\ PruneInv'
<1> DEFINE s == pr[p]
<1> USE DEF StoreTypeOK
<1>s. PruneOK(s) /\ s \in PruneState /\ PoolOK(s)
  BY DEF PruneInv, PruneOK
<1>f. /\ s.at \in PrunePhase /\ s.todo \in Seq(Name)
      /\ s.ask \in Prune \cup {IdlePrune.ask}
      /\ s.jobs \in SUBSET Name /\ s.results \in SUBSET Result
      /\ s.used \in SUBSET Block /\ s.err \in BOOLEAN
      /\ s.index \in {NoFile} \cup SUBSET Block
      /\ s.listed \in {NoFile} \cup SUBSET Block
      /\ s.doomed \in SUBSET Block
      /\ s.dropped \in SUBSET Name /\ s.stale \in SUBSET Name
  BY <1>s, PruneFields
<1>n. ASSUME NEW t, PruneOK(t), pr' = [pr EXCEPT ![p] = t] PROVE PruneInv'
  BY <1>n DEF PruneInv
<1>g. \A at \in PrunePhase \ {"next"} : pr' = [pr EXCEPT ![p].at = at] => PruneInv'
  <2> SUFFICES ASSUME NEW at \in PrunePhase \ {"next"} PROVE PruneOK([s EXCEPT !.at = at])
    BY <1>n DEF PruneInv
  <2>1. [s EXCEPT !.at = at] \in PruneState
    BY <1>s DEF PruneState
  <2>2. PoolOK([s EXCEPT !.at = at])
    BY <1>s DEF PoolOK, PruneState
  <2> QED BY <2>1, <2>2, <1>s DEF PruneOK, PruneState
<1>b. ASSUME NEW phase \in PruneResting, PruneEnds(p, phase), faults' \in Nat
      PROVE  RunTypeOK' /\ PruneInv'
  <2>1. RunTypeOK'
    BY <1>b, RunTypes DEF PruneEnds
  <2>2. PruneInv'
    BY <1>b, <1>n, IdlePruneType DEF PruneEnds
  <2> QED BY <2>1, <2>2
<1>k. ASSUME NEW t \in PruneState, t.jobs = s.jobs, t.results = s.results,
             t.at = "next" => t.todo # <<>>
      PROVE  PruneOK(t)
  BY <1>k, <1>s DEF PruneOK, PoolOK
<1>1. CASE StartPrune(p)
  <2>1. PICK r \in Prune :
           /\ Begin(p, "prune")
           /\ pr' = [pr EXCEPT ![p] =
               [IdlePrune EXCEPT
                   !.ask = r, !.todo = r.list,
                   !.at = CASE r.kind = "blocks" -> "scan"
                            [] r.kind = "index" -> "index"
                            [] OTHER -> IF r.list = <<>> THEN "final" ELSE "next"]]
           /\ UNCHANGED <<fileVars, standing, faults>>
    BY <1>1 DEF StartPrune
  <2>2. RunTypeOK' /\ FilesTypeOK'
    BY <2>1, RunTypes DEF Role, FilesTypeOK, fileVars
  <2>3. PICK at \in PrunePhase :
           /\ at = "next" => r.list # <<>>
           /\ pr' = [pr EXCEPT ![p] = [IdlePrune EXCEPT !.ask = r, !.todo = r.list, !.at = at]]
    BY <2>1, PrunePhases
  <2> DEFINE t == [IdlePrune EXCEPT !.ask = r, !.todo = r.list, !.at = at]
  <2>4. r.list \in Seq(Name)
    BY PruneAssumption DEF PruneRequest
  <2>5. t \in PruneState
    BY <2>4, IdlePruneType DEF PruneState
  <2>6. PoolOK(t)
    BY FS_EmptySet, PruneAssumption DEF IdlePrune, PoolOK
  <2>7. t.at = at /\ t.todo = r.list
    BY DEF IdlePrune
  <2>8. PruneInv'
    BY <2>3, <2>5, <2>6, <2>7, <1>n DEF PruneOK
  <2> QED BY <2>2, <2>8
<1>2. CASE ReadPrunedIndex(p)
  <2>1. faults' \in Nat /\ FilesTypeOK'
    BY RunTypes, <1>2 DEF ReadPrunedIndex, FilesTypeOK, fileVars
  <2>2. ASSUME NEW at \in PrunePhase, at = "next" => s.todo # <<>>, GoOn,
               pr' = [pr EXCEPT ![p] = [s EXCEPT !.index = indexed, !.at = at]]
        PROVE  RunTypeOK' /\ PruneInv'
    <3>1. [s EXCEPT !.index = indexed, !.at = at] \in PruneState
      BY <1>s DEF PruneState, FilesTypeOK
    <3>2. PruneOK([s EXCEPT !.index = indexed, !.at = at])
      BY <3>1, <1>k, <1>s, <2>2 DEF PruneState
    <3> QED BY <3>2, <2>1, <2>2, <1>n, RunTypes
  <2> QED BY <1>2, <1>b, <2>1, <2>2, PrunePhases DEF ReadPrunedIndex, PruneResting
<1>3. CASE TakeWhenFull(p)
  <2>1. RunTypeOK' /\ FilesTypeOK'
    BY RunTypes, <1>3 DEF TakeWhenFull, FilesTypeOK, fileVars
  <2>2. PICK r \in s.results, names \in SUBSET Name, used \in SUBSET Block :
           pr' = [pr EXCEPT ![p] = [s EXCEPT
                    !.results = s.results \ {r}, !.used = used, !.dropped = names]]
    BY <1>3, <1>f DEF TakeWhenFull, Used, Result
  <2> DEFINE t == [s EXCEPT !.results = s.results \ {r}, !.used = used, !.dropped = names]
  <2>3. t \in PruneState
    BY <1>s, <1>f DEF PruneState
  <2>4. t.jobs = s.jobs /\ t.results = s.results \ {r} /\ t.at = s.at /\ t.todo = s.todo
    BY <1>s DEF PruneState
  <2>5. PruneOK(t)
    BY <2>3, <2>4, <1>s, PoolTakes DEF PruneOK
  <2> QED BY <2>1, <2>2, <2>5, <1>n
<1>4. CASE LaunchPruneOne(p)
  <2>1. RunTypeOK' /\ FilesTypeOK'
    BY RunTypes, <1>4 DEF LaunchPruneOne, FilesTypeOK, fileVars
  <2>2. s.todo # <<>>
    BY <1>4, <1>s DEF LaunchPruneOne, PruneAt, PruneOK
  <2>3. Head(s.todo) \in Name /\ Tail(s.todo) \in Seq(Name)
    BY <1>f, <2>2
  <2> DEFINE t == [s EXCEPT !.at = "drain", !.jobs = s.jobs \cup {Head(s.todo)},
                            !.todo = Tail(s.todo)]
  <2>4. t \in PruneState
    BY <1>s, <1>f, <2>3, PrunePhases DEF PruneState
  <2>5. t.jobs = s.jobs \cup {Head(s.todo)} /\ t.results = s.results /\ t.at = "drain"
    BY <1>s DEF PruneState
  <2>6. Cardinality(s.jobs) + Cardinality(s.results) < PoolSize
    BY <1>4 DEF LaunchPruneOne, Active
  <2>7. PruneOK(t)
    BY <2>4, <2>5, <2>6, <1>s, PoolStarts DEF PruneOK
  <2> QED BY <1>4, <2>1, <2>7, <1>n DEF LaunchPruneOne
<1>5. CASE TakeReady(p) \/ TakeLast(p)
  <2>1. RunTypeOK' /\ FilesTypeOK'
    BY RunTypes, <1>5 DEF TakeReady, TakeLast, FilesTypeOK, fileVars
  <2>2. PICK r \in s.results, err \in BOOLEAN, used \in SUBSET Block :
           pr' = [pr EXCEPT ![p] = [s EXCEPT
                    !.results = s.results \ {r}, !.used = used, !.err = err]]
    BY <1>5, <1>f DEF TakeReady, TakeLast, Used, Result
  <2> DEFINE t == [s EXCEPT !.results = s.results \ {r}, !.used = used, !.err = err]
  <2>3. t \in PruneState
    BY <1>s, <1>f DEF PruneState
  <2>4. t.jobs = s.jobs /\ t.results = s.results \ {r} /\ t.at = s.at /\ t.todo = s.todo
    BY <1>s DEF PruneState
  <2>5. PruneOK(t)
    BY <2>3, <2>4, <1>s, PoolTakes DEF PruneOK
  <2> QED BY <2>1, <2>2, <2>5, <1>n
<1>6. CASE NoneReady(p)
  <2>1. RunTypeOK' /\ FilesTypeOK'
    BY RunTypes, <1>6 DEF NoneReady, FilesTypeOK, fileVars
  <2>2. PICK at \in PrunePhase :
           /\ at = "next" => s.todo # <<>>
           /\ pr' = [pr EXCEPT ![p] = [s EXCEPT !.at = at]]
    BY <1>6, PrunePhases DEF NoneReady, PruneGoes
  <2> DEFINE t == [s EXCEPT !.at = at]
  <2>3. t \in PruneState /\ t.jobs = s.jobs /\ t.results = s.results
        /\ t.at = at /\ t.todo = s.todo
    BY <1>s DEF PruneState
  <2>4. PruneOK(t)
    BY <2>2, <2>3, <1>k
  <2> QED BY <2>1, <2>2, <2>4, <1>n
<1>7. CASE EndGather(p)
  <2>1. faults' \in Nat /\ FilesTypeOK'
    BY RunTypes, <1>7 DEF EndGather, FilesTypeOK, fileVars
  <2>2. CASE \E phase \in PruneResting : PruneEnds(p, phase)
    BY <2>1, <2>2, <1>b
  <2>3. CASE PruneGoes(p, "prune") /\ GoOn
    <3>1. "prune" \in PrunePhase \ {"next"}
      BY PrunePhases
    <3>2. PruneInv'
      BY <2>3, <3>1, <1>g DEF PruneGoes
    <3> QED BY <2>1, <2>3, <3>2, RunTypes
  <2> QED BY <1>7, <2>2, <2>3 DEF EndGather, PruneResting
<1>8. ASSUME NEW n \in Name, NEW ok \in BOOLEAN, NEW blocks \in SUBSET Block,
             NEW index \in {NoFile} \cup SUBSET Block, NEW stale \in SUBSET Name,
             n \in s.jobs,
             \/ pr' = [pr EXCEPT ![p] = Sends(p, n, ok, blocks)]
             \/ pr' = [pr EXCEPT ![p] = [Sends(p, n, ok, blocks) EXCEPT !.index = index]]
             \/ pr' = [pr EXCEPT ![p] = [Sends(p, n, ok, blocks) EXCEPT !.stale = stale]]
      PROVE  PruneInv'
  <2> DEFINE t == Sends(p, n, ok, blocks)
             i == [t EXCEPT !.index = index]
             x == [t EXCEPT !.stale = stale]
             r == [name |-> n, ok |-> ok, blocks |-> blocks]
  <2>1. r \in Result
    BY DEF Result
  <2>2. t \in PruneState
    BY <1>s, <1>f, <2>1 DEF PruneState, Sends
  <2>3. t.jobs = s.jobs \ {n} /\ t.results = s.results \cup {r}
        /\ t.at = s.at /\ t.todo = s.todo
    BY <1>s DEF PruneState, Sends
  <2>4. PruneOK(t)
    BY <2>2, <2>3, <1>s, <1>8, PoolSends DEF PruneOK
  <2> HIDE DEF t
  <2>5. i \in PruneState /\ i.jobs = t.jobs /\ i.results = t.results
        /\ i.at = t.at /\ i.todo = t.todo
    BY <2>2 DEF PruneState
  <2>6. x \in PruneState /\ x.jobs = t.jobs /\ x.results = t.results
        /\ x.at = t.at /\ x.todo = t.todo
    BY <2>2 DEF PruneState
  <2>7. PruneOK(i) /\ PruneOK(x)
    BY <2>4, <2>5, <2>6 DEF PruneOK, PoolOK
  <2> QED BY <1>8, <2>4, <2>7, <1>n DEF t
<1>9. ASSUME NEW n \in Name, PruneOneByLocalIndex(p, n) PROVE StoreTypeOK' /\ PruneInv'
  <2>1. RunTypeOK' /\ FilesTypeOK'
    BY RunTypes, <1>9 DEF PruneOneByLocalIndex, FilesTypeOK, fileVars
  <2>2. localIndex[n] \in SUBSET Block
    BY <1>9 DEF PruneOneByLocalIndex, FilesTypeOK
  <2>3. n \in s.jobs /\ \E ok \in BOOLEAN, stale \in SUBSET Name :
           pr' = [pr EXCEPT ![p] = [Sends(p, n, ok, localIndex[n]) EXCEPT !.stale = stale]]
    <3>1. Sends(p, n, Validates(localIndex[n], versionFile[n]), localIndex[n]).stale = s.stale
      BY <1>s DEF Sends, PruneState
    <3>2. Validates(localIndex[n], versionFile[n]) \in BOOLEAN
      BY DEF Validates
    <3> QED BY <1>9, <1>f, <3>1, <3>2 DEF PruneOneByLocalIndex
  <2> QED BY <2>1, <2>2, <2>3, <1>8
<1>10. ASSUME NEW n \in Name, PruneOneByStore(p, n) PROVE StoreTypeOK' /\ PruneInv'
  <2> DEFINE index == IF s.index = NoFile THEN indexed ELSE s.index
  <2>1. RunTypeOK'
    BY RunTypes, <1>10 DEF PruneOneByStore
  <2>2. index \in SUBSET Block
    BY <1>f DEF FilesTypeOK
  <2>3. PICK kept \in SUBSET Block :
          /\ n \in s.jobs
          /\ localIndex' \in {localIndex, [localIndex EXCEPT ![n] = kept]}
          /\ \E ok \in BOOLEAN, blocks \in {{}, kept} :
                pr' = [pr EXCEPT ![p] = [Sends(p, n, ok, blocks) EXCEPT !.index = index]]
    <3>1. s.ask.skip \in BOOLEAN
      <4>1. IdlePrune.ask.skip = FALSE
        BY DEF IdlePrune
      <4>2. \A r \in Prune : r.skip \in BOOLEAN
        BY PruneAssumption DEF PruneRequest
      <4> QED BY <1>f, <4>1, <4>2
    <3> QED BY <1>10, <2>2, <3>1 DEF PruneOneByStore, Existing
  <2>4. FilesTypeOK'
    BY <1>10, <2>3 DEF PruneOneByStore, FilesTypeOK
  <2>5. PruneInv'
    <3>1. PICK ok \in BOOLEAN, blocks \in SUBSET Block :
             pr' = [pr EXCEPT ![p] = [Sends(p, n, ok, blocks) EXCEPT !.index = index]]
      BY <2>3
    <3>2. index \in {NoFile} \cup SUBSET Block /\ {} \in SUBSET Name
      BY <2>2
    <3> HIDE DEF index
    <3> QED BY <2>3, <3>1, <3>2, <1>8
  <2> QED BY <2>1, <2>4, <2>5
<1>11. ASSUME NEW n \in Name, PruneOneFails(p, n) PROVE StoreTypeOK' /\ PruneInv'
  <2>1. RunTypeOK' /\ FilesTypeOK'
    BY RunTypes, <1>11 DEF PruneOneFails, FilesTypeOK, fileVars
  <2>2. n \in s.jobs /\ pr' = [pr EXCEPT ![p] = Sends(p, n, FALSE, {})]
    BY <1>11 DEF PruneOneFails
  <2> QED BY <2>1, <2>2, <1>8
<1>12. CASE PruneIndex(p) \/ JoinIndexAndBlocks(p)
  <2>1. FilesTypeOK'
    <3>1. standing' \in [Name -> Standing]
      BY <1>12 DEF PruneIndex, JoinIndexAndBlocks, Judged, Standing, FilesTypeOK, fileVars
    <3> QED BY <1>12, <3>1 DEF PruneIndex, JoinIndexAndBlocks, FilesTypeOK, fileVars
  <2>2. faults' \in Nat
    BY RunTypes, <1>12 DEF PruneIndex, JoinIndexAndBlocks
  <2>3. ASSUME NEW blocks \in SUBSET Block, GoOn,
               pr' = [pr EXCEPT ![p] = [s EXCEPT !.at = "delete", !.doomed = blocks]]
        PROVE  RunTypeOK' /\ PruneInv'
    <3> DEFINE t == [s EXCEPT !.at = "delete", !.doomed = blocks]
    <3>1. t \in PruneState /\ t.jobs = s.jobs /\ t.results = s.results /\ t.at = "delete"
      BY <1>s, PrunePhases DEF PruneState
    <3> QED BY <2>2, <2>3, <3>1, <1>k, <1>n, RunTypes
  <2>4. CASE PruneGoes(p, "delete") /\ GoOn
    <3>1. "delete" \in PrunePhase \ {"next"}
      BY PrunePhases
    <3>2. PruneInv'
      BY <2>4, <3>1, <1>g DEF PruneGoes
    <3> QED BY <2>1, <2>2, <2>4, <3>2, RunTypes
  <2>5. CASE PruneEnds(p, "done")
    BY <2>1, <2>2, <2>5, <1>b DEF PruneResting
  <2>6. CASE PruneIndex(p)
    <3>1. indexed \ s.used \in SUBSET Block
      BY DEF FilesTypeOK
    <3> QED BY <2>1, <2>3, <2>4, <2>6, <3>1 DEF PruneIndex
  <2>7. CASE JoinIndexAndBlocks(p)
    <3>1. s.listed # NoFile => (IF s.ask.dryRun THEN {} ELSE s.listed \ s.index) \in SUBSET Block
      BY <1>f
    <3> QED BY <2>1, <2>3, <2>5, <2>7, <3>1 DEF JoinIndexAndBlocks
  <2> QED BY <1>12, <2>6, <2>7
<1>13. CASE (\E b \in Block : DeletePruned(p, b) \/ DeleteUnused(p, b))
            \/ ReadIndexFile(p) \/ ListBlockFiles(p)
  <2>1. faults' \in Nat /\ FilesTypeOK'
    BY RunTypes, <1>13 DEF DeletePruned, DeleteUnused, ReadIndexFile, ListBlockFiles,
                           FilesTypeOK, fileVars
  <2>2. CASE PruneEnds(p, "failed")
    BY <2>1, <2>2, <1>b DEF PruneResting
  <2>3. ASSUME GoOn, NEW t \in PruneState, pr' = [pr EXCEPT ![p] = t],
               t.jobs = s.jobs, t.results = s.results, t.at = s.at, t.todo = s.todo
        PROVE  RunTypeOK' /\ PruneInv'
    <3>1. PruneOK(t)
      BY <2>3, <1>k, <1>s DEF PruneOK
    <3> QED BY <2>1, <2>3, <3>1, <1>n, RunTypes
  <2>4. ASSUME GoOn, NEW b \in Block,
               \/ pr' = [pr EXCEPT ![p] = [s EXCEPT !.doomed = s.doomed \ {b}]]
               \/ pr' = [pr EXCEPT ![p] = [s EXCEPT !.doomed = s.doomed \ {b}, !.err = TRUE]]
        PROVE  RunTypeOK' /\ PruneInv'
    <3> DEFINE t == [s EXCEPT !.doomed = s.doomed \ {b}]
               x == [s EXCEPT !.doomed = s.doomed \ {b}, !.err = TRUE]
    <3>1. t \in PruneState /\ t.jobs = s.jobs /\ t.results = s.results
          /\ t.at = s.at /\ t.todo = s.todo
      BY <1>s, <1>f DEF PruneState
    <3>2. x \in PruneState /\ x.jobs = s.jobs /\ x.results = s.results
          /\ x.at = s.at /\ x.todo = s.todo
      BY <1>s, <1>f DEF PruneState
    <3> QED BY <2>3, <2>4, <3>1, <3>2
  <2>5. ASSUME GoOn,
               \/ pr' = [pr EXCEPT ![p] = [s EXCEPT !.index = indexed]]
               \/ pr' = [pr EXCEPT ![p] = [s EXCEPT !.listed = stored]]
               \/ pr' = [pr EXCEPT ![p] = [s EXCEPT !.err = TRUE]]
        PROVE  RunTypeOK' /\ PruneInv'
    <3> DEFINE i == [s EXCEPT !.index = indexed]
               l == [s EXCEPT !.listed = stored]
               x == [s EXCEPT !.err = TRUE]
    <3>1. i \in PruneState /\ i.jobs = s.jobs /\ i.results = s.results
          /\ i.at = s.at /\ i.todo = s.todo
      BY <1>s DEF PruneState, FilesTypeOK
    <3>2. l \in PruneState /\ l.jobs = s.jobs /\ l.results = s.results
          /\ l.at = s.at /\ l.todo = s.todo
      BY <1>s DEF PruneState, FilesTypeOK
    <3>3. x \in PruneState /\ x.jobs = s.jobs /\ x.results = s.results
          /\ x.at = s.at /\ x.todo = s.todo
      BY <1>s DEF PruneState
    <3> QED BY <2>3, <2>5, <3>1, <3>2, <3>3
  <2>6. ASSUME NEW b \in Block, DeletePruned(p, b) \/ DeleteUnused(p, b)
        PROVE  StoreTypeOK' /\ PruneInv'
    BY <2>1, <2>4, <2>6 DEF DeletePruned, DeleteUnused
  <2>7. CASE ReadIndexFile(p) \/ ListBlockFiles(p)
    BY <2>1, <2>2, <2>5, <2>7 DEF ReadIndexFile, ListBlockFiles
  <2> QED BY <1>13, <2>6, <2>7
<1>14. CASE EndPrune(p) \/ EndDelete(p) \/ CrashPrune(p)
  <2>1. faults' \in Nat /\ FilesTypeOK'
    BY RunTypes, <1>14 DEF EndPrune, EndDelete, CrashPrune, FilesTypeOK, fileVars
  <2>2. \E phase \in PruneResting : PruneEnds(p, phase)
    BY <1>14 DEF EndPrune, EndDelete, CrashPrune, PruneResting
  <2> QED BY <2>1, <2>2, <1>b
<1>15. CASE WritePrunedIndex(p)
  <2>1. faults' \in Nat
    BY RunTypes, <1>15 DEF WritePrunedIndex
  <2>2. FilesTypeOK'
    <3>1. standing' \in [Name -> Standing]
      BY <1>15 DEF WritePrunedIndex, Judged, Standing, FilesTypeOK
    <3>2. s.index \cap s.used \subseteq Block
      BY <1>f
    <3> QED BY <1>15, <3>1, <3>2 DEF WritePrunedIndex, FilesTypeOK
  <2>3. \E phase \in PruneResting : PruneEnds(p, phase)
    BY <1>15 DEF WritePrunedIndex, PruneResting
  <2> QED BY <2>1, <2>2, <2>3, <1>b
<1> QED BY <1>1, <1>2, <1>3, <1>4, <1>5, <1>6, <1>7, <1>9, <1>10, <1>11, <1>12, <1>13,
           <1>14, <1>15 DEF PruneStep, PruneProgress

-----------------------------------------------------------------------------
(* Types of the clones.                                                    *)

LEMMA ClonePhases ==
    /\ {"next", "change", "unzip", "rescan", "query", "put"} \subseteq ClonePhase
    /\ {"publish", "local", "wait", "close"} \subseteq ClonePhase
    /\ CloneResting \subseteq ClonePhase
BY DEF ClonePhase

LEMMA CloneFields ==
    ASSUME NEW s \in CloneState
    PROVE  /\ s.at \in ClonePhase /\ s.name \in Name /\ s.todo \in Seq(Name)
           /\ s.found \in SUBSET Block /\ s.made \in SUBSET Block /\ s.put \in SUBSET Block
           /\ s.late \in SUBSET Block
           /\ s.current \in {NoFile} \cup Contents
           /\ s.cached \in {NoFile} \cup SUBSET Block
BY DEF CloneState

LEMMA IdleCloneType ==
    /\ IdleClone \in CloneState
    /\ \A at \in CloneResting : [IdleClone EXCEPT !.at = at] \in CloneState
<1>1. (CHOOSE n \in Name : TRUE) \in Name
  BY VersionStoreAssumption
<1>2. IdleClone \in CloneState
  BY <1>1 DEF IdleClone, CloneState, ClonePhase, CloneResting
<1> QED BY <1>2, ClonePhases DEF CloneState

LEMMA CloneTypes ==
    ASSUME StoreTypeOK, CloneTypeOK, NEW c \in Cloner, CloneStep(c)
    PROVE  StoreTypeOK' /\ CloneTypeOK'
<1> DEFINE s == cl[c]
           v == Source[s.name]
<1> USE DEF StoreTypeOK
<1>s. s \in CloneState /\ work \in [Cloner -> Contents]
  BY DEF CloneTypeOK
<1>f. /\ s.at \in ClonePhase /\ s.name \in Name /\ s.todo \in Seq(Name)
      /\ s.found \in SUBSET Block /\ s.made \in SUBSET Block /\ s.put \in SUBSET Block
      /\ s.late \in SUBSET Block
      /\ s.current \in {NoFile} \cup Contents
      /\ s.cached \in {NoFile} \cup SUBSET Block
  BY <1>s, CloneFields
<1>v. v \in Contents
  BY <1>f, CloneAssumption, VersionStoreAssumption DEF Contents
<1>n. ASSUME NEW t \in CloneState, cl' = [cl EXCEPT ![c] = t], work' \in [Cloner -> Contents]
      PROVE  CloneTypeOK'
  BY <1>n DEF CloneTypeOK
<1>g. \A at \in ClonePhase :
        cl' = [cl EXCEPT ![c].at = at] /\ work' \in [Cloner -> Contents] => CloneTypeOK'
  <2> SUFFICES ASSUME NEW at \in ClonePhase PROVE [s EXCEPT !.at = at] \in CloneState
    BY <1>n DEF CloneTypeOK
  <2> QED BY <1>s DEF CloneState
<1>x. CloneAborts(c) /\ work' \in [Cloner -> Contents] => CloneTypeOK'
  <2>1. [s EXCEPT !.at = "close", !.ok = FALSE] \in CloneState
    BY <1>s, ClonePhases DEF CloneState
  <2> QED BY <2>1, <1>n DEF CloneAborts
<1>b. ASSUME NEW phase \in CloneResting, CloneEnds(c, phase), faults' \in Nat, UNCHANGED work
      PROVE  RunTypeOK' /\ CloneTypeOK'
  <2>1. RunTypeOK'
    BY <1>b, RunTypes DEF CloneEnds
  <2>2. CloneTypeOK'
    BY <1>b, <1>n, <1>s, IdleCloneType DEF CloneEnds
  <2> QED BY <2>1, <2>2
<1>1. CASE StartClone(c)
  <2>1. PICK r \in Clone :
           /\ Begin(c, "write")
           /\ cl' = [cl EXCEPT ![c] = [IdleClone EXCEPT !.at = "next", !.todo = r.list,
                                                     !.local = r.local, !.ok = TRUE]]
           /\ UNCHANGED <<fileVars, standing, faults, work>>
    BY <1>1 DEF StartClone
  <2>2. RunTypeOK' /\ FilesTypeOK'
    BY <2>1, RunTypes DEF Role, FilesTypeOK, fileVars
  <2>3. r.list \in Seq(Name) /\ r.local \in BOOLEAN
    BY CloneAssumption
  <2>4. [IdleClone EXCEPT !.at = "next", !.todo = r.list,
                          !.local = r.local, !.ok = TRUE] \in CloneState
    BY <2>3, IdleCloneType, ClonePhases DEF CloneState
  <2> QED BY <2>1, <2>2, <2>4, <1>n, <1>s
<1>2. CASE NextVersion(c)
  <2>1. RunTypeOK' /\ FilesTypeOK' /\ work' = work
    BY RunTypes, <1>2 DEF NextVersion, FilesTypeOK, fileVars
  <2> DEFINE current == IF s.current = NoFile THEN work[c] ELSE s.current
             t == [s EXCEPT !.at = "change", !.name = Head(s.todo), !.todo = Tail(s.todo),
                            !.current = current]
  <2>2. s.todo # <<>> => t \in CloneState
    <3>1. current \in {NoFile} \cup Contents
      BY <1>f, <1>s
    <3>2. s.todo # <<>> => Head(s.todo) \in Name /\ Tail(s.todo) \in Seq(Name)
      BY <1>f
    <3> HIDE DEF current
    <3> QED BY <3>1, <3>2, <1>s, ClonePhases DEF CloneState
  <2>3. s.todo # <<>> /\ cl' = [cl EXCEPT ![c] = t] => CloneTypeOK'
    BY <2>1, <2>2, <1>n, <1>s
  <2>4. CloneTypeOK'
    BY <1>2, <2>1, <2>3, <1>s, <1>g, <1>x, ClonePhases DEF NextVersion, CloneGoes
  <2> QED BY <2>1, <2>4
<1>3. CASE ChangeWork(c)
  <2>1. RunTypeOK' /\ FilesTypeOK'
    BY RunTypes, <1>3 DEF ChangeWork, FilesTypeOK, fileVars
  <2>2. work' \in [Cloner -> Contents]
    <3>1. PICK done \in SUBSET Asset :
             work' = [work EXCEPT ![c] = [a \in Asset |-> IF a \in done THEN v[a] ELSE @[a]]]
      BY <1>3 DEF ChangeWork
    <3>2. [a \in Asset |-> IF a \in done THEN v[a] ELSE work[c][a]] \in Contents
      BY <1>s, <1>v DEF Contents
    <3> QED BY <3>1, <3>2, <1>s
  <2>3. [s EXCEPT !.at = "query", !.current = v] \in CloneState
    BY <1>s, <1>v, ClonePhases DEF CloneState
  <2>4. CloneTypeOK'
    BY <1>3, <2>2, <2>3, <1>n, <1>g, ClonePhases DEF ChangeWork, ChangeFails, CloneGoes
  <2> QED BY <2>1, <2>4
<1>4. CASE Unzip(c)
  <2>1. RunTypeOK' /\ FilesTypeOK'
    BY RunTypes, <1>4 DEF Unzip, FilesTypeOK, fileVars
  <2>2. work' \in [Cloner -> Contents]
    <3>1. \A done \in SUBSET Asset :
             [a \in Asset |-> IF a \in done THEN v[a] ELSE Absent] \in Contents
      BY <1>v DEF Contents
    <3> QED BY <1>4, <3>1, <1>s, <1>v DEF Unzip
  <2>3. CloneTypeOK'
    BY <1>4, <2>2, <1>g, <1>x, ClonePhases DEF Unzip, CloneGoes
  <2> QED BY <2>1, <2>3
<1>5. CASE Rescan(c)
  <2>1. RunTypeOK' /\ FilesTypeOK' /\ work' = work
    BY RunTypes, <1>5 DEF Rescan, FilesTypeOK, fileVars
  <2>2. [s EXCEPT !.at = "query", !.current = work[c]] \in CloneState
    BY <1>s, ClonePhases DEF CloneState
  <2>3. CloneTypeOK'
    BY <1>5, <2>1, <2>2, <1>n, <1>s, <1>x DEF Rescan
  <2> QED BY <2>1, <2>3
<1>6. CASE FindCloned(c)
  <2>1. RunTypeOK' /\ FilesTypeOK' /\ work' = work
    BY RunTypes, <1>6 DEF FindCloned, FilesTypeOK, fileVars
  <2> DEFINE index == IF s.cached = NoFile THEN indexed ELSE s.cached
  <2>2. index \in SUBSET Block
    BY <1>f DEF FilesTypeOK
  <2>3. \A chunks : \A told \in SUBSET s.late :
           WorthReusing(index \cup told, chunks) \subseteq SUBSET Block
    BY <2>2, <1>f DEF WorthReusing
  <2>4. \A found, made \in SUBSET Block :
           [s EXCEPT !.at = "put", !.found = found, !.made = made,
                     !.put = {}, !.cached = index] \in CloneState
    <3> HIDE DEF index
    <3> QED BY <1>s, <2>2, ClonePhases DEF CloneState
  <2>5. \A at, chunks : \A found \in Existing(at, chunks) : found \subseteq at
    BY DEF Existing
  <2>6. \A chunks : Packings(chunks) \subseteq SUBSET Block
    BY DEF Packings
  <2>7. ASSUME NEW told \in SUBSET s.late,
               NEW worth \in WorthReusing(index \cup told, Needed(s.current)),
               NEW found \in Existing(worth, Needed(s.current)),
               NEW made \in Packings(Needed(s.current) \ Content(found)),
               cl' = [cl EXCEPT ![c] = [s EXCEPT !.at = "put", !.found = found, !.made = made,
                                                 !.put = {}, !.cached = index]]
        PROVE  CloneTypeOK'
    <3>1. found \in SUBSET Block /\ made \in SUBSET Block
      BY <2>3, <2>5, <2>6
    <3> HIDE DEF index
    <3> QED BY <3>1, <2>1, <2>4, <2>7, <1>n, <1>s
  <2>8. CASE CloneAborts(c)
    BY <2>1, <2>8, <1>x, <1>s
  <2> QED BY <1>6, <2>1, <2>7, <2>8 DEF FindCloned
<1>7. ASSUME NEW b \in Block, StoreCloned(c, b) PROVE StoreTypeOK' /\ CloneTypeOK'
  <2>1. RunTypeOK' /\ FilesTypeOK' /\ work' = work
    BY RunTypes, <1>7 DEF StoreCloned, FilesTypeOK
  <2>2. [s EXCEPT !.put = s.put \cup {b}] \in CloneState
    BY <1>s, <1>f DEF CloneState
  <2>3. CASE cl' = [cl EXCEPT ![c].put = s.put \cup {b}]
    BY <2>1, <2>2, <2>3, <1>n, <1>s
  <2> QED BY <1>7, <2>1, <2>3, <1>x, <1>s DEF StoreCloned
<1>8. CASE StartFlush(c)
  <2>1. RunTypeOK' /\ FilesTypeOK' /\ work' = work
    BY RunTypes, <1>8 DEF StartFlush, FilesTypeOK, fileVars
  <2>2. [s EXCEPT !.at = "publish", !.flush = "running"] \in CloneState
    BY <1>s, ClonePhases DEF CloneState
  <2> QED BY <1>8, <2>1, <2>2, <1>n, <1>s DEF StartFlush
<1>9. CASE EndFlush(c)
  <2>1. RunTypeOK' /\ FilesTypeOK' /\ work' = work
    BY RunTypes, <1>9, <1>f DEF EndFlush, Overtaken, FilesTypeOK
  <2>2. \A file \in {s.cached, indexed'} : \A late \in SUBSET s.put :
           [s EXCEPT !.flush = "ok", !.put = {}, !.late = late, !.cached = file] \in CloneState
    <3>1. {s.cached, indexed'} \subseteq {NoFile} \cup SUBSET Block
      BY <2>1, <1>f DEF FilesTypeOK
    <3> QED BY <3>1, <1>s, <1>f DEF CloneState
  <2>3. [s EXCEPT !.flush = "error"] \in CloneState
    BY <1>s DEF CloneState
  <2>4. CASE cl' = [cl EXCEPT ![c].flush = "error"]
    BY <2>1, <2>3, <2>4, <1>n, <1>s
  <2> QED BY <1>9, <2>1, <2>2, <2>4, <1>n, <1>s DEF EndFlush
<1>10. CASE WriteCloned(c)
  <2>1. RunTypeOK' /\ work' = work
    BY RunTypes, <1>10 DEF WriteCloned
  <2>2. FilesTypeOK'
    BY <1>10, <1>f DEF WriteCloned, FilesTypeOK, Standing
  <2>3. CloneTypeOK'
    BY <1>10, <2>1, <1>s, <1>g, <1>x, ClonePhases DEF WriteCloned, CloneGoes
  <2> QED BY <2>1, <2>2, <2>3
<1>11. CASE WriteClonedIndex(c)
  <2>1. RunTypeOK' /\ work' = work
    BY RunTypes, <1>11 DEF WriteClonedIndex
  <2>2. FilesTypeOK'
    BY <1>11, <1>f DEF WriteClonedIndex, FilesTypeOK
  <2>3. CloneTypeOK'
    BY <1>11, <2>1, <1>s, <1>g, <1>x, ClonePhases DEF WriteClonedIndex, CloneGoes
  <2> QED BY <2>1, <2>2, <2>3
<1>12. CASE WaitFlush(c)
  <2>1. RunTypeOK' /\ work' = work
    BY RunTypes, <1>12 DEF WaitFlush
  <2>2. FilesTypeOK'
    BY <1>12, <1>f DEF WaitFlush, FilesTypeOK, Standing, fileVars
  <2>3. [s EXCEPT !.at = "next", !.flush = "none"] \in CloneState
    BY <1>s, ClonePhases DEF CloneState
  <2>4. CloneTypeOK'
    BY <1>12, <2>1, <2>3, <1>s, <1>n, <1>x DEF WaitFlush
  <2> QED BY <2>1, <2>2, <2>4
<1>13. CASE CloseClone(c) \/ CrashClone(c)
  <2>1. faults' \in Nat /\ FilesTypeOK'
    BY RunTypes, <1>13, <1>f DEF CloseClone, CrashClone, FilesTypeOK, fileVars
  <2>2. work' = work /\ \E phase \in CloneResting : CloneEnds(c, phase)
    BY <1>13 DEF CloseClone, CrashClone, CloneResting
  <2> QED BY <2>1, <2>2, <1>b
<1> QED BY <1>1, <1>2, <1>3, <1>4, <1>5, <1>6, <1>7, <1>8, <1>9, <1>10, <1>11, <1>12, <1>13
        DEF CloneStep, CloneProgress
-----------------------------------------------------------------------------
(* Types of the syncs: a command that reads versions has one to read.      *)

SyncPlanned ==
    \A f \in Folder : sy[f].at \in {"config", "source"} => sy[f].todo # <<>>

LEMMA SyncPhases ==
    /\ {"config", "source", "target", "query", "clean", "change"} \subseteq SyncPhase
    /\ {"check", "cache"} \cup SyncResting \subseteq SyncPhase
BY DEF SyncPhase, SyncResting

LEMMA SyncFields ==
    ASSUME NEW s \in SyncState
    PROVE  /\ s.at \in SyncPhase /\ s.todo \in Seq(Name) /\ s.ask \in Sync
           /\ s.source \in Contents /\ s.target \in Disk
           /\ s.plan \in SUBSET Block /\ s.left \in SUBSET Asset
           /\ s.seen \in BOOLEAN /\ s.misled \in BOOLEAN /\ s.excused \in BOOLEAN
BY DEF SyncState

LEMMA RequestFields ==
    ASSUME NEW r \in Sync
    PROVE  /\ r.kind \in SyncKind /\ r.list \in Seq(Name) /\ r.archive \in Contents
           /\ r.target \in TargetKind /\ r.given \in Contents /\ r.hidden \in SUBSET Asset
           /\ (r.kind # "unpack" => r.list # <<>>)
<1>1. r \in SyncRequest
  BY FolderAssumption
<1>2. Version \subseteq Contents
  BY VersionStoreAssumption DEF Contents
<1> QED BY <1>1, <1>2, FolderAssumption DEF SyncRequest

LEMMA ContentsOnDisk ==
    /\ Contents \subseteq Disk
    /\ Empty \in Contents
    /\ \A base, overlay \in Contents : Merge(base, overlay) \in Contents
BY DEF Contents, Disk, Empty, Merge

LEMMA IdleSyncType ==
    ASSUME NEW r \in Sync
    PROVE  IdleSync(r) \in SyncState
BY ContentsOnDisk DEF IdleSync, SyncState, SyncPhase, SyncResting

TargetIs(f, index, misled, seen) ==
    /\ sy' = [sy EXCEPT ![f] = [sy[f] EXCEPT !.at = "query", !.target = index,
                                             !.misled = misled, !.seen = seen]]
    /\ GoOn

Trusted(f, index) ==
    \/ index = folder[f]
    \/ /\ index = cache[f] /\ cache[f] \notin {NoFile, Torn}
       /\ ~outdated[f]

(* What a command takes for the content of its folder is that, or is in a  *)
(* cached index which is not outdated, unless it is misled.                *)
LEMMA TargetRead ==
    ASSUME FolderTypeOK, NEW f \in Folder, ReadTarget(f)
    PROVE  \/ SyncEnds(f, "failed")
           \/ \E index \in Disk, misled, seen \in BOOLEAN :
                 /\ TargetIs(f, index, misled, seen)
                 /\ misled # TRUE => Trusted(f, index)
<1> DEFINE r == sy[f].ask
           scanned == [a \in Asset |-> IF a \in r.hidden THEN Absent ELSE folder[f][a]]
           seen == cache[f] # NoFile /\ r.hidden = {}
<1>1. /\ sy[f] \in SyncState /\ folder \in [Folder -> Disk]
      /\ cache \in [Folder -> {NoFile, Torn} \cup Contents] /\ outdated \in [Folder -> BOOLEAN]
  BY DEF FolderTypeOK
<1>2. r \in Sync
  BY <1>1, SyncFields
<1>3. scanned \in Disk
  BY <1>1 DEF Disk
<1>4. r.given \in Disk /\ Empty \in Disk
  BY <1>2, RequestFields, ContentsOnDisk
<1>5. cache[f] \notin {NoFile, Torn} => cache[f] \in Disk
  BY <1>1, ContentsOnDisk
<1>6. r.target \in {"scan", "given", "none"}
  BY <1>2, RequestFields DEF TargetKind
<1>7. \/ cache[f] \notin {NoFile, Torn} /\ TargetIs(f, cache[f], outdated[f], FALSE)
      \/ SyncEnds(f, "failed")
      \/ TargetIs(f, scanned, scanned # folder[f], seen)
      \/ TargetIs(f, r.given, r.given # folder[f], FALSE)
      \/ TargetIs(f, Empty, Empty # folder[f], FALSE)
  BY <1>6 DEF ReadTarget, TargetIs
<1> HIDE DEF scanned, seen, r
<1>8. outdated[f] \in BOOLEAN /\ seen \in BOOLEAN
  BY <1>1 DEF seen
<1>9. CASE cache[f] \notin {NoFile, Torn} /\ TargetIs(f, cache[f], outdated[f], FALSE)
  <2> DEFINE m == outdated[f]
  <2>1. m # TRUE => Trusted(f, cache[f])
    BY <1>8, <1>9 DEF Trusted
  <2> HIDE DEF m
  <2> QED BY <2>1, <1>5, <1>8, <1>9, Zenon DEF m
<1>a. ASSUME NEW index \in Disk, NEW sees \in BOOLEAN,
             TargetIs(f, index, index # folder[f], sees)
      PROVE  \E i \in Disk, m, e \in BOOLEAN :
                TargetIs(f, i, m, e) /\ (m # TRUE => Trusted(f, i))
  <2> DEFINE m == index # folder[f]
  <2>1. m \in BOOLEAN
    OBVIOUS
  <2>2. m # TRUE => Trusted(f, index)
    <3>1. m => m = TRUE
      BY <2>1, Zenon
    <3>2. ~m => Trusted(f, index)
      BY DEF Trusted
    <3> HIDE DEF m
    <3> QED BY <3>1, <3>2, Zenon
  <2>3. TargetIs(f, index, m, sees)
    BY <1>a
  <2> HIDE DEF m
  <2> QED BY <2>1, <2>2, <2>3, Zenon
<1> QED BY <1>7, <1>9, <1>a, <1>3, <1>4, <1>8, Zenon

LEMMA FolderTypes ==
    ASSUME StoreTypeOK, FolderTypeOK, SyncPlanned, NEW f \in Folder, FolderStep(f)
    PROVE  StoreTypeOK' /\ FolderTypeOK' /\ SyncPlanned'
<1> DEFINE s == sy[f]
           Files == folder' \in [Folder -> Disk]
                    /\ cache' \in [Folder -> {NoFile, Torn} \cup Contents]
                    /\ outdated' \in [Folder -> BOOLEAN]
<1> USE DEF StoreTypeOK
<1>s. /\ s \in SyncState /\ sy \in [Folder -> SyncState]
      /\ folder \in [Folder -> Disk] /\ outdated \in [Folder -> BOOLEAN]
      /\ cache \in [Folder -> {NoFile, Torn} \cup Contents]
  BY DEF FolderTypeOK
<1>f. /\ s.at \in SyncPhase /\ s.todo \in Seq(Name) /\ s.ask \in Sync
      /\ s.source \in Contents /\ s.target \in Disk
      /\ s.plan \in SUBSET Block /\ s.left \in SUBSET Asset
      /\ s.seen \in BOOLEAN /\ s.misled \in BOOLEAN /\ s.excused \in BOOLEAN
  BY <1>s, SyncFields
<1>n. ASSUME NEW t \in SyncState, sy' = [sy EXCEPT ![f] = t], Files,
             t.at \in {"config", "source"} => t.todo # <<>>
      PROVE  FolderTypeOK' /\ SyncPlanned'
  BY <1>n, <1>s DEF FolderTypeOK, SyncPlanned
<1>g. ASSUME NEW at \in SyncPhase, SyncGoes(f, at), Files,
             at \in {"config", "source"} => s.todo # <<>>
      PROVE  FolderTypeOK' /\ SyncPlanned'
  <2>1. [s EXCEPT !.at = at] \in SyncState
    BY <1>s DEF SyncState
  <2>2. [s EXCEPT !.at = at].at = at /\ [s EXCEPT !.at = at].todo = s.todo
    BY <1>s DEF SyncState
  <2>3. sy' = [sy EXCEPT ![f] = [s EXCEPT !.at = at]]
    BY <1>g DEF SyncGoes
  <2> HIDE DEF s
  <2> QED BY <2>1, <2>2, <2>3, <1>g, <1>n
<1>e. ASSUME NEW at \in SyncResting, SyncEnds(f, at), Files, faults' \in Nat
      PROVE  RunTypeOK' /\ FolderTypeOK' /\ SyncPlanned'
  <2>1. RunTypeOK'
    BY <1>e, RunTypes DEF SyncEnds
  <2>2. at \in SyncPhase /\ at \notin {"config", "source"}
    BY <1>e, SyncPhases DEF SyncResting
  <2> QED BY <2>1, <2>2, <1>e, <1>g DEF SyncEnds
<1>r. "done" \in SyncResting /\ "failed" \in SyncResting /\ "missing" \in SyncResting
  BY DEF SyncResting
<1>u. UNCHANGED <<folder, cache, outdated>> => Files
  BY <1>s
<1> HIDE DEF Files
<1>1. CASE StartSync(f)
  <2>1. PICK r \in Sync :
           /\ Begin(f, "read")
           /\ sy' = [sy EXCEPT ![f] =
               [IdleSync(r) EXCEPT
                   !.at = CASE r.kind = "unpack" -> "target"
                            [] r.kind = "get" -> "config"
                            [] OTHER -> "source",
                   !.todo = r.list,
                   !.source = IF r.kind = "unpack" THEN r.archive ELSE @]]
           /\ UNCHANGED <<fileVars, standing, faults, folder, cache, outdated>>
    BY <1>1 DEF StartSync
  <2>2. RunTypeOK' /\ FilesTypeOK'
    BY RunTypes, <2>1 DEF Role, FilesTypeOK, fileVars
  <2>3. PICK at \in SyncPhase, source \in Contents :
           /\ sy' = [sy EXCEPT ![f] =
                 [IdleSync(r) EXCEPT !.at = at, !.todo = r.list, !.source = source]]
           /\ at \in {"config", "source"} => r.list # <<>>
    <3>1. IdleSync(r).source \in Contents
      BY IdleSyncType, SyncFields
    <3> QED BY <2>1, <3>1, RequestFields, SyncPhases
  <2> DEFINE i == IdleSync(r)
             t == [i EXCEPT !.at = at, !.todo = r.list, !.source = source]
  <2>4. t \in SyncState /\ t.at = at /\ t.todo = r.list
    <3>1. i \in SyncState
      BY IdleSyncType
    <3> HIDE DEF i
    <3> QED BY <3>1, RequestFields DEF SyncState
  <2> QED BY <2>1, <2>2, <2>3, <2>4, <1>n, <1>u
<1>2. CASE ReadConfig(f)
  <2>1. FilesTypeOK' /\ Files /\ faults' \in Nat
    BY <1>2, <1>u, RunTypes DEF ReadConfig, FilesTypeOK, fileVars
  <2>2. s.todo # <<>>
    BY <1>2 DEF ReadConfig, SyncAt, SyncPlanned
  <2>3. CASE SyncGoes(f, "source") /\ GoOn
    BY <2>1, <2>2, <2>3, <1>g, RunTypes, SyncPhases
  <2>4. CASE SyncEnds(f, "failed")
    BY <2>1, <2>4, <1>e, <1>r
  <2> QED BY <1>2, <2>1, <2>3, <2>4 DEF ReadConfig
<1>3. CASE ReadSource(f)
  <2> DEFINE v == versionFile[Head(s.todo)]
             misses == s.excused \/ standing[Head(s.todo)] # "good"
             at == IF Tail(s.todo) = <<>> THEN "target" ELSE "source"
             t == [s EXCEPT !.source = Merge(s.source, v), !.todo = Tail(s.todo),
                            !.excused = misses, !.at = at]
  <2>1. FilesTypeOK' /\ Files /\ faults' \in Nat
    BY <1>3, <1>u, RunTypes DEF ReadSource, FilesTypeOK, fileVars
  <2>2. s.todo # <<>>
    BY <1>3 DEF ReadSource, SyncAt, SyncPlanned
  <2>3. Head(s.todo) \in Name /\ Tail(s.todo) \in Seq(Name)
    BY <2>2, <1>f
  <2>4. v \in {NoFile} \cup Contents /\ misses \in BOOLEAN /\ at \in SyncPhase
    BY <2>3, <1>f, SyncPhases DEF FilesTypeOK
  <2>5. v # NoFile => Merge(s.source, v) \in Contents
    BY <2>4, <1>f, ContentsOnDisk
  <2>6. at = "source" => Tail(s.todo) # <<>>
    OBVIOUS
  <2>7. sy' = [sy EXCEPT ![f] = t] /\ v # NoFile /\ GoOn
           => RunTypeOK' /\ FolderTypeOK' /\ SyncPlanned'
    <3>1. v # NoFile => t \in SyncState /\ t.at = at /\ t.todo = Tail(s.todo)
      <4> HIDE DEF misses, at, v
      <4> QED BY <2>3, <2>4, <2>5, <1>s DEF SyncState
    <3>2. at # "config"
      OBVIOUS
    <3> HIDE DEF t, at, v
    <3> QED BY <3>1, <3>2, <2>1, <2>6, <1>n, RunTypes
  <2>8. CASE SyncEnds(f, "failed")
    BY <2>1, <2>8, <1>e, <1>r
  <2> QED BY <1>3, <2>1, <2>7, <2>8 DEF ReadSource
<1>4. CASE ReadTarget(f)
  <2>1. FilesTypeOK' /\ Files /\ faults' \in Nat
    <3>1. UNCHANGED <<fileVars, standing, folder, cache, outdated>>
      BY <1>4 DEF ReadTarget
    <3>2. s.ask.target \in {"scan", "given", "none"}
      BY <1>f, RequestFields DEF TargetKind
    <3>3. NoFault \/ Fault
      BY <1>4, <3>2 DEF ReadTarget
    <3> QED BY <3>1, <3>3, <1>u, RunTypes DEF FilesTypeOK, fileVars
  <2>2. CASE SyncEnds(f, "failed")
    BY <2>1, <2>2, <1>e, <1>r
  <2>3. ASSUME NEW index \in Disk, NEW misled \in BOOLEAN, NEW seen \in BOOLEAN,
               TargetIs(f, index, misled, seen)
        PROVE  RunTypeOK' /\ FolderTypeOK' /\ SyncPlanned'
    <3> DEFINE t == [s EXCEPT !.at = "query", !.target = index,
                              !.misled = misled, !.seen = seen]
    <3>1. t \in SyncState /\ t.at = "query"
      BY <1>s, SyncPhases DEF SyncState
    <3>2. sy' = [sy EXCEPT ![f] = t] /\ GoOn
      BY <2>3 DEF TargetIs
    <3> HIDE DEF t, s
    <3> QED BY <3>1, <3>2, <2>1, <1>n, RunTypes
  <2> QED BY <1>4, <2>1, <2>2, <2>3, TargetRead
<1>5. CASE QueryContent(f)
  <2> DEFINE locals == {localIndex[n] : n \in NamesOf(f)}
             useLocal == s.ask.local /\ NoFile \notin locals
             index == IF useLocal THEN UNION locals ELSE indexed
  <2>1. FilesTypeOK' /\ Files /\ faults' \in Nat
    BY <1>5, <1>u, RunTypes DEF QueryContent, FilesTypeOK, fileVars
  <2>2. index \in SUBSET Block
    <3>1. NamesOf(f) \subseteq Name
      BY <1>f, RequestFields DEF NamesOf
    <3>2. \A n \in NamesOf(f) : localIndex[n] \in {NoFile} \cup SUBSET Block
      BY <3>1 DEF FilesTypeOK
    <3>3. CASE useLocal
      BY <3>2, <3>3
    <3>4. CASE ~useLocal
      BY <3>4 DEF FilesTypeOK
    <3> QED BY <3>3, <3>4
  <2>3. \A at, chunks : Existing(at, chunks) \subseteq SUBSET at
    BY DEF Existing
  <2>4. ASSUME NEW plan \in Existing(index, Required(f)), NEW excused \in BOOLEAN,
               sy' = [sy EXCEPT ![f] = [s EXCEPT !.at = "clean", !.plan = plan,
                                                 !.excused = excused]],
               GoOn
        PROVE  RunTypeOK' /\ FolderTypeOK' /\ SyncPlanned'
    <3> DEFINE t == [s EXCEPT !.at = "clean", !.plan = plan, !.excused = excused]
    <3>1. plan \in SUBSET Block
      <4> HIDE DEF index
      <4> QED BY <2>2, <2>3
    <3>2. t \in SyncState /\ t.at = "clean"
      <4> HIDE DEF index
      <4> QED BY <3>1, <1>s, SyncPhases DEF SyncState
    <3> HIDE DEF t, s, index
    <3> QED BY <3>2, <2>1, <2>4, <1>n, RunTypes DEF t
  <2>5. CASE SyncGoes(f, "clean") /\ GoOn
    BY <2>1, <2>5, <1>g, RunTypes, SyncPhases
  <2>6. CASE SyncEnds(f, "failed")
    BY <2>1, <2>6, <1>e, <1>r
  <2>7. ASSUME NEW plan \in Existing(index, Required(f)),
               sy' = [sy EXCEPT ![f] = [s EXCEPT !.at = "clean", !.plan = plan,
                   !.excused = (s.excused
                                   \/ (useLocal /\ ~(/\ plan \subseteq indexed
                                                    /\ Required(f) \subseteq Content(plan))))]],
               GoOn
        PROVE  RunTypeOK' /\ FolderTypeOK' /\ SyncPlanned'
    BY <2>4, <2>7
  <2> QED BY <1>5, <2>1, <2>5, <2>6, <2>7 DEF QueryContent
<1>6. CASE DeleteCache(f)
  <2>1. FilesTypeOK' /\ faults' \in Nat
    BY <1>6, RunTypes DEF DeleteCache, FilesTypeOK, fileVars
  <2>2. Files
    BY <1>6, <1>s DEF Files, DeleteCache, NoCache
  <2>3. CASE SyncEnds(f, "failed")
    BY <2>1, <2>2, <2>3, <1>e, <1>r
  <2>4. CASE sy' = [sy EXCEPT ![f] = [s EXCEPT !.at = "change", !.left = Differ(f)]] /\ GoOn
    <3> DEFINE t == [s EXCEPT !.at = "change", !.left = Differ(f)]
    <3>1. t \in SyncState /\ t.at = "change"
      BY <1>s, SyncPhases DEF SyncState, Differ
    <3> HIDE DEF t, s
    <3> QED BY <3>1, <2>1, <2>2, <2>4, <1>n, RunTypes DEF t
  <2> QED BY <1>6, <2>1, <2>3, <2>4 DEF DeleteCache
<1>7. ASSUME NEW a \in Asset, ChangeAsset(f, a)
      PROVE  StoreTypeOK' /\ FolderTypeOK' /\ SyncPlanned'
  <2>1. FilesTypeOK' /\ faults' \in Nat
    BY <1>7, RunTypes DEF ChangeAsset, FilesTypeOK, fileVars
  <2>2. Files
    <3>1. s.source[a] \in Chunk \cup {Absent, Torn}
      BY <1>f DEF Contents
    <3>2. \E x \in Chunk \cup {Absent, Torn} : folder' = [folder EXCEPT ![f][a] = x]
      BY <1>7, <3>1 DEF ChangeAsset
    <3>3. folder' \in [Folder -> Disk]
      BY <3>2, <1>s DEF Disk
    <3> QED BY <1>7, <3>3, <1>s DEF Files, ChangeAsset, Outdates
  <2>3. CASE \E at \in {"missing", "failed"} : SyncEnds(f, at)
    BY <2>1, <2>2, <2>3, <1>e, <1>r
  <2>4. CASE sy' = [sy EXCEPT ![f].left = @ \ {a}] /\ GoOn
    <3> DEFINE t == [s EXCEPT !.left = s.left \ {a}]
    <3>1. t \in SyncState /\ t.at = s.at /\ s.at = "change"
      BY <1>s, <1>f, <1>7 DEF SyncState, ChangeAsset, SyncAt
    <3>2. sy' = [sy EXCEPT ![f] = t]
      BY <2>4
    <3> HIDE DEF t, s
    <3> QED BY <3>1, <3>2, <2>1, <2>2, <2>4, <1>n, RunTypes
  <2> QED BY <1>7, <2>1, <2>3, <2>4 DEF ChangeAsset
<1>8. CASE RemoveSeen(f)
  <2>1. FilesTypeOK' /\ RunTypeOK'
    BY <1>8, RunTypes DEF RemoveSeen, FilesTypeOK, fileVars
  <2>2. Files
    BY <1>8, <1>s DEF Files, RemoveSeen, NoCache
  <2> DEFINE t == [s EXCEPT !.seen = FALSE]
  <2>3. t \in SyncState /\ t.at = s.at /\ s.at = "change" /\ sy' = [sy EXCEPT ![f] = t]
    BY <1>s, <1>8 DEF SyncState, RemoveSeen, SyncAt
  <2> HIDE DEF t, s
  <2> QED BY <2>1, <2>2, <2>3, <1>n
<1>9. CASE EndChange(f) \/ ValidateTarget(f)
  <2>1. FilesTypeOK' /\ Files /\ faults' \in Nat
    BY <1>9, <1>u, RunTypes DEF EndChange, ValidateTarget, FilesTypeOK, fileVars
  <2>2. CASE \E at \in {"check", "cache"} : SyncGoes(f, at) /\ GoOn
    BY <2>1, <2>2, <1>g, RunTypes, SyncPhases
  <2>3. CASE SyncEnds(f, "failed")
    BY <2>1, <2>3, <1>e, <1>r
  <2> QED BY <1>9, <2>1, <2>2, <2>3 DEF EndChange, ValidateTarget
<1>10. CASE WriteCache(f)
  <2>1. FilesTypeOK' /\ faults' \in Nat
    BY <1>10, RunTypes DEF WriteCache, FilesTypeOK, fileVars
  <2>2. Files
    BY <1>10, <1>s, <1>f DEF Files, WriteCache
  <2>3. \E at \in {"done", "failed"} : SyncEnds(f, at)
    BY <1>10 DEF WriteCache
  <2> QED BY <2>1, <2>2, <2>3, <1>e, <1>r
<1>11. CASE CrashSync(f)
  <2>1. FilesTypeOK' /\ Files /\ faults' \in Nat
    BY <1>11, <1>u, RunTypes DEF CrashSync, FilesTypeOK, fileVars
  <2> QED BY <1>11, <2>1, <1>e, <1>r DEF CrashSync
<1>12. ASSUME NEW a \in Asset, EditFolder(f, a)
       PROVE  StoreTypeOK' /\ FolderTypeOK' /\ SyncPlanned'
  <2>1. FilesTypeOK' /\ RunTypeOK'
    BY <1>12 DEF EditFolder, FilesTypeOK, RunTypeOK, fileVars
  <2>2. Files
    <3>1. PICK x \in Chunk \cup {Absent} : folder' = [folder EXCEPT ![f][a] = x]
      BY <1>12 DEF EditFolder
    <3>2. folder' \in [Folder -> Disk]
      BY <3>1, <1>s DEF Disk
    <3> QED BY <1>12, <3>2, <1>s DEF Files, EditFolder, Outdates
  <2>3. SyncGoes(f, "idle")
    BY <1>12 DEF EditFolder, SyncGoes
  <2>4. "idle" \in SyncPhase
    BY SyncPhases DEF SyncResting
  <2> QED BY <2>1, <2>2, <2>3, <2>4, <1>g
<1> QED BY <1>1, <1>2, <1>3, <1>4, <1>5, <1>6, <1>7, <1>8, <1>9, <1>10, <1>11, <1>12
        DEF FolderStep, SyncProgress

-----------------------------------------------------------------------------
(* The types hold in every state.                                          *)

TypesInv == StoreTypeOK /\ UploadTypeOK /\ PruneInv /\ CloneTypeOK /\ FolderTypeOK /\ SyncPlanned

LEMMA TypesInit == Init => TypesInv
<1> SUFFICES ASSUME NEW s \in Scenario,
                    StoreInit(s), UploadInit, PruneInit, CloneInit(s), FolderInit(s)
             PROVE  TypesInv
  BY DEF Init
<1>1. Plausible(s) /\ s.folder \in Contents /\ s.work \in Contents
  BY ScenarioAssumption
<1>2. Version \subseteq Contents
  BY VersionStoreAssumption DEF Contents
<1>3. StoreTypeOK
  <2>1. FilesTypeOK
    BY <1>1, <1>2 DEF FilesTypeOK, StoreInit, Plausible, Standing
  <2>2. RunTypeOK
    BY <1>1 DEF RunTypeOK, StoreInit, Plausible
  <2> QED BY <2>1, <2>2 DEF StoreTypeOK
<1>4. UploadTypeOK
  BY IdleUploadType DEF UploadInit, UploadTypeOK, Resting
<1>5. PruneInv
  <2>1. PoolOK(IdlePrune)
    BY FS_EmptySet, PruneAssumption DEF IdlePrune, PoolOK
  <2>2. IdlePrune.at = "idle"
    BY DEF IdlePrune
  <2>3. PruneOK(IdlePrune)
    BY <2>1, <2>2, IdlePruneType DEF PruneOK
  <2> QED BY <2>3 DEF PruneInit, PruneInv
<1>6. CloneTypeOK
  BY <1>1, IdleCloneType DEF CloneInit, CloneTypeOK
<1>7. FolderTypeOK /\ SyncPlanned
  <2>1. (CHOOSE r \in Sync : TRUE) \in Sync
    BY FolderAssumption
  <2> DEFINE idle == IdleSync(CHOOSE r \in Sync : TRUE)
  <2>2. idle \in SyncState
    BY <2>1, IdleSyncType
  <2>3. idle.at = "idle"
    BY DEF IdleSync
  <2>4. sy = [f \in Folder |-> idle]
    BY DEF FolderInit
  <2> HIDE DEF idle
  <2>5. /\ folder \in [Folder -> Disk] /\ outdated \in [Folder -> BOOLEAN]
        /\ cache \in [Folder -> {NoFile, Torn} \cup Contents]
    BY <1>1, ContentsOnDisk DEF FolderInit
  <2> QED BY <2>2, <2>3, <2>4, <2>5 DEF FolderTypeOK, SyncPlanned
<1> QED BY <1>3, <1>4, <1>5, <1>6, <1>7 DEF TypesInv

LEMMA TypesNext == TypesInv /\ [Next]_vars => TypesInv'
<1> SUFFICES ASSUME TypesInv, [Next]_vars PROVE TypesInv'
  OBVIOUS
<1> USE DEF TypesInv
<1>1. UNCHANGED up => (UploadTypeOK => UploadTypeOK')
  BY DEF UploadTypeOK
<1>2. UNCHANGED pr => (PruneInv => PruneInv')
  BY DEF PruneInv, PruneOK
<1>3. UNCHANGED cloneVars => (CloneTypeOK => CloneTypeOK')
  BY DEF CloneTypeOK, cloneVars
<1>4. UNCHANGED folderVars => (FolderTypeOK /\ SyncPlanned => FolderTypeOK' /\ SyncPlanned')
  BY DEF FolderTypeOK, SyncPlanned, folderVars
<1>5. UNCHANGED storeVars => (StoreTypeOK => StoreTypeOK')
  BY DEF StoreTypeOK, FilesTypeOK, RunTypeOK, storeVars, fileVars, runVars
<1>6. CASE Uploads
  BY <1>2, <1>3, <1>4, <1>6, UploadTypes DEF Uploads
<1>7. CASE Prunes
  BY <1>1, <1>3, <1>4, <1>7, PruneTypes DEF Prunes
<1>8. CASE Clones
  BY <1>1, <1>2, <1>4, <1>8, CloneTypes DEF Clones
<1>9. CASE Syncs
  BY <1>1, <1>2, <1>3, <1>9, FolderTypes DEF Syncs
<1>10. CASE UNCHANGED vars
  BY <1>1, <1>2, <1>3, <1>4, <1>5, <1>10 DEF vars
<1> QED BY <1>6, <1>7, <1>8, <1>9, <1>10 DEF Next

LEMMA TypesAlways == Spec => []TypesInv
BY TypesInit, TypesNext, PTL DEF Spec

(* Every variable has its type, and the gather loop of a prune never has   *)
(* more goroutines than workers whose results it has not taken: it cannot  *)
(* block on its own channel (cmd_prunestore.go:146-220).                   *)
THEOREM TypeCorrect == Spec => []TypeOK
<1>1. TypesInv => TypeOK
  BY DEF TypesInv, TypeOK, PruneInv, PruneOK, PoolOK, PruneTypeOK
<1> QED BY <1>1, TypesAlways, PTL

-----------------------------------------------------------------------------
(* What a command knows of its folder.  Without the middle conjuncts the   *)
(* ends do not follow: that the folder is the version is built up asset by *)
(* asset, from an index that is right because every caching command before *)
(* deleted its cached index first.                                         *)

Knows(f) ==
    /\ sy[f].at \in {"query", "clean"} /\ ~sy[f].misled => sy[f].target = folder[f]
    /\ sy[f].at = "change" /\ ~sy[f].misled
          => \A a \in Asset \ sy[f].left : folder[f][a] = sy[f].source[a]
    /\ sy[f].at \in {"check", "cache", "done"} /\ ~sy[f].misled => folder[f] = sy[f].source
    /\ sy[f].at \in {"cache", "done"} /\ sy[f].ask.validate /\ sy[f].ask.hidden = {}
          => folder[f] = sy[f].source
    /\ sy[f].at = "change" /\ Caching(f) => cache[f] = NoFile

CacheTrue(f) == cache[f] \notin {NoFile, Torn} /\ ~outdated[f] => cache[f] = folder[f]

FolderInv == \A f \in Folder : Knows(f) /\ CacheTrue(f)

LEMMA KnowsInit == Init => FolderInv
<1> SUFFICES ASSUME NEW s \in Scenario, FolderInit(s) PROVE FolderInv
  BY DEF Init
<1>1. \A f \in Folder : cache[f] = NoFile
  BY DEF FolderInit
<1>2. \A f \in Folder : sy[f].at = "idle"
  BY DEF FolderInit, IdleSync
<1> QED BY <1>1, <1>2 DEF FolderInv, Knows, CacheTrue

LEMMA FolderKnows ==
    ASSUME FolderTypeOK, FolderInv, NEW f \in Folder, FolderStep(f)
    PROVE  FolderInv'
<1> DEFINE s == sy[f]
           Others == \A g \in Folder \ {f} : sy'[g] = sy[g]
           Alone == \A g \in Folder \ {f} :
                       /\ sy'[g] = sy[g] /\ folder'[g] = folder[g]
                       /\ cache'[g] = cache[g] /\ outdated'[g] = outdated[g]
<1>s. /\ s \in SyncState /\ sy \in [Folder -> SyncState]
      /\ folder \in [Folder -> Disk] /\ outdated \in [Folder -> BOOLEAN]
      /\ cache \in [Folder -> {NoFile, Torn} \cup Contents]
  BY DEF FolderTypeOK
<1>f. s.source \in Contents /\ s.target \in Disk /\ s.left \in SUBSET Asset /\ s.ask \in Sync
  BY <1>s, SyncFields
<1>k. Knows(f) /\ CacheTrue(f)
  BY DEF FolderInv
<1>a. Alone /\ Knows(f)' /\ CacheTrue(f)' => FolderInv'
  BY DEF FolderInv, Knows, CacheTrue, Caching
<1>u. UNCHANGED <<folder, cache, outdated>> => CacheTrue(f)' /\ (Others => Alone)
  BY <1>k DEF CacheTrue
<1>g. ASSUME NEW at, SyncGoes(f, at)
      PROVE  sy'[f] = [s EXCEPT !.at = at] /\ sy'[f].at = at /\ sy'[f].source = s.source
             /\ sy'[f].misled = s.misled /\ sy'[f].ask = s.ask
             /\ Others
  <2>1. sy'[f] = [s EXCEPT !.at = at] /\ Others
    BY <1>s, <1>g DEF SyncGoes
  <2> QED BY <2>1, <1>s DEF SyncState
<1>e. ASSUME NEW at \in {"failed", "missing", "idle"}, SyncGoes(f, at) PROVE Knows(f)' /\ Others
  BY <1>e, <1>g DEF Knows
<1>o. \A t : sy' = [sy EXCEPT ![f] = t] => sy'[f] = t /\ Others
  BY <1>s
<1>1. CASE StartSync(f)
  <2>1. PICK t : /\ sy' = [sy EXCEPT ![f] = t] /\ UNCHANGED <<folder, cache, outdated>>
                 /\ t.at \in {"target", "config", "source"}
    <3>1. PICK r \in Sync :
           /\ sy' = [sy EXCEPT ![f] =
               [IdleSync(r) EXCEPT
                   !.at = CASE r.kind = "unpack" -> "target"
                            [] r.kind = "get" -> "config"
                            [] OTHER -> "source",
                   !.todo = r.list,
                   !.source = IF r.kind = "unpack" THEN r.archive ELSE @]]
           /\ UNCHANGED <<folder, cache, outdated>>
      BY <1>1 DEF StartSync
    <3> DEFINE i == IdleSync(r)
               at == CASE r.kind = "unpack" -> "target"
                       [] r.kind = "get" -> "config"
                       [] OTHER -> "source"
               source == IF r.kind = "unpack" THEN r.archive ELSE i.source
               t == [i EXCEPT !.at = at, !.todo = r.list, !.source = source]
    <3>2. i \in SyncState
      BY IdleSyncType
    <3>3. at \in {"target", "config", "source"}
      OBVIOUS
    <3>4. t.at = at
      <4> HIDE DEF at, source, i
      <4> QED BY <3>2 DEF SyncState
    <3>5. sy' = [sy EXCEPT ![f] = t]
      BY <3>1
    <3> HIDE DEF t, at
    <3> QED BY <3>1, <3>3, <3>4, <3>5
  <2> QED BY <2>1, <1>a, <1>u, <1>o DEF Knows
<1>2. CASE ReadConfig(f) \/ ReadSource(f)
  <2>1. UNCHANGED <<folder, cache, outdated>>
    BY <1>2 DEF ReadConfig, ReadSource
  <2>2. CASE SyncGoes(f, "failed")
    BY <2>1, <2>2, <1>e, <1>u, <1>a
  <2>3. CASE SyncGoes(f, "source")
    <3>1. sy'[f].at = "source" /\ Others
      BY <2>3, <1>g
    <3> QED BY <3>1, <2>1, <1>u, <1>a DEF Knows
  <2>4. ASSUME NEW v, NEW excused, NEW at \in {"target", "source"},
               sy' = [sy EXCEPT ![f] = [s EXCEPT !.source = v, !.todo = Tail(s.todo),
                                                 !.excused = excused, !.at = at]]
        PROVE  FolderInv'
    <3>1. sy'[f].at = at /\ Others
      BY <2>4, <1>s, <1>o DEF SyncState
    <3> QED BY <3>1, <2>1, <1>u, <1>a DEF Knows
  <2> QED BY <1>2, <2>2, <2>3, <2>4 DEF ReadConfig, ReadSource, SyncEnds
<1>4. CASE ReadTarget(f)
  <2>1. UNCHANGED <<folder, cache, outdated>>
    BY <1>4 DEF ReadTarget
  <2>2. CASE SyncEnds(f, "failed")
    BY <2>1, <2>2, <1>e, <1>u, <1>a DEF SyncEnds
  <2>3. ASSUME NEW index \in Disk, NEW misled \in BOOLEAN, NEW seen \in BOOLEAN,
               TargetIs(f, index, misled, seen),
               misled # TRUE => Trusted(f, index)
        PROVE  FolderInv'
    <3>1. /\ sy'[f].at = "query" /\ sy'[f].target = index /\ sy'[f].misled = misled
          /\ Others
      BY <2>3, <1>s, <1>o DEF SyncState, TargetIs
    <3>2. misled \/ index = folder[f]
      BY <2>3, <1>k DEF CacheTrue, Trusted
    <3> QED BY <3>1, <3>2, <2>1, <1>u, <1>a DEF Knows
  <2> QED BY <1>4, <2>2, <2>3, TargetRead
<1>5. CASE QueryContent(f)
  <2>1. UNCHANGED <<folder, cache, outdated>> /\ s.at = "query"
    BY <1>5 DEF QueryContent, SyncAt
  <2>2. CASE SyncGoes(f, "failed")
    BY <2>1, <2>2, <1>e, <1>u, <1>a
  <2>3. CASE SyncGoes(f, "clean")
    <3>1. sy'[f].at = "clean" /\ sy'[f] = [s EXCEPT !.at = "clean"] /\ Others
      BY <2>3, <1>g
    <3>2. sy'[f].target = s.target /\ sy'[f].misled = s.misled
      BY <3>1, <1>s DEF SyncState
    <3> QED BY <3>1, <3>2, <2>1, <1>u, <1>a, <1>k DEF Knows
  <2>4. ASSUME NEW plan, NEW excused,
               sy' = [sy EXCEPT ![f] = [s EXCEPT !.at = "clean", !.plan = plan,
                                                 !.excused = excused]]
        PROVE  FolderInv'
    <3>1. /\ sy'[f].at = "clean" /\ sy'[f].target = s.target /\ sy'[f].misled = s.misled
          /\ Others
      BY <2>4, <1>s, <1>o DEF SyncState
    <3> QED BY <3>1, <2>1, <1>u, <1>a, <1>k DEF Knows
  <2> QED BY <1>5, <2>2, <2>3, <2>4 DEF QueryContent, SyncEnds
<1>6. CASE DeleteCache(f)
  <2>1. folder' = folder /\ s.at = "clean"
        /\ \A g \in Folder \ {f} : cache'[g] = cache[g] /\ outdated'[g] = outdated[g]
    BY <1>6, <1>s DEF DeleteCache, SyncAt, NoCache
  <2>2. CASE SyncGoes(f, "failed") /\ UNCHANGED <<cache, outdated>>
    BY <2>1, <2>2, <1>e, <1>u, <1>a
  <2>3. CASE /\ IF Deletes(f) THEN NoCache(f) ELSE UNCHANGED <<cache, outdated>>
             /\ sy' = [sy EXCEPT ![f] = [s EXCEPT !.at = "change", !.left = Differ(f)]]
    <3>1. /\ sy'[f].at = "change" /\ sy'[f].left = Differ(f) /\ sy'[f].misled = s.misled
          /\ sy'[f].source = s.source /\ sy'[f].ask = s.ask /\ Others
      BY <2>3, <1>s, <1>o DEF SyncState
    <3>2. ~s.misled => \A a \in Asset \ Differ(f) : folder[f][a] = s.source[a]
      BY <2>1, <1>k DEF Knows, Differ
    <3>3. (Caching(f) => cache'[f] = NoFile) /\ (Caching(f)' => Caching(f))
      BY <2>3, <3>1, <1>s DEF Deletes, NoCache, Caching
    <3>4. Knows(f)'
      BY <3>1, <3>2, <3>3, <2>1 DEF Knows
    <3>5. CacheTrue(f)'
      BY <2>3, <2>1, <1>k, <1>s DEF NoCache, CacheTrue
    <3> QED BY <3>1, <3>4, <3>5, <2>1, <1>a
  <2> QED BY <1>6, <2>2, <2>3 DEF DeleteCache, SyncEnds
<1>7. ASSUME NEW a \in Asset, ChangeAsset(f, a)
      PROVE  FolderInv'
  <2>1. /\ cache' = cache /\ s.at = "change"
        /\ outdated' = [outdated EXCEPT ![f] = (@ \/ (cache[f] # NoFile /\ ~Caching(f)))]
        /\ \E x : folder' = [folder EXCEPT ![f][a] = x]
    BY <1>7 DEF ChangeAsset, SyncAt, Outdates
  <2>2. \A g \in Folder \ {f} : cache'[g] = cache[g] /\ outdated'[g] = outdated[g]
                                /\ folder'[g] = folder[g]
    BY <2>1, <1>s
  <2>3. CacheTrue(f)'
    BY <2>1, <1>s, <1>k DEF CacheTrue, Knows
  <2>4. CASE \E at \in {"missing", "failed"} : SyncGoes(f, at)
    BY <2>2, <2>3, <2>4, <1>e, <1>a
  <2>5. CASE /\ folder' = [folder EXCEPT ![f][a] = s.source[a]]
             /\ sy' = [sy EXCEPT ![f].left = @ \ {a}]
    <3> DEFINE t == [s EXCEPT !.left = s.left \ {a}]
    <3>1. sy' = [sy EXCEPT ![f] = t]
      BY <2>5
    <3>2. /\ t.at = s.at /\ t.left = s.left \ {a} /\ t.misled = s.misled
          /\ t.source = s.source /\ t.ask = s.ask
      BY <1>s DEF SyncState
    <3> HIDE DEF t
    <3>3. sy'[f] = t /\ Others
      BY <3>1, <1>o
    <3>4. folder'[f][a] = s.source[a] /\ \A d \in Asset \ {a} : folder'[f][d] = folder[f][d]
      BY <2>5, <1>s DEF Disk
    <3>5. Caching(f)' => Caching(f)
      BY <3>2, <3>3 DEF Caching
    <3>6. Knows(f)'
      BY <2>1, <3>2, <3>3, <3>4, <3>5, <1>k DEF Knows
    <3> QED BY <3>3, <3>6, <2>2, <2>3, <1>a
  <2> QED BY <1>7, <2>4, <2>5 DEF ChangeAsset, SyncEnds
<1>8. CASE RemoveSeen(f)
  <2> DEFINE t == [s EXCEPT !.seen = FALSE]
  <2>1. sy' = [sy EXCEPT ![f] = t] /\ s.at = "change" /\ folder' = folder
    BY <1>8 DEF RemoveSeen, SyncAt
  <2>2. /\ t.at = s.at /\ t.left = s.left /\ t.misled = s.misled
        /\ t.source = s.source /\ t.ask = s.ask
    BY <1>s DEF SyncState
  <2> HIDE DEF t
  <2>3. sy'[f] = t /\ Others
    BY <2>1, <1>o
  <2>4. /\ cache'[f] = NoFile
        /\ \A g \in Folder \ {f} : cache'[g] = cache[g] /\ outdated'[g] = outdated[g]
    BY <1>8, <1>s DEF RemoveSeen, NoCache
  <2> QED BY <2>1, <2>2, <2>3, <2>4, <1>a, <1>k DEF Knows, CacheTrue
<1>9. CASE EndChange(f)
  <2>1. /\ s.at = "change" /\ s.left = {} /\ UNCHANGED <<folder, cache, outdated>>
        /\ SyncGoes(f, IF s.ask.validate THEN "check" ELSE "cache")
    BY <1>9 DEF EndChange, SyncAt
  <2>2. ~s.misled => folder[f] = s.source
    <3>1. ~s.misled => \A a \in Asset : folder[f][a] = s.source[a]
      BY <2>1, <1>k DEF Knows
    <3> QED BY <3>1, <1>s, <1>f DEF Disk, Contents
  <2>3. /\ sy'[f].at = (IF s.ask.validate THEN "check" ELSE "cache")
        /\ sy'[f].misled = s.misled /\ sy'[f].source = s.source /\ sy'[f].ask = s.ask /\ Others
    BY <2>1, <1>g
  <2>4. Knows(f)'
    BY <2>1, <2>2, <2>3 DEF Knows
  <2> QED BY <2>1, <2>3, <2>4, <1>u, <1>a
<1>10. CASE ValidateTarget(f)
  <2> DEFINE visible == [a \in Asset |-> IF a \in s.ask.hidden THEN Absent ELSE folder[f][a]]
  <2>1. s.at = "check" /\ UNCHANGED <<folder, cache, outdated>>
    BY <1>10 DEF ValidateTarget, SyncAt
  <2>2. CASE SyncGoes(f, "failed")
    BY <2>1, <2>2, <1>e, <1>u, <1>a
  <2>3. CASE SyncGoes(f, "cache") /\ \A a \in Asset : visible[a] = s.source[a]
    <3>1. s.ask.hidden = {} => folder[f] = s.source
      <4>1. s.ask.hidden = {} => \A a \in Asset : folder[f][a] = s.source[a]
        BY <2>3
      <4> QED BY <4>1, <1>s, <1>f DEF Disk, Contents
    <3>2. /\ sy'[f].at = "cache"
          /\ sy'[f].misled = s.misled /\ sy'[f].source = s.source /\ sy'[f].ask = s.ask /\ Others
      BY <2>3, <1>g
    <3>3. ~s.misled => folder[f] = s.source
      BY <2>1, <1>k DEF Knows
    <3> HIDE DEF visible
    <3>4. Knows(f)'
      BY <2>1, <3>1, <3>2, <3>3 DEF Knows
    <3> QED BY <2>1, <3>2, <3>4, <1>u, <1>a
  <2> QED BY <1>10, <2>2, <2>3 DEF ValidateTarget, Compared, SyncEnds
<1>11. CASE WriteCache(f)
  <2>1. /\ s.at = "cache" /\ folder' = folder
        /\ \A g \in Folder \ {f} : cache'[g] = cache[g] /\ outdated'[g] = outdated[g]
    BY <1>11, <1>s DEF WriteCache, SyncAt
  <2>2. PICK at \in {"done", "failed"} : SyncGoes(f, at)
    BY <1>11 DEF WriteCache, SyncEnds
  <2>3. Knows(f)'
    BY <2>1, <2>2, <1>g, <1>k DEF Knows
  <2>4. CacheTrue(f)'
    <3>1. ~s.misled => folder[f] = s.source
      BY <2>1, <1>k DEF Knows
    <3>2. CASE UNCHANGED <<cache, outdated>>
      BY <2>1, <3>2, <1>u
    <3>3. CASE cache'[f] = Torn
      BY <3>3 DEF CacheTrue
    <3>4. CASE cache'[f] = s.source /\ outdated'[f] = s.misled
      BY <2>1, <3>1, <3>4 DEF CacheTrue
    <3> QED BY <1>11, <3>2, <3>3, <3>4, <1>s DEF WriteCache
  <2> QED BY <2>1, <2>2, <2>3, <2>4, <1>g, <1>a
<1>12. CASE CrashSync(f)
  BY <1>12, <1>e, <1>u, <1>a DEF CrashSync, SyncEnds
<1>13. ASSUME NEW a \in Asset, EditFolder(f, a)
       PROVE  FolderInv'
  <2>1. /\ SyncGoes(f, "idle") /\ cache' = cache
        /\ outdated' = [outdated EXCEPT ![f] = (@ \/ cache[f] # NoFile)]
        /\ \E x : folder' = [folder EXCEPT ![f][a] = x]
    BY <1>13 DEF EditFolder, SyncGoes, Outdates
  <2>2. \A g \in Folder \ {f} : cache'[g] = cache[g] /\ outdated'[g] = outdated[g]
                                /\ folder'[g] = folder[g]
    BY <2>1, <1>s
  <2>3. CacheTrue(f)'
    BY <2>1, <1>s DEF CacheTrue
  <2> QED BY <2>1, <2>2, <2>3, <1>e, <1>a
<1> QED BY <1>1, <1>2, <1>4, <1>5, <1>6, <1>7, <1>8, <1>9, <1>10, <1>11, <1>12, <1>13
        DEF FolderStep, SyncProgress

LEMMA FolderAlways == Spec => []FolderInv
<1>1. TypesInv /\ FolderInv /\ [Next]_vars => FolderInv'
  <2> SUFFICES ASSUME TypesInv, FolderInv, [Next]_vars PROVE FolderInv'
    OBVIOUS
  <2>1. UNCHANGED folderVars => FolderInv'
    BY DEF folderVars, FolderInv, Knows, CacheTrue, Caching
  <2>2. CASE Uploads \/ Prunes \/ Clones \/ UNCHANGED vars
    BY <2>1, <2>2 DEF Uploads, Prunes, Clones, vars
  <2>3. CASE Syncs
    BY <2>3, FolderKnows DEF Syncs, TypesInv
  <2> QED BY <2>2, <2>3 DEF Next
<1> QED BY <1>1, KnowsInit, TypesAlways, PTL DEF Spec

(* The next command that goes by a cached index is right to, wherever the  *)
(* commands before it were interrupted (cmd_downsync.go:330-345, :459).    *)
THEOREM CacheTruth == Spec => []CacheIsTrue
<1>1. FolderInv => CacheIsTrue
  BY DEF FolderInv, CacheTrue, CacheIsTrue
<1> QED BY <1>1, FolderAlways, PTL

(* A sync that reports success has left the version in the folder.         *)
THEOREM SyncTruth == Spec => []SyncedIsVersion
<1>1. FolderInv => SyncedIsVersion
  BY DEF FolderInv, Knows, SyncedIsVersion
<1> QED BY <1>1, FolderAlways, PTL

(* With --validate it has, even when it was misled about the folder.       *)
THEOREM ValidationTruth == Spec => []ValidatedIsVersion
<1>1. FolderInv => ValidatedIsVersion
  BY DEF FolderInv, Knows, ValidatedIsVersion
<1> QED BY <1>1, FolderAlways, PTL

-----------------------------------------------------------------------------
(* What clone-store knows of its work folder.                              *)

WorkKnown(c) ==
    /\ cl[c].at = "change" => work[c] = cl[c].current
    /\ cl[c].at \in {"next", "query", "put", "publish", "local", "wait"}
          /\ cl[c].current # NoFile => work[c] = cl[c].current

WorkInv == \A c \in Cloner : WorkKnown(c)

LEMMA CloneKnows ==
    ASSUME CloneTypeOK, WorkInv, NEW c \in Cloner, CloneStep(c)
    PROVE  WorkInv'
<1> DEFINE s == cl[c]
           v == Source[s.name]
           Alone == \A d \in Cloner \ {c} : cl'[d] = cl[d] /\ work'[d] = work[d]
<1>s. s \in CloneState /\ cl \in [Cloner -> CloneState] /\ work \in [Cloner -> Contents]
  BY DEF CloneTypeOK
<1>f. s.name \in Name /\ s.current \in {NoFile} \cup Contents
  BY <1>s, CloneFields
<1>v. v \in Contents
  BY <1>f, CloneAssumption, VersionStoreAssumption DEF Contents
<1>k. WorkKnown(c)
  BY DEF WorkInv
<1>a. Alone /\ WorkKnown(c)' => WorkInv'
  BY DEF WorkInv, WorkKnown
<1>n. ASSUME NEW t, cl' = [cl EXCEPT ![c] = t], UNCHANGED work,
             \/ t.current = work[c]
             \/ t.current = s.current /\ t.at = s.at
             \/ /\ t.current = s.current /\ t.at # "change"
                /\ s.at \in {"next", "query", "put", "publish", "local", "wait"}
             \/ t.current = NoFile /\ t.at # "change"
      PROVE  WorkInv'
  <2>1. cl'[c] = t /\ Alone
    BY <1>n, <1>s
  <2> QED BY <2>1, <1>n, <1>k, <1>a DEF WorkKnown
<1>m. ASSUME NEW t, cl' = [cl EXCEPT ![c] = t],
             \A d \in Cloner \ {c} : work'[d] = work[d],
             t.at \in CloneResting \cup {"unzip", "rescan", "close"}
      PROVE  WorkInv'
  <2>1. cl'[c] = t /\ Alone
    BY <1>m, <1>s
  <2> QED BY <2>1, <1>m, <1>a DEF WorkKnown, CloneResting
<1>x. CloneAborts(c) /\ (\A d \in Cloner \ {c} : work'[d] = work[d]) => WorkInv'
  <2> DEFINE t == [s EXCEPT !.at = "close", !.ok = FALSE]
  <2>1. t.at = "close"
    BY <1>s DEF CloneState
  <2>2. CloneAborts(c) => cl' = [cl EXCEPT ![c] = t]
    BY DEF CloneAborts
  <2> HIDE DEF t
  <2> QED BY <2>1, <2>2, <1>m
<1>g. ASSUME NEW at, CloneGoes(c, at), at \in {"unzip", "rescan", "close"},
             \A d \in Cloner \ {c} : work'[d] = work[d]
      PROVE  WorkInv'
  <2> DEFINE t == [s EXCEPT !.at = at]
  <2>1. t.at = at /\ cl' = [cl EXCEPT ![c] = t]
    BY <1>s, <1>g DEF CloneState, CloneGoes
  <2> HIDE DEF t
  <2> QED BY <2>1, <1>g, <1>m
<1>1. CASE StartClone(c)
  <2>1. PICK r \in Clone :
           /\ cl' = [cl EXCEPT ![c] = [IdleClone EXCEPT !.at = "next", !.todo = r.list,
                                                     !.local = r.local, !.ok = TRUE]]
           /\ UNCHANGED work
    BY <1>1 DEF StartClone
  <2> DEFINE t == [IdleClone EXCEPT !.at = "next", !.todo = r.list,
                                    !.local = r.local, !.ok = TRUE]
  <2>2. t.at = "next" /\ t.current = NoFile
    BY DEF IdleClone
  <2> HIDE DEF t
  <2> QED BY <2>1, <2>2, <1>n DEF t
<1>2. CASE NextVersion(c)
  <2> DEFINE current == IF s.current = NoFile THEN work[c] ELSE s.current
             t == [s EXCEPT !.at = "change", !.name = Head(s.todo), !.todo = Tail(s.todo),
                            !.current = current]
  <2>1. UNCHANGED work /\ s.at = "next"
    BY <1>2 DEF NextVersion, CloneAt
  <2>2. current = work[c]
    BY <2>1, <1>k DEF WorkKnown
  <2>3. t.current = current
    <3> HIDE DEF current
    <3> QED BY <1>s DEF CloneState
  <2>4. CASE cl' = [cl EXCEPT ![c] = t]
    <3> HIDE DEF t
    <3> QED BY <2>1, <2>2, <2>3, <2>4, <1>n
  <2>5. CASE CloneAborts(c)
    BY <2>1, <2>5, <1>x
  <2>6. CASE CloneGoes(c, "close")
    BY <2>1, <2>6, <1>g
  <2> QED BY <1>2, <2>4, <2>5, <2>6 DEF NextVersion
<1>3. CASE ChangeWork(c)
  <2>1. s.at = "change"
    BY <1>3 DEF ChangeWork, CloneAt
  <2>2. s.current = work[c]
    BY <2>1, <1>k DEF WorkKnown
  <2>3. CASE /\ work' = [work EXCEPT ![c] = [a \in Asset |->
                   IF a \in {x \in Asset : s.current[x] # v[x]} THEN v[a] ELSE @[a]]]
             /\ cl' = [cl EXCEPT ![c] = [s EXCEPT !.at = "query", !.current = v]]
    <3> DEFINE t == [s EXCEPT !.at = "query", !.current = v]
    <3>1. [a \in Asset |-> IF a \in {x \in Asset : s.current[x] # v[x]}
                           THEN v[a] ELSE work[c][a]] = v
      BY <2>2, <1>v DEF Contents
    <3>2. work' = [work EXCEPT ![c] = v]
      BY <2>3, <3>1
    <3>3. t.at = "query" /\ t.current = v
      BY <1>s DEF CloneState
    <3> HIDE DEF t, v
    <3>4. cl'[c] = t /\ work'[c] = v /\ Alone
      BY <2>3, <3>2, <1>s DEF t
    <3> QED BY <3>3, <3>4, <1>a DEF WorkKnown
  <2>4. CASE CloneGoes(c, "unzip") /\ \E w : work' = [work EXCEPT ![c] = w]
    BY <2>4, <1>g, <1>s
  <2> QED BY <1>3, <2>3, <2>4 DEF ChangeWork, ChangeFails
<1>4. CASE Unzip(c)
  <2>1. \A d \in Cloner \ {c} : work'[d] = work[d]
    BY <1>4, <1>s DEF Unzip
  <2>2. CASE CloneGoes(c, "rescan")
    BY <2>1, <2>2, <1>g
  <2>3. CASE CloneAborts(c)
    BY <2>1, <2>3, <1>x
  <2> QED BY <1>4, <2>2, <2>3 DEF Unzip
<1>5. CASE Rescan(c)
  <2> DEFINE t == [s EXCEPT !.at = "query", !.current = work[c]]
  <2>1. t.current = work[c]
    BY <1>s DEF CloneState
  <2>2. UNCHANGED work
    BY <1>5 DEF Rescan
  <2>3. cl' = [cl EXCEPT ![c] = t] \/ CloneAborts(c)
    BY <1>5 DEF Rescan
  <2> HIDE DEF t
  <2> QED BY <2>1, <2>2, <2>3, <1>n, <1>x
<1>6. CASE FindCloned(c)
  <2>1. UNCHANGED work /\ s.at = "query"
    BY <1>6 DEF FindCloned, CloneAt
  <2>2. ASSUME NEW found, NEW made, NEW index,
               cl' = [cl EXCEPT ![c] = [s EXCEPT !.at = "put", !.found = found, !.made = made,
                                                 !.put = {}, !.cached = index]]
        PROVE  WorkInv'
    <3> DEFINE t == [s EXCEPT !.at = "put", !.found = found, !.made = made,
                              !.put = {}, !.cached = index]
    <3>1. t.at = "put" /\ t.current = s.current
      BY <1>s DEF CloneState
    <3> HIDE DEF t
    <3> QED BY <2>1, <2>2, <3>1, <1>n DEF t
  <2>3. CASE CloneAborts(c)
    BY <2>1, <2>3, <1>x
  <2> QED BY <1>6, <2>2, <2>3 DEF FindCloned
<1>7. ASSUME NEW b \in Block, StoreCloned(c, b) PROVE WorkInv'
  <2> DEFINE t == [s EXCEPT !.put = s.put \cup {b}]
  <2>1. t.at = s.at /\ t.current = s.current
    BY <1>s DEF CloneState
  <2>2. UNCHANGED work
    BY <1>7 DEF StoreCloned
  <2>3. cl' = [cl EXCEPT ![c] = t] \/ CloneAborts(c)
    BY <1>7 DEF StoreCloned
  <2> HIDE DEF t
  <2> QED BY <2>1, <2>2, <2>3, <1>n, <1>x
<1>8. CASE StartFlush(c) \/ EndFlush(c)
  <2> DEFINE t1 == [s EXCEPT !.at = "publish", !.flush = "running"]
             t2(late, cached) == [s EXCEPT !.flush = "ok", !.put = {}, !.late = late,
                                           !.cached = cached]
             t3 == [s EXCEPT !.flush = "error"]
  <2>1. /\ t1.at = "publish" /\ t1.current = s.current
        /\ \A late, cached :
              t2(late, cached).at = s.at /\ t2(late, cached).current = s.current
        /\ t3.at = s.at /\ t3.current = s.current
    BY <1>s DEF CloneState
  <2>2. UNCHANGED work
    BY <1>8 DEF StartFlush, EndFlush
  <2>3. \/ cl' = [cl EXCEPT ![c] = t1] /\ s.at = "put"
        \/ \E late, cached : cl' = [cl EXCEPT ![c] = t2(late, cached)]
        \/ cl' = [cl EXCEPT ![c] = t3]
    BY <1>8 DEF StartFlush, EndFlush, CloneAt
  <2> HIDE DEF t1, t2, t3
  <2> QED BY <2>1, <2>2, <2>3, <1>n
<1>9. CASE WriteCloned(c) \/ WriteClonedIndex(c) \/ WaitFlush(c)
  <2> DEFINE t1(at) == [s EXCEPT !.at = at]
             t2 == [s EXCEPT !.at = "next", !.flush = "none"]
  <2>1. /\ \A at : t1(at).at = at /\ t1(at).current = s.current
        /\ t2.at = "next" /\ t2.current = s.current
    BY <1>s DEF CloneState
  <2>2. UNCHANGED work /\ s.at \in {"publish", "local", "wait"}
    BY <1>9 DEF WriteCloned, WriteClonedIndex, WaitFlush, CloneAt
  <2>3. \/ \E at \in {"local", "wait"} : cl' = [cl EXCEPT ![c] = t1(at)]
        \/ cl' = [cl EXCEPT ![c] = t2]
        \/ CloneAborts(c)
    BY <1>9 DEF WriteCloned, WriteClonedIndex, WaitFlush, CloneGoes
  <2> HIDE DEF t1, t2
  <2> QED BY <2>1, <2>2, <2>3, <1>n, <1>x
<1>10. CASE CloseClone(c) \/ CrashClone(c)
  <2> DEFINE t(at) == [IdleClone EXCEPT !.at = at]
  <2>1. \A at : t(at).at = at
    BY DEF IdleClone
  <2>2. UNCHANGED work
    BY <1>10 DEF CloseClone, CrashClone
  <2>3. PICK at \in CloneResting : cl' = [cl EXCEPT ![c] = t(at)]
    BY <1>10 DEF CloseClone, CrashClone, CloneEnds, CloneResting
  <2> HIDE DEF t
  <2> QED BY <2>1, <2>2, <2>3, <1>m
<1> QED BY <1>1, <1>2, <1>3, <1>4, <1>5, <1>6, <1>7, <1>8, <1>9, <1>10
        DEF CloneStep, CloneProgress

(* Clone-store never goes by an index of its work folder that is not what  *)
(* the folder holds, though it scans the folder only once: a change that   *)
(* failed half way is followed by a scan (cmd_clonestore.go:325-343).      *)
THEOREM WorkTruth == Spec => []WorkIsCurrent
<1>1. Init => WorkInv
  BY DEF Init, CloneInit, IdleClone, WorkInv, WorkKnown
<1>2. TypesInv /\ WorkInv /\ [Next]_vars => WorkInv'
  <2> SUFFICES ASSUME TypesInv, WorkInv, [Next]_vars PROVE WorkInv'
    OBVIOUS
  <2>1. UNCHANGED cloneVars => WorkInv'
    BY DEF cloneVars, WorkInv, WorkKnown
  <2>2. CASE Uploads \/ Prunes \/ Syncs \/ UNCHANGED vars
    BY <2>1, <2>2 DEF Uploads, Prunes, Syncs, vars
  <2>3. CASE Clones
    BY <2>3, CloneKnows DEF Clones, TypesInv
  <2> QED BY <2>2, <2>3 DEF Next
<1>3. WorkInv => WorkIsCurrent
  BY DEF WorkInv, WorkKnown, WorkIsCurrent
<1> QED BY <1>1, <1>2, <1>3, TypesAlways, PTL DEF Spec

-----------------------------------------------------------------------------
(* Dry runs.  A prune that only shows what it would do ends after its      *)
(* gathering, or has no blocks to delete.                                  *)

DryHarmless(s) ==
    s.ask.dryRun => s.at # "prune" /\ (s.at = "delete" => s.doomed = {})

DryInv == \A p \in Pruner : DryHarmless(pr[p])

DryStep(p) ==
    /\ DryInv'
    /\ \A q \in Pruner \ {p} : pr'[q] = pr[q]
    /\ pr[p].ask.dryRun => UNCHANGED fileVars

LEMMA PruneDry ==
    ASSUME PruneInv, DryInv, NEW p \in Pruner, PruneStep(p)
    PROVE  DryStep(p)
<1> DEFINE s == pr[p]
<1>s. s \in PruneState /\ pr = [q \in Pruner |-> pr[q]]
  BY DEF PruneInv, PruneOK
<1>k. DryHarmless(s)
  BY DEF DryInv
<1>n. ASSUME NEW t, pr' = [pr EXCEPT ![p] = t], DryHarmless(t), s.ask.dryRun => UNCHANGED fileVars
      PROVE  DryStep(p)
  <2>1. pr'[p] = t /\ \A q \in Pruner \ {p} : pr'[q] = pr[q]
    BY <1>n, <1>s
  <2> QED BY <2>1, <1>n DEF DryInv, DryStep
<1>m. ASSUME NEW t, pr' = [pr EXCEPT ![p] = t], t.ask = s.ask,
             (t.at = s.at /\ t.doomed \subseteq s.doomed)
                \/ t.at \notin {"prune", "delete"} \/ ~s.ask.dryRun,
             s.ask.dryRun => UNCHANGED fileVars
      PROVE  DryStep(p)
  <2>1. s.at = "delete" /\ s.ask.dryRun => s.doomed = {}
    BY <1>k DEF DryHarmless
  <2>2. DryHarmless(t)
    BY <1>m, <1>k, <2>1 DEF DryHarmless
  <2> QED BY <2>2, <1>m, <1>n
<1>e. ASSUME NEW at \in PruneResting, PruneEnds(p, at), s.ask.dryRun => UNCHANGED fileVars
      PROVE  DryStep(p)
  <2> DEFINE t == [IdlePrune EXCEPT !.at = at]
  <2>1. t.at = at
    BY DEF IdlePrune
  <2>2. DryHarmless(t)
    <3> HIDE DEF t
    <3> QED BY <2>1 DEF DryHarmless, PruneResting
  <2>3. pr' = [pr EXCEPT ![p] = t]
    BY <1>e DEF PruneEnds
  <2> HIDE DEF t
  <2> QED BY <2>2, <2>3, <1>e, <1>n
<1>r. {"done", "failed"} \subseteq PruneResting
  BY DEF PruneResting
<1>g. ASSUME NEW at, PruneGoes(p, at), at \notin {"prune", "delete"} \/ ~s.ask.dryRun,
             UNCHANGED fileVars
      PROVE  DryStep(p)
  <2> DEFINE t == [s EXCEPT !.at = at]
  <2>1. t.at = at /\ t.ask = s.ask /\ pr' = [pr EXCEPT ![p] = t]
    BY <1>s, <1>g DEF PruneState, PruneGoes
  <2> HIDE DEF t
  <2> QED BY <2>1, <1>g, <1>m
<1>1. CASE StartPrune(p)
  <2>1. PICK r \in Prune :
           /\ pr' = [pr EXCEPT ![p] = [IdlePrune EXCEPT
                   !.ask = r, !.todo = r.list,
                   !.at = CASE r.kind = "blocks" -> "scan"
                            [] r.kind = "index" -> "index"
                            [] OTHER -> IF r.list = <<>> THEN "final" ELSE "next"]]
           /\ UNCHANGED fileVars
    BY <1>1 DEF StartPrune
  <2> DEFINE at == CASE r.kind = "blocks" -> "scan"
                     [] r.kind = "index" -> "index"
                     [] OTHER -> IF r.list = <<>> THEN "final" ELSE "next"
             t == [IdlePrune EXCEPT !.ask = r, !.todo = r.list, !.at = at]
  <2>2. at \notin {"prune", "delete"}
    OBVIOUS
  <2>3. t.at = at
    <3> HIDE DEF at
    <3> QED BY DEF IdlePrune
  <2>4. pr' = [pr EXCEPT ![p] = t]
    BY <2>1
  <2> HIDE DEF at, t
  <2> QED BY <2>1, <2>2, <2>3, <2>4, <1>n DEF DryHarmless
<1>2. CASE ReadPrunedIndex(p)
  <2> DEFINE at == IF s.todo = <<>> THEN "final" ELSE "next"
             t == [s EXCEPT !.index = indexed, !.at = at]
  <2>1. t.at = at /\ t.ask = s.ask
    <3> HIDE DEF at
    <3> QED BY <1>s DEF PruneState
  <2>2. at \notin {"prune", "delete"}
    OBVIOUS
  <2>3. pr' = [pr EXCEPT ![p] = t] \/ PruneEnds(p, "failed")
    BY <1>2 DEF ReadPrunedIndex
  <2>4. UNCHANGED fileVars
    BY <1>2 DEF ReadPrunedIndex
  <2> HIDE DEF at, t
  <2> QED BY <2>1, <2>2, <2>3, <2>4, <1>m, <1>e, <1>r
<1>3. CASE TakeWhenFull(p) \/ TakeReady(p) \/ TakeLast(p)
  <2> DEFINE t1(r, used, names) == [s EXCEPT !.results = s.results \ {r}, !.used = used,
                                             !.dropped = names]
             t2(r, used, err) == [s EXCEPT !.results = s.results \ {r}, !.used = used, !.err = err]
  <2>1. \A r, used, x :
           /\ t1(r, used, x).at = s.at /\ t1(r, used, x).ask = s.ask
           /\ t1(r, used, x).doomed = s.doomed
           /\ t2(r, used, x).at = s.at /\ t2(r, used, x).ask = s.ask
           /\ t2(r, used, x).doomed = s.doomed
    BY <1>s DEF PruneState
  <2>2. \E r, used, x : pr' = [pr EXCEPT ![p] = t1(r, used, x)]
                        \/ pr' = [pr EXCEPT ![p] = t2(r, used, x)]
    <3>1. TakeWhenFull(p) => \E r, x : pr' = [pr EXCEPT ![p] = t1(r, Used(p, r), x)]
      BY Zenon DEF TakeWhenFull
    <3>2. TakeReady(p) \/ TakeLast(p)
             => \E r, x : pr' = [pr EXCEPT ![p] = t2(r, Used(p, r), x)]
      BY Zenon DEF TakeReady, TakeLast
    <3> HIDE DEF t1, t2
    <3> QED BY <1>3, <3>1, <3>2
  <2>3. UNCHANGED fileVars
    BY <1>3 DEF TakeWhenFull, TakeReady, TakeLast
  <2> HIDE DEF t1, t2
  <2> QED BY <2>1, <2>2, <2>3, <1>m
<1>4. CASE LaunchPruneOne(p)
  <2> DEFINE t == [s EXCEPT !.at = "drain", !.jobs = s.jobs \cup {Head(s.todo)},
                            !.todo = Tail(s.todo)]
  <2>1. t.at = "drain" /\ t.ask = s.ask
    BY <1>s DEF PruneState
  <2>2. pr' = [pr EXCEPT ![p] = t] /\ UNCHANGED fileVars
    BY <1>4 DEF LaunchPruneOne
  <2> HIDE DEF t
  <2> QED BY <2>1, <2>2, <1>m
<1>5. CASE NoneReady(p)
  <2>1. \E at \in {"final", "next"} : PruneGoes(p, at)
    BY <1>5 DEF NoneReady
  <2>2. UNCHANGED fileVars
    BY <1>5 DEF NoneReady
  <2> QED BY <2>1, <2>2, <1>g
<1>6. CASE EndGather(p)
  <2>1. \/ \E at \in {"done", "failed"} : PruneEnds(p, at)
        \/ PruneGoes(p, "prune") /\ ~s.ask.dryRun
    BY <1>6 DEF EndGather
  <2>2. UNCHANGED fileVars
    BY <1>6 DEF EndGather
  <2> QED BY <2>1, <2>2, <1>g, <1>e, <1>r
<1>7. ASSUME NEW n \in Name,
             PruneOneByLocalIndex(p, n) \/ PruneOneByStore(p, n) \/ PruneOneFails(p, n)
      PROVE  DryStep(p)
  <2>1. ASSUME NEW ok, NEW blocks, NEW x,
               \/ pr' = [pr EXCEPT ![p] = Sends(p, n, ok, blocks)]
               \/ pr' = [pr EXCEPT ![p] = [Sends(p, n, ok, blocks) EXCEPT !.stale = x]]
               \/ pr' = [pr EXCEPT ![p] = [Sends(p, n, ok, blocks) EXCEPT !.index = x]],
               s.ask.dryRun => UNCHANGED fileVars
        PROVE  DryStep(p)
    <3> DEFINE t == Sends(p, n, ok, blocks)
               t1 == [t EXCEPT !.stale = x]
               t2 == [t EXCEPT !.index = x]
    <3>1. /\ t.at = s.at /\ t.ask = s.ask /\ t.doomed = s.doomed
          /\ t1.at = s.at /\ t1.ask = s.ask /\ t1.doomed = s.doomed
          /\ t2.at = s.at /\ t2.ask = s.ask /\ t2.doomed = s.doomed
      BY <1>s DEF PruneState, Sends
    <3>2. \/ pr' = [pr EXCEPT ![p] = t] \/ pr' = [pr EXCEPT ![p] = t1]
          \/ pr' = [pr EXCEPT ![p] = t2]
      BY <2>1
    <3> HIDE DEF t, t1, t2
    <3> QED BY <3>1, <3>2, <2>1, <1>m
  <2>2. CASE PruneOneByLocalIndex(p, n)
    <3>1. PICK ok, blocks, x :
             pr' = [pr EXCEPT ![p] = [Sends(p, n, ok, blocks) EXCEPT !.stale = x]]
      BY <2>2 DEF PruneOneByLocalIndex
    <3>2. UNCHANGED fileVars
      BY <2>2 DEF PruneOneByLocalIndex
    <3> QED BY <3>1, <3>2, <2>1
  <2>3. CASE PruneOneByStore(p, n)
    <3>1. PICK ok, blocks, x :
             pr' = [pr EXCEPT ![p] = [Sends(p, n, ok, blocks) EXCEPT !.index = x]]
      BY <2>3 DEF PruneOneByStore
    <3>2. s.ask.dryRun => UNCHANGED fileVars
      BY <2>3 DEF PruneOneByStore, RewritesIndex, fileVars
    <3> QED BY <3>1, <3>2, <2>1
  <2>4. CASE PruneOneFails(p, n)
    BY <2>1, <2>4 DEF PruneOneFails
  <2> QED BY <1>7, <2>2, <2>3, <2>4
<1>8. CASE PruneIndex(p)
  <2> DEFINE t == [s EXCEPT !.at = "delete", !.doomed = indexed \ s.used]
  <2>1. t.ask = s.ask
    BY <1>s DEF PruneState
  <2>2. ~s.ask.dryRun
    BY <1>8, <1>k DEF PruneIndex, PruneAt, DryHarmless
  <2>3. CASE pr' = [pr EXCEPT ![p] = t]
    <3> HIDE DEF t
    <3> QED BY <2>1, <2>2, <2>3, <1>m
  <2>4. CASE PruneGoes(p, "delete") /\ UNCHANGED <<indexed, standing>>
    BY <1>8, <2>2, <2>4, <1>g DEF PruneIndex, fileVars
  <2> QED BY <1>8, <2>3, <2>4 DEF PruneIndex
<1>9. ASSUME NEW b \in Block, DeletePruned(p, b) \/ DeleteUnused(p, b) PROVE DryStep(p)
  <2> DEFINE t1 == [s EXCEPT !.doomed = s.doomed \ {b}]
             t2 == [s EXCEPT !.doomed = s.doomed \ {b}, !.err = TRUE]
  <2>1. t1.ask = s.ask /\ t2.ask = s.ask
    BY <1>s DEF PruneState
  <2>2. ~s.ask.dryRun
    BY <1>9, <1>k DEF DeletePruned, DeleteUnused, PruneAt, DryHarmless
  <2>3. pr' = [pr EXCEPT ![p] = t1] \/ pr' = [pr EXCEPT ![p] = t2]
    BY <1>9 DEF DeletePruned, DeleteUnused
  <2> HIDE DEF t1, t2
  <2> QED BY <2>1, <2>2, <2>3, <1>m
<1>10. CASE EndPrune(p) \/ EndDelete(p) \/ CrashPrune(p)
  <2>1. UNCHANGED fileVars /\ \E at \in {"done", "failed"} : PruneEnds(p, at)
    BY <1>10 DEF EndPrune, EndDelete, CrashPrune
  <2> QED BY <2>1, <1>e, <1>r
<1>11. CASE WritePrunedIndex(p)
  <2>1. ~s.ask.dryRun
    BY <1>11, <1>k DEF WritePrunedIndex, PruneAt, DryHarmless
  <2>2. \E at \in {"done", "failed"} : PruneEnds(p, at)
    BY <1>11 DEF WritePrunedIndex
  <2> QED BY <2>1, <2>2, <1>e, <1>r
<1>12. CASE ReadIndexFile(p) \/ ListBlockFiles(p)
  <2> DEFINE t1 == [s EXCEPT !.index = indexed]
             t2 == [s EXCEPT !.err = TRUE]
             t3 == [s EXCEPT !.listed = stored]
  <2>1. \A t \in {t1, t2, t3} : t.at = s.at /\ t.ask = s.ask /\ t.doomed = s.doomed
    BY <1>s DEF PruneState
  <2>2. (\E t \in {t1, t2, t3} : pr' = [pr EXCEPT ![p] = t]) \/ PruneEnds(p, "failed")
    BY <1>12 DEF ReadIndexFile, ListBlockFiles
  <2>3. UNCHANGED fileVars
    BY <1>12 DEF ReadIndexFile, ListBlockFiles
  <2> HIDE DEF t1, t2, t3
  <2> QED BY <2>1, <2>2, <2>3, <1>m, <1>e, <1>r
<1>13. CASE JoinIndexAndBlocks(p)
  <2> DEFINE doomed == IF s.ask.dryRun THEN {} ELSE s.listed \ s.index
             t == [s EXCEPT !.at = "delete", !.doomed = doomed]
  <2>1. t.at = "delete" /\ t.ask = s.ask /\ t.doomed = doomed
    <3> HIDE DEF doomed
    <3> QED BY <1>s DEF PruneState
  <2>2. s.ask.dryRun => doomed = {}
    OBVIOUS
  <2>3. pr' = [pr EXCEPT ![p] = t] \/ PruneEnds(p, "done")
    BY <1>13 DEF JoinIndexAndBlocks
  <2>4. UNCHANGED fileVars
    BY <1>13 DEF JoinIndexAndBlocks
  <2>5. DryHarmless(t)
    <3> HIDE DEF t, doomed
    <3> QED BY <2>1, <2>2 DEF DryHarmless
  <2> HIDE DEF t
  <2> QED BY <2>3, <2>4, <2>5, <1>n, <1>e, <1>r
<1> QED BY <1>1, <1>2, <1>3, <1>4, <1>5, <1>6, <1>7, <1>8, <1>9, <1>10, <1>11, <1>12, <1>13
        DEF PruneStep, PruneProgress

(* "Don't prune, just show": a dry run changes no file of the store or     *)
(* beside it (cmd_prunestore.go:407 and its two siblings).                 *)
THEOREM DryRunTruth == Spec => DryRunKeepsAll
<1>1. Init => DryInv
  BY DEF Init, PruneInit, IdlePrune, DryInv, DryHarmless
<1>2. TypesInv /\ DryInv /\ [Next]_vars
         => /\ DryInv'
            /\ [\A p \in Pruner : pr[p].ask.dryRun /\ pr'[p] # pr[p] => UNCHANGED fileVars]_vars
  <2> SUFFICES ASSUME TypesInv, DryInv, [Next]_vars
               PROVE  /\ DryInv'
                      /\ \A p \in Pruner :
                            pr[p].ask.dryRun /\ pr'[p] # pr[p] => UNCHANGED fileVars
    OBVIOUS
  <2>1. CASE UNCHANGED pr
    BY <2>1 DEF DryInv, DryHarmless
  <2>2. CASE Prunes
    BY <2>2, PruneDry DEF Prunes, TypesInv, DryStep
  <2>3. CASE Uploads \/ Clones \/ Syncs \/ UNCHANGED vars
    BY <2>1, <2>3 DEF Uploads, Clones, Syncs, vars
  <2> QED BY <2>2, <2>3 DEF Next
<1> QED BY <1>1, <1>2, TypesAlways, PTL DEF Spec, DryRunKeepsAll

===============================================================================
