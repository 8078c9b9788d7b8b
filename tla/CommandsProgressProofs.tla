------------------------- MODULE CommandsProgressProofs -------------------------
(***************************************************************************)
(* Proofs that commands make progress, for any stores, folders, requests,  *)
(* processes and bounds: a command that runs has a step to take, and every *)
(* step leaves it less to do.                                              *)
(***************************************************************************)
EXTENDS CommandsProgress, CommandsProofs, WellFoundedInduction

-----------------------------------------------------------------------------
(* Queries have answers                                                    *)

(* Every block with a chunk that is asked for is an answer.                *)
LEMMA AnswerExists ==
    ASSUME NEW index \in SUBSET Block, NEW chunks
    PROVE  Existing(index, chunks) # {}
<1> DEFINE all == {b \in index : Holds[b] \cap chunks # {}}
<1>1. Content(index) \cap chunks \subseteq Content(all)
  BY DEF Content
<1>2. all \in Existing(index, chunks)
  BY <1>1 DEF Existing
<1> QED BY <1>2

(* What an upload is missing can be packed into blocks.                    *)
LEMMA UploadExists ==
    ASSUME NEW index \in SUBSET Block, NEW v \in Contents,
           \A chunks \in SUBSET Chunk : Packings(chunks) # {}
    PROVE  \E worth \in WorthReusing(index, Needed(v)) :
           \E found \in Existing(worth, Needed(v)) :
               Packings(Needed(v) \ Content(found)) # {}
<1>1. index \in WorthReusing(index, Needed(v))
  BY DEF WorthReusing
<1>2. PICK found \in Existing(index, Needed(v)) : TRUE
  BY AnswerExists
<1>3. Needed(v) \subseteq Chunk
  BY DEF Needed, Contents
<1> QED BY <1>1, <1>2, <1>3

-----------------------------------------------------------------------------
(* Below                                                                   *)

LEMMA LaterStage ==
    ASSUME NEW a, NEW b, NEW c, NEW d, a < c
    PROVE  Below(<<a, b>>, <<c, d>>)
BY DEF Below

LEMMA SameStage ==
    ASSUME NEW a, NEW b, NEW d, b < d
    PROVE  Below(<<a, b>>, <<a, d>>)
BY DEF Below

(* A finite set that loses an element is smaller.                          *)
LEMMA Fewer ==
    ASSUME NEW S, NEW T, IsFiniteSet(S), T \subseteq S, T # S
    PROVE  Cardinality(T) < Cardinality(S) /\ Cardinality(T) \in Nat /\ Cardinality(S) \in Nat
<1>1. IsFiniteSet(T)
  BY FS_Subset
<1>2. Cardinality(T) \in Nat /\ Cardinality(S) \in Nat
  BY <1>1, FS_CardinalityType
<1>3. Cardinality(T) <= Cardinality(S) /\ (Cardinality(T) = Cardinality(S) => T = S)
  BY FS_Subset
<1> QED BY <1>2, <1>3

-----------------------------------------------------------------------------
(* Uploads                                                                 *)

(* What the upload in a record is up to.                                   *)
UploadMoves(s) ==
    /\ s.at = "query" => s.version # NoFile
    /\ s.at = "list" => s.made = {}
    /\ s.at = "rebuild" => s.made \subseteq s.found

LEMMA UploadStages ==
    /\ \A at \in Resting : UploadStage(at) = 0
    /\ UploadStage("config") = 1 /\ UploadStage("close") = 2 /\ UploadStage("local") = 3
    /\ UploadStage("publish") = 4 /\ UploadStage("put") = 5 /\ UploadStage("rebuild") = 5
    /\ UploadStage("query") = 6 /\ UploadStage("list") = 6 /\ UploadStage("read") = 7
BY DEF UploadStage, Resting

LEMMA UploadRests ==
    ASSUME NEW s \in UploadState
    PROVE  /\ s.at = "put" => UploadRest(s) = Cardinality(s.made \ s.put)
           /\ s.at = "rebuild" => UploadRest(s) = Cardinality(s.found \ s.made)
           /\ IsFiniteSet(s.made \ s.put) /\ IsFiniteSet(s.found \ s.made)
<1>1. IsFiniteSet(Block)
  BY FinitenessAssumption
<1>2. s.made \ s.put \subseteq Block /\ s.found \ s.made \subseteq Block
  BY UploadFields
<1>3. IsFiniteSet(s.made \ s.put) /\ IsFiniteSet(s.found \ s.made)
  BY <1>1, <1>2, FS_Subset
<1> QED BY <1>3 DEF UploadRest

(* Each step of an upload leaves it less to do.                            *)
LEMMA UploadMoved ==
    ASSUME StoreTypeOK, UploadTypeOK, NEW u \in Uploader, UploadMoves(up[u]), UploadProgress(u)
    PROVE  UploadMoves(up'[u]) /\ Below(UploadLeft(up'[u]), UploadLeft(up[u]))
<1> DEFINE s == up[u]
           t == up'[u]
<1>a. s \in UploadState
  BY DEF UploadTypeOK
<1>f. /\ s.at \in UploadPhase /\ s.name \in Name
      /\ s.found \in SUBSET Block /\ s.made \in SUBSET Block /\ s.put \in SUBSET Block
      /\ s.version \in {NoFile} \cup Contents
  BY <1>a, UploadFields
<1>n. ASSUME NEW x, up' = [up EXCEPT ![u] = x] PROVE t = x
  BY <1>n DEF UploadTypeOK
<1>u. ASSUME NEW at, up' = [up EXCEPT ![u].at = at] PROVE t.at = at
  BY <1>u, <1>a DEF UploadTypeOK, UploadState
<1>x. Abort(u) => t.at = "close"
  BY <1>a DEF Abort, UploadTypeOK, UploadState
<1>e. ASSUME NEW at \in Resting, UploadEnds(u, at) PROVE t.at \in Resting
  <2>1. t = [IdleUpload EXCEPT !.at = at]
    BY <1>e, <1>n DEF UploadEnds
  <2> QED BY <2>1 DEF IdleUpload
<1>w. ASSUME t.at \notin {"query", "list", "rebuild"}, UploadStage(t.at) < UploadStage(s.at)
      PROVE  UploadMoves(t) /\ Below(UploadLeft(t), UploadLeft(s))
  BY <1>w, LaterStage DEF UploadMoves, UploadLeft
<1> SUFFICES UploadMoves(t) /\ Below(UploadLeft(t), UploadLeft(s))
  OBVIOUS
<1> HIDE DEF t
<1>1. CASE ReadVersion(u)
  <2>1. CASE up' = [up EXCEPT ![u] = [s EXCEPT !.at = "query", !.version = versionFile[s.name]]]
             /\ versionFile[s.name] # NoFile
    <3>1. t.at = "query" /\ t.version = versionFile[s.name]
      BY <2>1, <1>n, <1>a DEF UploadState
    <3> QED BY <3>1, <2>1, <1>1, UploadStages, LaterStage
            DEF UploadMoves, UploadLeft, ReadVersion, At
  <2>2. CASE Abort(u)
    BY <2>2, <1>x, <1>w, <1>1, UploadStages DEF ReadVersion, At
  <2> QED BY <1>1, <2>1, <2>2 DEF ReadVersion
<1>2. CASE FindExisting(u)
  <2>1. t.at \in {"put", "local", "close"}
    BY <1>2, <1>n, <1>x, <1>a DEF FindExisting, UploadState
  <2>2. s.at = "query"
    BY <1>2 DEF FindExisting, At
  <2> QED BY <2>1, <2>2, <1>w, UploadStages
<1>3. ASSUME NEW b \in Block, StoreBlock(u, b)
      PROVE  UploadMoves(t) /\ Below(UploadLeft(t), UploadLeft(s))
  <2>1. CASE up' = [up EXCEPT ![u].put = Announced(u, b, TRUE)]
    <3>1. t = [s EXCEPT !.put = s.put \cup {b}]
      BY <2>1, <1>n, <1>a DEF Announced, UploadTypeOK
    <3>2. t.at = "put" /\ t.made = s.made /\ t.put = s.put \cup {b} /\ t \in UploadState
      BY <3>1, <1>a, <1>f, <1>3 DEF StoreBlock, At, UploadState
    <3>3. t.made \ t.put \subseteq s.made \ s.put /\ t.made \ t.put # s.made \ s.put
      BY <3>2, <1>3 DEF StoreBlock
    <3>4. s.at = "put"
      BY <1>3 DEF StoreBlock, At
    <3>5. UploadRest(t) < UploadRest(s)
      <4>1. UploadRest(t) = Cardinality(t.made \ t.put)
        BY <3>2, UploadRests
      <4>2. UploadRest(s) = Cardinality(s.made \ s.put) /\ IsFiniteSet(s.made \ s.put)
        BY <3>4, <1>a, UploadRests
      <4> QED BY <3>3, <4>1, <4>2, Fewer
    <3> QED BY <3>2, <3>4, <3>5, SameStage DEF UploadMoves, UploadLeft
  <2>2. CASE up' = [up EXCEPT ![u] = [s EXCEPT !.at = "close", !.ok = FALSE,
                                               !.put = Announced(u, b, FALSE)]]
    <3>1. t.at = "close"
      BY <2>2, <1>n, <1>a DEF UploadState
    <3> QED BY <3>1, <1>w, <1>3, UploadStages DEF StoreBlock, At
  <2> QED BY <1>3, <2>1, <2>2 DEF StoreBlock
<1>4. ASSUME NEW b \in Block, ReadBlock(u, b)
      PROVE  UploadMoves(t) /\ Below(UploadLeft(t), UploadLeft(s))
  <2>1. s.at = "rebuild" /\ b \in s.found \ s.made
    BY <1>4 DEF ReadBlock, At
  <2>2. t.at = "rebuild" /\ t.made = s.made \cup {b} /\ t.found = s.found /\ t \in UploadState
    <3>1. PICK put \in SUBSET Block : t = [s EXCEPT !.made = s.made \cup {b}, !.put = put]
      <4>1. CASE up' = [up EXCEPT ![u] = [s EXCEPT !.made = s.made \cup {b},
                                                   !.put = s.put \cup ({b} \cap stored)]]
        BY <4>1, <1>n, <1>f
      <4>2. CASE up' = [up EXCEPT ![u].made = s.made \cup {b}]
        <5>1. t = [s EXCEPT !.made = s.made \cup {b}]
          BY <4>2, <1>n DEF UploadTypeOK
        <5>2. [s EXCEPT !.made = s.made \cup {b}]
                = [s EXCEPT !.made = s.made \cup {b}, !.put = s.put]
          BY <1>a DEF UploadState
        <5> QED BY <5>1, <5>2, <1>f
      <4> QED BY <1>4, <4>1, <4>2 DEF ReadBlock
    <3> QED BY <3>1, <2>1, <1>a, <1>f DEF UploadState
  <2>3. t.found \ t.made \subseteq s.found \ s.made /\ t.found \ t.made # s.found \ s.made
    BY <2>1, <2>2
  <2>4. UploadRest(t) < UploadRest(s)
    <3>1. UploadRest(t) = Cardinality(t.found \ t.made)
      BY <2>2, UploadRests
    <3>2. UploadRest(s) = Cardinality(s.found \ s.made) /\ IsFiniteSet(s.found \ s.made)
      BY <2>1, <1>a, UploadRests
    <3> QED BY <2>3, <3>1, <3>2, Fewer
  <2>5. UploadMoves(t)
    BY <2>1, <2>2 DEF UploadMoves
  <2> QED BY <2>1, <2>2, <2>4, <2>5, SameStage DEF UploadLeft
<1>5. CASE FlushUpload(u)
  <2>1. t.at \in {"publish", "close"}
    <3>1. CASE \E late : up' = [up EXCEPT ![u] = [s EXCEPT !.at = "publish", !.put = late]]
      BY <3>1, <1>n, <1>a DEF UploadState
    <3> QED BY <1>5, <3>1, <1>x DEF FlushUpload, FlushFails
  <2>2. s.at = "put"
    BY <1>5 DEF FlushUpload, At
  <2> QED BY <2>1, <2>2, <1>w, UploadStages
<1>6. CASE WriteVersion(u)
  <2>1. t.at \in {"local", "close"}
    BY <1>6, <1>u, <1>x DEF WriteVersion, Goes
  <2> QED BY <2>1, <1>w, <1>6, UploadStages DEF WriteVersion, At
<1>7. CASE WriteLocalIndex(u)
  <2>1. t.at = "close"
    BY <1>7, <1>u, <1>x DEF WriteLocalIndex, Goes
  <2> QED BY <2>1, <1>w, <1>7, UploadStages DEF WriteLocalIndex, At
<1>8. CASE ListBlocks(u)
  <2>1. s.at = "list"
    BY <1>8 DEF ListBlocks, At
  <2>2. CASE up' = [up EXCEPT ![u] = [s EXCEPT !.at = "rebuild", !.found = stored]]
    <3>1. t.at = "rebuild" /\ t.found = stored /\ t.made = {}
      BY <2>1, <2>2, <1>n, <1>a DEF UploadMoves, UploadState
    <3> QED BY <2>1, <3>1, UploadStages, LaterStage DEF UploadMoves, UploadLeft
  <2>3. CASE Abort(u)
    BY <2>1, <2>3, <1>x, <1>w, UploadStages
  <2> QED BY <1>8, <2>2, <2>3 DEF ListBlocks
<1>9. CASE AddRebuilt(u)
  <2>1. t.at = "close"
    BY <1>9, <1>n, <1>a DEF AddRebuilt, UploadState
  <2> QED BY <2>1, <1>w, <1>9, UploadStages DEF AddRebuilt, At
<1>10. CASE CloseUpload(u)
  <2>1. t.at \in Resting \cup {"config"}
    BY <1>10, <1>u, <1>e DEF CloseUpload, Goes, Resting
  <2> QED BY <2>1, <1>w, <1>10, UploadStages DEF CloseUpload, At, Resting
<1>11. CASE WriteConfig(u)
  <2>1. t.at \in Resting
    BY <1>11, <1>e DEF WriteConfig, Resting
  <2> QED BY <2>1, <1>w, <1>11, UploadStages DEF WriteConfig, At, Resting
<1> QED BY <1>1, <1>2, <1>3, <1>4, <1>5, <1>6, <1>7, <1>8, <1>9, <1>10, <1>11
        DEF UploadProgress

(* What an upload is up to when it starts, and when it crashes.            *)
LEMMA UploadBegun ==
    ASSUME UploadTypeOK, NEW u \in Uploader, StartUpload(u) \/ CrashUpload(u)
    PROVE  UploadMoves(up'[u])
<1>1. CASE StartUpload(u)
  <2>1. PICK r \in Upload :
           up' = [up EXCEPT ![u] =
               [IdleUpload EXCEPT
                   !.at = CASE r.kind = "index" -> "read"
                            [] r.kind = "init" -> "list"
                            [] OTHER -> "query",
                   !.kind = r.kind, !.name = r.name, !.local = r.local, !.ok = TRUE,
                   !.version = IF r.kind \in {"upsync", "put"} THEN r.version ELSE NoFile]]
    BY <1>1 DEF StartUpload
  <2>2. r.kind \in UploadKind /\ r.version # NoFile
    BY UploadAssumption, VersionStoreAssumption
  <2>3. /\ up'[u].made = {}
        /\ up'[u].at = CASE r.kind = "index" -> "read" [] r.kind = "init" -> "list"
                         [] OTHER -> "query"
        /\ up'[u].version = IF r.kind \in {"upsync", "put"} THEN r.version ELSE NoFile
    BY <2>1 DEF UploadTypeOK, IdleUpload
  <2> QED BY <2>2, <2>3 DEF UploadMoves, UploadKind
<1>2. CASE CrashUpload(u)
  <2>1. up'[u] = [IdleUpload EXCEPT !.at = "failed"]
    BY <1>2 DEF CrashUpload, UploadEnds, UploadTypeOK
  <2> QED BY <2>1 DEF IdleUpload, UploadMoves
<1> QED BY <1>1, <1>2

(* An upload that runs has a step to take.                                 *)
LEMMA UploadGoesOn ==
    ASSUME StoreTypeOK, UploadTypeOK, NEW u \in Uploader, UploadMoves(up[u]),
           up[u].at \notin Resting
    PROVE  UploadHasStep(u)
<1>1. up[u] \in UploadState
  BY DEF UploadTypeOK
<1>2. up[u].at \in UploadPhase /\ up[u].version \in {NoFile} \cup Contents
  BY <1>1, UploadFields
<1>3. CASE up[u].at = "query"
  <2>1. indexed \in SUBSET Block
    BY DEF StoreTypeOK, FilesTypeOK
  <2>2. up[u].version \in Contents
    BY <1>2, <1>3 DEF UploadMoves
  <2> QED BY <1>3, <2>1, <2>2, AnswerExists, UploadExists, UploadAssumption
          DEF UploadHasStep, At
<1>4. CASE up[u].at = "put"
  BY <1>4 DEF UploadHasStep, At
<1>5. CASE up[u].at = "rebuild"
  BY <1>5 DEF UploadHasStep, At, UploadMoves
<1>6. CASE up[u].at \in {"read", "publish", "local", "list", "close", "config"}
  BY <1>6 DEF UploadHasStep
<1> QED BY <1>2, <1>3, <1>4, <1>5, <1>6 DEF UploadPhase

-----------------------------------------------------------------------------
(* Prunes                                                                  *)

(* What the prune in a record is up to.                                    *)
PruneMoves(s) ==
    /\ s.at = "index" => s.ask.kind = "index"
    /\ s.at = "scan" => s.ask.kind = "blocks"
    /\ s.at \in {"next", "drain", "final", "prune"} =>
           \/ s.ask.kind = "store"
           \/ s.ask.kind = "index" /\ s.index # NoFile
    /\ s.at = "delete" => s.ask.kind \in {"store", "blocks"}
    /\ s.at \notin {"next", "drain", "final"} => s.jobs = {}

LEMMA PruneStages ==
    /\ \A at \in PruneResting : PruneStage(at) = 0
    /\ PruneStage("delete") = 1 /\ PruneStage("prune") = 2
    /\ PruneStage("next") = 3 /\ PruneStage("drain") = 3 /\ PruneStage("final") = 3
    /\ PruneStage("index") = 4 /\ PruneStage("scan") = 4
BY DEF PruneStage, PruneResting

LEMMA PruneRests ==
    ASSUME NEW s, PruneOK(s)
    PROVE  /\ s.at \in {"next", "drain", "final"} => PruneRest(s) = Gathering(s)
           /\ s.at = "scan" => PruneRest(s) = Scanning(s)
           /\ s.at = "delete" => PruneRest(s) = Cardinality(s.doomed)
           /\ IsFiniteSet(s.doomed)
           /\ Cardinality(s.jobs) \in Nat /\ Cardinality(s.results) \in Nat
           /\ Len(s.todo) \in Nat
<1>1. IsFiniteSet(Block)
  BY FinitenessAssumption
<1>2. s.doomed \subseteq Block /\ s.todo \in Seq(Name)
  BY PruneFields DEF PruneOK
<1>3. IsFiniteSet(s.doomed)
  BY <1>1, <1>2, FS_Subset
<1>4. Cardinality(s.jobs) \in Nat /\ Cardinality(s.results) \in Nat
  BY FS_CardinalityType DEF PruneOK, PoolOK
<1> QED BY <1>2, <1>3, <1>4 DEF PruneRest

(* A prune that runs has a step to take: a pool that is full has a         *)
(* goroutine at work or a result to take.                                  *)
LEMMA PruneGoesOn ==
    ASSUME StoreTypeOK, PruneInv, NEW p \in Pruner, PruneMoves(pr[p]),
           pr[p].at \notin PruneResting
    PROVE  PruneHasStep(p)
<1> DEFINE s == pr[p]
<1>1. PruneOK(s) /\ s \in PruneState /\ PoolOK(s)
  BY DEF PruneInv, PruneOK
<1>2. s.at \in PrunePhase /\ s.jobs \in SUBSET Name /\ s.index \in {NoFile} \cup SUBSET Block
  BY <1>1, PruneFields
<1>3. \A n \in s.jobs : JobHasStep(p, n)
  <2>1. indexed \in SUBSET Block
    BY DEF StoreTypeOK, FilesTypeOK
  <2>2. (IF s.index = NoFile THEN indexed ELSE s.index) \in SUBSET Block
    BY <2>1, <1>2
  <2> QED BY <2>2, AnswerExists DEF JobHasStep
<1>4. ASSUME s.jobs = {}, s.results = {} PROVE Active(p) = 0
  BY <1>4, FS_EmptySet DEF Active
<1>5. CASE s.at \in {"next", "final"}
  <2>1. CASE s.jobs # {}
    BY <1>3, <1>5, <2>1 DEF PruneHasStep
  <2>2. CASE s.jobs = {} /\ s.results = {}
    <3>1. Active(p) = 0 /\ PoolSize > 0
      BY <1>4, <2>2, PruneAssumption
    <3>2. s.at = "next" => s.todo # <<>>
      BY <1>1 DEF PruneOK
    <3> QED BY <3>1, <3>2, <1>5, PruneAssumption DEF PruneHasStep, PruneAt
  <2>3. CASE s.results # {}
    <3>1. s.at = "next" => s.todo # <<>>
      BY <1>1 DEF PruneOK
    <3>2. Active(p) <= PoolSize /\ Active(p) \in Nat
      BY <1>1, PruneRests DEF PoolOK, Active
    <3>3. Active(p) < PoolSize \/ Active(p) = PoolSize
      BY <3>2, PruneAssumption
    <3> QED BY <3>1, <3>3, <1>5, <2>3 DEF PruneHasStep, PruneAt
  <2> QED BY <2>1, <2>2, <2>3
<1>6. CASE s.at \in {"index", "drain", "scan", "prune", "delete"}
  BY <1>6 DEF PruneHasStep, PruneAt, PruneMoves
<1> QED BY <1>2, <1>5, <1>6 DEF PrunePhase

(* A result that is sent, and one that is taken, leave less to gather.     *)
LEMMA SentLess ==
    ASSUME NEW s, NEW t, PoolOK(s), NEW n \in s.jobs, NEW r,
           t.jobs = s.jobs \ {n}, t.results = s.results \cup {r}
    PROVE  2 * Cardinality(t.jobs) + Cardinality(t.results)
               < 2 * Cardinality(s.jobs) + Cardinality(s.results)
<1>1. IsFiniteSet(s.jobs) /\ IsFiniteSet(s.results)
  BY DEF PoolOK
<1>2. Cardinality(t.jobs) = Cardinality(s.jobs) - 1
  BY <1>1, FS_RemoveElement
<1>3. Cardinality(t.results) \in {Cardinality(s.results), Cardinality(s.results) + 1}
  BY <1>1, FS_AddElement
<1>4. Cardinality(s.jobs) \in Nat /\ Cardinality(s.results) \in Nat
  BY <1>1, FS_CardinalityType
<1> QED BY <1>2, <1>3, <1>4

LEMMA TakenLess ==
    ASSUME NEW s, NEW t, PoolOK(s), NEW r \in s.results,
           t.jobs = s.jobs, t.results = s.results \ {r}
    PROVE  2 * Cardinality(t.jobs) + Cardinality(t.results)
               < 2 * Cardinality(s.jobs) + Cardinality(s.results)
<1>1. IsFiniteSet(s.jobs) /\ IsFiniteSet(s.results)
  BY DEF PoolOK
<1>2. Cardinality(t.results) = Cardinality(s.results) - 1
  BY <1>1, FS_RemoveElement
<1>3. Cardinality(s.jobs) \in Nat /\ Cardinality(s.results) \in Nat
  BY <1>1, FS_CardinalityType
<1> QED BY <1>2, <1>3

LEMMA StartedMore ==
    ASSUME NEW s, NEW t, PoolOK(s), NEW n, t.jobs = s.jobs \cup {n}, t.results = s.results
    PROVE  2 * Cardinality(t.jobs) + Cardinality(t.results)
               <= 2 * Cardinality(s.jobs) + Cardinality(s.results) + 2
<1>1. IsFiniteSet(s.jobs) /\ IsFiniteSet(s.results)
  BY DEF PoolOK
<1>2. Cardinality(t.jobs) \in {Cardinality(s.jobs), Cardinality(s.jobs) + 1}
  BY <1>1, FS_AddElement
<1>3. Cardinality(s.jobs) \in Nat /\ Cardinality(s.results) \in Nat
  BY <1>1, FS_CardinalityType
<1> QED BY <1>2, <1>3

(* Each step of a prune leaves it less to do.                              *)
LEMMA PruneMoved ==
    ASSUME StoreTypeOK, PruneInv, NEW p \in Pruner, PruneMoves(pr[p]), PruneProgress(p)
    PROVE  PruneMoves(pr'[p]) /\ Below(PruneLeft(pr'[p]), PruneLeft(pr[p]))
<1> DEFINE s == pr[p]
           t == pr'[p]
<1>s. PruneOK(s) /\ s \in PruneState /\ PoolOK(s)
  BY DEF PruneInv, PruneOK
<1>f. /\ s.at \in PrunePhase /\ s.todo \in Seq(Name)
      /\ s.ask \in Prune \cup {IdlePrune.ask}
      /\ s.jobs \in SUBSET Name /\ s.results \in SUBSET Result
      /\ s.used \in SUBSET Block /\ s.err \in BOOLEAN
      /\ s.index \in {NoFile} \cup SUBSET Block
      /\ s.listed \in {NoFile} \cup SUBSET Block
      /\ s.doomed \in SUBSET Block
      /\ s.dropped \in SUBSET Name /\ s.stale \in SUBSET Name
  BY <1>s, PruneFields
<1>t. PruneOK(t) /\ t \in PruneState
  <2>1. PruneInv'
    BY PruneTypes DEF PruneStep
  <2> QED BY <2>1 DEF PruneInv, PruneOK
<1>n. ASSUME NEW x, pr' = [pr EXCEPT ![p] = x] PROVE t = x
  <2>1. p \in DOMAIN pr
    BY DEF PruneInv
  <2> QED BY <1>n, <2>1
<1>e. ASSUME NEW at \in PruneResting, PruneEnds(p, at) PROVE t.at \in PruneResting /\ t.jobs = {}
  <2>1. t = [IdlePrune EXCEPT !.at = at]
    BY <1>e, <1>n DEF PruneEnds
  <2> QED BY <2>1 DEF IdlePrune
<1>r. ASSUME t.at \in PruneResting, t.jobs = {}, s.at \notin PruneResting
      PROVE  PruneMoves(t) /\ Below(PruneLeft(t), PruneLeft(s))
  <2>1. PruneStage(t.at) = 0 /\ PruneStage(s.at) > 0
    BY <1>r, <1>f, PruneStages DEF PrunePhase
  <2> QED BY <1>r, <2>1, LaterStage DEF PruneMoves, PruneLeft, PruneResting
<1>g. ASSUME s.at \in {"next", "drain", "final"}, t.at \in {"next", "drain", "final"},
             t.ask = s.ask, t.index = s.index \/ t.index # NoFile, Gathering(t) < Gathering(s)
      PROVE  PruneMoves(t) /\ Below(PruneLeft(t), PruneLeft(s))
  <2>1. PruneStage(t.at) = PruneStage(s.at)
    BY <1>g, PruneStages
  <2>2. PruneRest(t) < PruneRest(s)
    BY <1>g, <1>s, <1>t, PruneRests
  <2> QED BY <1>g, <2>1, <2>2, SameStage DEF PruneMoves, PruneLeft
<1>d. ASSUME s.at = "delete", t.at = "delete", t.ask = s.ask,
             NEW b \in s.doomed, t.doomed = s.doomed \ {b}, t.jobs = s.jobs
      PROVE  PruneMoves(t) /\ Below(PruneLeft(t), PruneLeft(s))
  <2>1. PruneRest(t) < PruneRest(s)
    BY <1>d, <1>s, <1>t, PruneRests, Fewer
  <2> QED BY <1>d, <2>1, SameStage DEF PruneMoves, PruneLeft
<1>m. Len(s.todo) \in Nat /\ Cardinality(s.jobs) \in Nat /\ Cardinality(s.results) \in Nat
      /\ Len(t.todo) \in Nat /\ Cardinality(t.jobs) \in Nat /\ Cardinality(t.results) \in Nat
  BY <1>s, <1>t, PruneRests
<1> SUFFICES PruneMoves(t) /\ Below(PruneLeft(t), PruneLeft(s))
  OBVIOUS
<1> HIDE DEF t
<1>1. CASE ReadPrunedIndex(p)
  <2>1. s.at = "index"
    BY <1>1 DEF ReadPrunedIndex, PruneAt
  <2>2. CASE PruneEnds(p, "failed")
    BY <2>1, <2>2, <1>e, <1>r DEF PruneResting
  <2>3. ASSUME NEW at \in {"next", "final"},
               pr' = [pr EXCEPT ![p] = [s EXCEPT !.index = indexed, !.at = at]]
        PROVE  PruneMoves(t) /\ Below(PruneLeft(t), PruneLeft(s))
    <3>1. t.at = at /\ t.ask = s.ask /\ t.index = indexed
      BY <2>3, <1>n, <1>s DEF PruneState
    <3>2. indexed # NoFile
      BY VersionStoreAssumption DEF StoreTypeOK, FilesTypeOK
    <3> QED BY <2>1, <3>1, <3>2, PruneStages, LaterStage DEF PruneMoves, PruneLeft
  <2> QED BY <1>1, <2>2, <2>3 DEF ReadPrunedIndex
<1>2. CASE TakeWhenFull(p) \/ TakeReady(p) \/ TakeLast(p)
  <2>1. s.at \in {"next", "drain", "final"}
    BY <1>2 DEF TakeWhenFull, TakeReady, TakeLast, PruneAt
  <2>2. PICK r \in s.results :
           /\ t.at = s.at /\ t.ask = s.ask /\ t.index = s.index /\ t.todo = s.todo
           /\ t.jobs = s.jobs /\ t.results = s.results \ {r}
    <3>1. CASE TakeWhenFull(p)
      <4>1. PICK r \in s.results : \E used, dropped :
               pr' = [pr EXCEPT ![p] = [s EXCEPT !.results = s.results \ {r}, !.used = used,
                                                 !.dropped = dropped]]
        BY <3>1 DEF TakeWhenFull
      <4> QED BY <4>1, <1>n, <1>s DEF PruneState
    <3>2. CASE TakeReady(p) \/ TakeLast(p)
      <4>1. PICK r \in s.results, used \in SUBSET Block, err \in BOOLEAN :
               pr' = [pr EXCEPT ![p] = [s EXCEPT !.results = s.results \ {r}, !.used = used,
                                                 !.err = err]]
        BY <3>2, <1>f DEF TakeReady, TakeLast, Used, Result
      <4> QED BY <4>1, <1>n, <1>s DEF PruneState
    <3> QED BY <1>2, <3>1, <3>2
  <2>3. Gathering(t) < Gathering(s)
    <3>1. 2 * Cardinality(t.jobs) + Cardinality(t.results)
               < 2 * Cardinality(s.jobs) + Cardinality(s.results)
      BY <2>2, <1>s, TakenLess
    <3> QED BY <2>2, <3>1, <1>m, SMTT(60) DEF Gathering
  <2> QED BY <2>1, <2>2, <2>3, <1>g
<1>3. CASE LaunchPruneOne(p)
  <2>1. s.at = "next" /\ s.todo # <<>>
    BY <1>3, <1>s DEF LaunchPruneOne, PruneAt, PruneOK
  <2>2. /\ t.at = "drain" /\ t.ask = s.ask /\ t.index = s.index /\ t.todo = Tail(s.todo)
        /\ t.jobs = s.jobs \cup {Head(s.todo)} /\ t.results = s.results
    BY <1>3, <1>n, <1>s DEF LaunchPruneOne, PruneState
  <2>3. Len(t.todo) = Len(s.todo) - 1
    BY <2>1, <2>2, <1>f
  <2>4. Gathering(t) < Gathering(s)
    <3>1. 2 * Cardinality(t.jobs) + Cardinality(t.results)
               <= 2 * Cardinality(s.jobs) + Cardinality(s.results) + 2
      BY <2>2, <1>s, StartedMore
    <3>2. t.at = "drain" /\ s.at # "drain"
      BY <2>1, <2>2
    <3>3. Gathering(t) = 4 * Len(t.todo) + (2 * Cardinality(t.jobs) + Cardinality(t.results)) + 1
      BY <3>2, <1>m DEF Gathering
    <3>4. Gathering(s) = 4 * Len(s.todo) + (2 * Cardinality(s.jobs) + Cardinality(s.results))
      BY <3>2, <1>m DEF Gathering
    <3> HIDE DEF s
    <3> QED BY <2>3, <3>1, <3>3, <3>4, <1>m
  <2> QED BY <2>1, <2>2, <2>4, <1>g
<1>4. CASE NoneReady(p)
  <2>1. s.at = "drain"
    BY <1>4 DEF NoneReady, PruneAt
  <2>2. PICK at \in {"next", "final"} : pr' = [pr EXCEPT ![p] = [s EXCEPT !.at = at]]
    BY <1>4 DEF NoneReady, PruneGoes
  <2>3. /\ t.at = at /\ t.ask = s.ask /\ t.index = s.index /\ t.todo = s.todo
        /\ t.jobs = s.jobs /\ t.results = s.results
    BY <2>2, <1>n, <1>s DEF PruneState
  <2>4. Gathering(t) < Gathering(s)
    BY <2>1, <2>3, <1>m DEF Gathering
  <2> QED BY <2>1, <2>3, <2>4, <1>g
<1>5. CASE EndGather(p)
  <2>1. s.at = "final"
    BY <1>5 DEF EndGather, PruneAt
  <2>2. CASE \E at \in PruneResting : PruneEnds(p, at)
    BY <2>1, <2>2, <1>e, <1>r DEF PruneResting
  <2>3. CASE PruneGoes(p, "prune")
    <3>1. pr' = [pr EXCEPT ![p] = [s EXCEPT !.at = "prune"]]
      BY <2>3 DEF PruneGoes
    <3>2. t.at = "prune" /\ t.ask = s.ask /\ t.index = s.index /\ t.jobs = s.jobs
      BY <3>1, <1>n, <1>s DEF PruneState
    <3>3. s.jobs = {}
      <4>1. Cardinality(s.jobs) = 0
        BY <1>5, <1>m DEF EndGather, Active
      <4> QED BY <4>1, <1>s, FS_EmptySet DEF PoolOK
    <3> QED BY <2>1, <3>2, <3>3, PruneStages, LaterStage DEF PruneMoves, PruneLeft
  <2> QED BY <1>5, <2>2, <2>3 DEF EndGather, PruneResting
<1>6. ASSUME NEW n \in s.jobs, NEW r, t.at = s.at, t.ask = s.ask, t.todo = s.todo,
             t.index = s.index \/ t.index # NoFile,
             t.jobs = s.jobs \ {n}, t.results = s.results \cup {r}
      PROVE  PruneMoves(t) /\ Below(PruneLeft(t), PruneLeft(s))
  <2>1. s.at \in {"next", "drain", "final"}
    BY <1>6 DEF PruneMoves
  <2>2. Gathering(t) < Gathering(s)
    <3>1. 2 * Cardinality(t.jobs) + Cardinality(t.results)
               < 2 * Cardinality(s.jobs) + Cardinality(s.results)
      BY <1>6, <1>s, SentLess
    <3>2. t.todo = s.todo /\ t.at = s.at
      BY <1>6
    <3> QED BY <3>1, <3>2, <1>m, SMTT(30) DEF Gathering
  <2> QED BY <1>6, <2>1, <2>2, <1>g
<1>7. ASSUME NEW n \in Name, NEW ok, NEW blocks, NEW x, x = Sends(p, n, ok, blocks), n \in s.jobs,
             \/ t = x
             \/ \E stale : t = [x EXCEPT !.stale = stale]
             \/ \E index : t = [x EXCEPT !.index = index] /\ (index = s.index \/ index # NoFile)
      PROVE  PruneMoves(t) /\ Below(PruneLeft(t), PruneLeft(s))
  <2>1. /\ x.at = s.at /\ x.ask = s.ask /\ x.todo = s.todo /\ x.index = s.index
        /\ x.jobs = s.jobs \ {n}
        /\ x.results = s.results \cup {[name |-> n, ok |-> ok, blocks |-> blocks]}
        /\ x = [x EXCEPT !.at = s.at]
        /\ DOMAIN x = DOMAIN s
    BY <1>7, <1>s DEF Sends, PruneState
  <2>2. /\ t.at = s.at /\ t.ask = s.ask /\ t.todo = s.todo
        /\ t.index = s.index \/ t.index # NoFile
        /\ t.jobs = x.jobs /\ t.results = x.results
    BY <1>7, <2>1, <1>s DEF PruneState
  <2>3. t.jobs = s.jobs \ {n}
        /\ t.results = s.results \cup {[name |-> n, ok |-> ok, blocks |-> blocks]}
    BY <2>1, <2>2
  <2>4. n \in s.jobs
    BY <1>7
  <2> QED BY <1>6, <2>2, <2>3, <2>4
<1>8. ASSUME NEW n \in Name, PruneOneByLocalIndex(p, n)
      PROVE  PruneMoves(t) /\ Below(PruneLeft(t), PruneLeft(s))
  <2>1. PICK ok, blocks, stale : t = [Sends(p, n, ok, blocks) EXCEPT !.stale = stale]
    BY <1>8, <1>n DEF PruneOneByLocalIndex
  <2> QED BY <2>1, <1>8, <1>7 DEF PruneOneByLocalIndex
<1>9. ASSUME NEW n \in Name, PruneOneByStore(p, n)
      PROVE  PruneMoves(t) /\ Below(PruneLeft(t), PruneLeft(s))
  <2> DEFINE index == IF s.index = NoFile THEN indexed ELSE s.index
  <2>1. PICK ok, blocks : t = [Sends(p, n, ok, blocks) EXCEPT !.index = index]
    BY <1>9, <1>n DEF PruneOneByStore
  <2>2. index # NoFile
    BY VersionStoreAssumption DEF StoreTypeOK, FilesTypeOK
  <2> HIDE DEF index
  <2> QED BY <2>1, <2>2, <1>9, <1>7 DEF PruneOneByStore
<1>10. ASSUME NEW n \in Name, PruneOneFails(p, n)
       PROVE  PruneMoves(t) /\ Below(PruneLeft(t), PruneLeft(s))
  <2>1. t = Sends(p, n, FALSE, {})
    BY <1>10, <1>n DEF PruneOneFails
  <2> QED BY <2>1, <1>10, <1>7 DEF PruneOneFails
<1>11. CASE PruneIndex(p) \/ WritePrunedIndex(p)
  <2>1. s.at = "prune" /\ (PruneIndex(p) => s.ask.kind = "store")
    BY <1>11 DEF PruneIndex, WritePrunedIndex, PruneAt
  <2>2. CASE WritePrunedIndex(p)
    BY <2>1, <2>2, <1>e, <1>r DEF WritePrunedIndex, PruneResting
  <2>3. CASE PruneIndex(p)
    <3>1. t.at = "delete" /\ t.ask = s.ask /\ t.jobs = s.jobs
      <4>1. CASE pr' = [pr EXCEPT ![p] = [s EXCEPT !.at = "delete",
                                                   !.doomed = indexed \ s.used]]
        BY <4>1, <1>n, <1>s DEF PruneState
      <4>2. CASE PruneGoes(p, "delete")
        <5>1. pr' = [pr EXCEPT ![p] = [s EXCEPT !.at = "delete"]]
          BY <4>2 DEF PruneGoes
        <5> QED BY <5>1, <1>n, <1>s DEF PruneState
      <4> QED BY <2>3, <4>1, <4>2 DEF PruneIndex
    <3> QED BY <2>1, <2>3, <3>1, PruneStages, LaterStage DEF PruneMoves, PruneLeft
  <2> QED BY <1>11, <2>2, <2>3
<1>12. ASSUME NEW b \in Block, DeletePruned(p, b) \/ DeleteUnused(p, b)
       PROVE  PruneMoves(t) /\ Below(PruneLeft(t), PruneLeft(s))
  <2>1. s.at = "delete" /\ b \in s.doomed
    BY <1>12 DEF DeletePruned, DeleteUnused, PruneAt
  <2>2. t.at = s.at /\ t.ask = s.ask /\ t.jobs = s.jobs /\ t.doomed = s.doomed \ {b}
    <3>1. CASE pr' = [pr EXCEPT ![p].doomed = @ \ {b}]
      <4>1. pr' = [pr EXCEPT ![p] = [s EXCEPT !.doomed = s.doomed \ {b}]]
        BY <3>1
      <4>2. t = [s EXCEPT !.doomed = s.doomed \ {b}]
        BY <4>1, <1>n
      <4> QED BY <4>2, <1>s DEF PruneState
    <3>2. CASE pr' = [pr EXCEPT ![p] = [s EXCEPT !.doomed = s.doomed \ {b}, !.err = TRUE]]
      <4>1. t = [s EXCEPT !.doomed = s.doomed \ {b}, !.err = TRUE]
        BY <3>2, <1>n
      <4> QED BY <4>1, <1>s DEF PruneState
    <3> QED BY <1>12, <3>1, <3>2 DEF DeletePruned, DeleteUnused
  <2> QED BY <2>1, <2>2, <1>d
<1>13. CASE EndPrune(p) \/ EndDelete(p)
  <2>1. s.at = "delete"
    BY <1>13 DEF EndPrune, EndDelete, PruneAt
  <2>2. t.at \in PruneResting /\ t.jobs = {}
    BY <1>13, <1>e DEF EndPrune, EndDelete, PruneResting
  <2> QED BY <2>1, <2>2, <1>r DEF PruneResting
<1>14. CASE ReadIndexFile(p) \/ ListBlockFiles(p)
  <2>1. s.at = "scan"
    BY <1>14 DEF ReadIndexFile, ListBlockFiles, PruneAt
  <2>2. CASE PruneEnds(p, "failed")
    BY <2>1, <2>2, <1>e, <1>r DEF PruneResting
  <2>3. stored # NoFile /\ indexed # NoFile
    BY VersionStoreAssumption DEF StoreTypeOK, FilesTypeOK
  <2>4. CASE ~PruneEnds(p, "failed")
    <3>1. /\ t.at = "scan" /\ t.ask = s.ask /\ t.jobs = s.jobs
          /\ \/ /\ s.index = NoFile /\ ~s.err /\ t.listed = s.listed
                /\ t.index # NoFile \/ t.err
             \/ /\ s.listed = NoFile /\ t.listed # NoFile
                /\ t.index = s.index /\ t.err = s.err
      <4>1. CASE pr' = [pr EXCEPT ![p].index = indexed] /\ ReadIndexFile(p)
        <5>1. pr' = [pr EXCEPT ![p] = [s EXCEPT !.index = indexed]]
          BY <4>1
        <5>2. t = [s EXCEPT !.index = indexed]
          BY <5>1, <1>n
        <5> QED BY <4>1, <5>2, <2>1, <2>3, <1>s DEF ReadIndexFile, PruneState
      <4>2. CASE pr' = [pr EXCEPT ![p].err = TRUE] /\ ReadIndexFile(p)
        <5>1. pr' = [pr EXCEPT ![p] = [s EXCEPT !.err = TRUE]]
          BY <4>2
        <5>2. t = [s EXCEPT !.err = TRUE]
          BY <5>1, <1>n
        <5> QED BY <4>2, <5>2, <2>1, <1>s DEF ReadIndexFile, PruneState
      <4>3. CASE pr' = [pr EXCEPT ![p].listed = stored] /\ ListBlockFiles(p)
        <5>1. pr' = [pr EXCEPT ![p] = [s EXCEPT !.listed = stored]]
          BY <4>3
        <5>2. t = [s EXCEPT !.listed = stored]
          BY <5>1, <1>n
        <5> QED BY <4>3, <5>2, <2>1, <2>3, <1>s DEF ListBlockFiles, PruneState
      <4> QED BY <1>14, <2>4, <4>1, <4>2, <4>3 DEF ReadIndexFile, ListBlockFiles
    <3>2. PruneRest(t) < PruneRest(s)
      BY <2>1, <3>1, <1>s, <1>t, PruneRests DEF Scanning
    <3> QED BY <2>1, <3>1, <3>2, SameStage DEF PruneMoves, PruneLeft
  <2> QED BY <2>2, <2>4
<1>15. CASE JoinIndexAndBlocks(p)
  <2>1. s.at = "scan"
    BY <1>15 DEF JoinIndexAndBlocks, PruneAt
  <2>2. CASE PruneEnds(p, "done")
    BY <2>1, <2>2, <1>e, <1>r DEF PruneResting
  <2>3. CASE ~PruneEnds(p, "done")
    <3>1. t.at = "delete" /\ t.ask = s.ask /\ t.jobs = s.jobs
      <4>1. PICK blocks : pr' = [pr EXCEPT ![p] = [s EXCEPT !.at = "delete", !.doomed = blocks]]
        BY <1>15, <2>3 DEF JoinIndexAndBlocks
      <4> QED BY <4>1, <1>n, <1>s DEF PruneState
    <3> QED BY <2>1, <3>1, PruneStages, LaterStage DEF PruneMoves, PruneLeft
  <2> QED BY <2>2, <2>3
<1> QED BY <1>1, <1>2, <1>3, <1>4, <1>5, <1>8, <1>9, <1>10, <1>11, <1>12, <1>13, <1>14, <1>15
        DEF PruneProgress

(* What a prune is up to when it starts, and when it crashes.              *)
LEMMA PruneBegun ==
    ASSUME PruneInv, NEW p \in Pruner, StartPrune(p) \/ CrashPrune(p)
    PROVE  PruneMoves(pr'[p])
<1>1. CASE StartPrune(p)
  <2>1. PICK r \in Prune :
           pr' = [pr EXCEPT ![p] =
               [IdlePrune EXCEPT
                   !.ask = r, !.todo = r.list,
                   !.at = CASE r.kind = "blocks" -> "scan"
                            [] r.kind = "index" -> "index"
                            [] OTHER -> IF r.list = <<>> THEN "final" ELSE "next"]]
    BY <1>1 DEF StartPrune
  <2>2. r.kind \in PruneKind
    BY PruneAssumption DEF PruneRequest
  <2>3. p \in DOMAIN pr
    BY DEF PruneInv
  <2>4. /\ pr'[p].ask = r /\ pr'[p].jobs = {}
        /\ pr'[p].at = CASE r.kind = "blocks" -> "scan" [] r.kind = "index" -> "index"
                         [] OTHER -> IF r.list = <<>> THEN "final" ELSE "next"
    BY <2>1, <2>3 DEF IdlePrune
  <2> QED BY <2>2, <2>4 DEF PruneMoves, PruneKind
<1>2. CASE CrashPrune(p)
  <2>1. pr'[p] = [IdlePrune EXCEPT !.at = "failed"]
    BY <1>2 DEF CrashPrune, PruneEnds, PruneInv
  <2> QED BY <2>1 DEF IdlePrune, PruneMoves
<1> QED BY <1>1, <1>2

-----------------------------------------------------------------------------
(* Clones                                                                  *)

(* What the clone in a record is up to: it waits for a flush it started,   *)
(* and that flush is over when it stores blocks again.                     *)
CloneMoves(s) ==
    /\ s.at \in {"change", "unzip", "query"} => s.current # NoFile
    /\ s.at \in {"publish", "local", "wait"} => s.flush # "none"
    /\ s.at \in {"next", "change", "unzip", "rescan", "query", "put"} => s.flush # "running"

LEMMA CloneStages ==
    /\ \A at \in CloneResting : CloneStage(at) = 0
    /\ CloneStage("close") = 1 /\ CloneStage("next") = 2 /\ CloneStage("wait") = 3
    /\ CloneStage("local") = 4 /\ CloneStage("publish") = 5 /\ CloneStage("put") = 6
    /\ CloneStage("query") = 7 /\ CloneStage("rescan") = 8 /\ CloneStage("unzip") = 9
    /\ CloneStage("change") = 10
BY DEF CloneStage, CloneResting

LEMMA CloneStageNat == \A at \in ClonePhase : CloneStage(at) \in Nat
BY CloneStages DEF ClonePhase

(* What a clone is up to when it starts, and when it crashes.              *)
LEMMA CloneBegun ==
    ASSUME CloneTypeOK, NEW c \in Cloner, StartClone(c) \/ CrashClone(c)
    PROVE  CloneMoves(cl'[c])
<1>1. CASE StartClone(c)
  <2>1. PICK r \in Clone : cl' = [cl EXCEPT ![c] =
             [IdleClone EXCEPT !.at = "next", !.todo = r.list, !.local = r.local, !.ok = TRUE]]
    BY <1>1 DEF StartClone
  <2>2. cl'[c].at = "next" /\ cl'[c].flush = "none"
    BY <2>1 DEF CloneTypeOK, IdleClone
  <2> QED BY <2>2 DEF CloneMoves
<1>2. CASE CrashClone(c)
  <2>1. cl'[c] = [IdleClone EXCEPT !.at = "failed"]
    BY <1>2 DEF CrashClone, CloneEnds, CloneTypeOK
  <2> QED BY <2>1 DEF IdleClone, CloneMoves
<1> QED BY <1>1, <1>2

(* A clone that runs has a step to take.                                   *)
LEMMA CloneGoesOn ==
    ASSUME StoreTypeOK, CloneTypeOK, NEW c \in Cloner, CloneMoves(cl[c]),
           cl[c].at \notin CloneResting
    PROVE  CloneHasStep(c)
<1>1. cl[c] \in CloneState
  BY DEF CloneTypeOK
<1>2. /\ cl[c].at \in ClonePhase /\ cl[c].current \in {NoFile} \cup Contents
      /\ cl[c].cached \in {NoFile} \cup SUBSET Block
  BY <1>1, CloneFields
<1>3. CASE cl[c].at = "query"
  <2> DEFINE index == IF cl[c].cached = NoFile THEN indexed ELSE cl[c].cached
  <2>1. index \in SUBSET Block
    BY <1>2 DEF StoreTypeOK, FilesTypeOK
  <2>2. cl[c].current \in Contents /\ cl[c].current # NoFile
    BY <1>2, <1>3 DEF CloneMoves
  <2>3. \E worth \in WorthReusing(index, Needed(cl[c].current)) :
        \E found \in Existing(worth, Needed(cl[c].current)) :
            Packings(Needed(cl[c].current) \ Content(found)) # {}
    <3> HIDE DEF index
    <3> QED BY <2>1, <2>2, UploadExists, CloneAssumption
  <2> QED BY <1>3, <2>2, <2>3 DEF CloneHasStep, CloneAt
<1>4. CASE cl[c].at \in {"next", "unzip", "rescan", "publish", "local", "close"}
  BY <1>4 DEF CloneHasStep
<1>5. CASE cl[c].at \in {"change", "put"}
  BY <1>5 DEF CloneHasStep, CloneAt, CloneMoves
<1>6. CASE cl[c].at = "wait"
  <2>1. cl[c].flush \in {"none", "running", "ok", "error"}
    BY <1>1 DEF CloneState
  <2>2. cl[c].flush \in {"running", "ok"} \/ FlushFailed(c)
    BY <1>6, <2>1 DEF CloneMoves, FlushFailed
  <2> QED BY <1>6, <2>2 DEF CloneHasStep, CloneAt
<1> QED BY <1>2, <1>3, <1>4, <1>5, <1>6 DEF ClonePhase

(* Each step of a clone leaves it less to do.                              *)
LEMMA CloneMoved ==
    ASSUME StoreTypeOK, CloneTypeOK, NEW c \in Cloner, CloneMoves(cl[c]), CloneProgress(c)
    PROVE  CloneMoves(cl'[c]) /\ Below(CloneLeft(cl'[c]), CloneLeft(cl[c]))
<1> DEFINE s == cl[c]
           t == cl'[c]
<1>s. s \in CloneState /\ work \in [Cloner -> Contents]
  BY DEF CloneTypeOK
<1>f. /\ s.at \in ClonePhase /\ s.name \in Name /\ s.todo \in Seq(Name)
      /\ s.found \in SUBSET Block /\ s.made \in SUBSET Block /\ s.put \in SUBSET Block
      /\ s.current \in {NoFile} \cup Contents
      /\ s.cached \in {NoFile} \cup SUBSET Block
  BY <1>s, CloneFields
<1>v. Source[s.name] # NoFile /\ work[c] # NoFile
  BY <1>f, <1>s, CloneAssumption, VersionStoreAssumption, FolderAssumption
<1>t. t \in CloneState
  BY CloneTypes DEF CloneStep, CloneTypeOK
<1>n. ASSUME NEW x, cl' = [cl EXCEPT ![c] = x] PROVE t = x
  BY <1>n DEF CloneTypeOK
<1>m. /\ Len(s.todo) \in Nat /\ Len(t.todo) \in Nat
      /\ CloneStage(s.at) \in Nat /\ CloneStage(t.at) \in Nat
  BY <1>s, <1>t, CloneFields, CloneStageNat
<1>g. ASSUME NEW at, CloneGoes(c, at)
      PROVE  /\ t.at = at /\ t.todo = s.todo /\ t.current = s.current /\ t.flush = s.flush
  <2>1. cl' = [cl EXCEPT ![c] = [s EXCEPT !.at = at]]
    BY <1>g DEF CloneGoes
  <2>2. t = [s EXCEPT !.at = at]
    BY <2>1, <1>n
  <2> QED BY <2>2, <1>s DEF CloneState
<1>x. CloneAborts(c) => t.at = "close" /\ t.todo = s.todo
  BY <1>n, <1>s DEF CloneAborts, CloneState
<1>e. ASSUME NEW at \in CloneResting, CloneEnds(c, at)
      PROVE  t.at \in CloneResting /\ t.todo = <<>>
  <2>1. t = [IdleClone EXCEPT !.at = at]
    BY <1>e, <1>n DEF CloneEnds
  <2> QED BY <2>1 DEF IdleClone
<1>w. ASSUME t.todo = s.todo, CloneStage(t.at) < CloneStage(s.at)
      PROVE  Below(CloneLeft(t), CloneLeft(s))
  <2>1. 9 * Len(t.todo) + CloneStage(t.at) < 9 * Len(s.todo) + CloneStage(s.at)
    BY <1>w, <1>m
  <2> QED BY <2>1, LaterStage DEF CloneLeft
<1>a. ASSUME t.todo = s.todo, t.at = "close", CloneStage(s.at) > 1
      PROVE  CloneMoves(t) /\ Below(CloneLeft(t), CloneLeft(s))
  BY <1>a, <1>w, CloneStages DEF CloneMoves
<1> SUFFICES CloneMoves(t) /\ Below(CloneLeft(t), CloneLeft(s))
  OBVIOUS
<1> HIDE DEF t
<1>1. CASE NextVersion(c)
  <2>1. s.at = "next"
    BY <1>1 DEF NextVersion, CloneAt
  <2>2. CASE CloneGoes(c, "close")
    BY <2>1, <2>2, <1>g, <1>a, CloneStages
  <2>3. CASE CloneAborts(c)
    BY <2>1, <2>3, <1>x, <1>a, CloneStages
  <2>4. CASE s.todo # <<>> /\ cl' = [cl EXCEPT ![c] = [s EXCEPT
                 !.at = "change", !.name = Head(s.todo), !.todo = Tail(s.todo),
                 !.current = IF s.current = NoFile THEN work[c] ELSE s.current]]
    <3>1. /\ t.at = "change" /\ t.todo = Tail(s.todo) /\ t.flush = s.flush
          /\ t.current # NoFile
      <4> DEFINE current == IF s.current = NoFile THEN work[c] ELSE s.current
      <4>1. current # NoFile
        BY <1>v
      <4>2. t = [s EXCEPT !.at = "change", !.name = Head(s.todo), !.todo = Tail(s.todo),
                          !.current = current]
        BY <2>4, <1>n
      <4> HIDE DEF current
      <4> QED BY <4>1, <4>2, <1>s DEF CloneState
    <3>2. Len(t.todo) = Len(s.todo) - 1
      BY <2>4, <3>1, <1>f
    <3>3. CloneMoves(t)
      BY <2>1, <3>1 DEF CloneMoves
    <3>4. 9 * Len(t.todo) + CloneStage(t.at) < 9 * Len(s.todo) + CloneStage(s.at)
      BY <2>1, <3>1, <3>2, <1>m, CloneStages
    <3> QED BY <3>3, <3>4, LaterStage DEF CloneLeft
  <2> QED BY <1>1, <2>2, <2>3, <2>4 DEF NextVersion
<1>2. CASE ChangeWork(c)
  <2>1. s.at = "change"
    BY <1>2 DEF ChangeWork, CloneAt
  <2>2. CASE CloneGoes(c, "unzip")
    <3>1. CloneMoves(t)
      BY <2>1, <2>2, <1>g DEF CloneMoves
    <3> QED BY <2>1, <2>2, <3>1, <1>g, <1>w, CloneStages
  <2>3. CASE cl' = [cl EXCEPT ![c] = [s EXCEPT !.at = "query", !.current = Source[s.name]]]
    <3>1. /\ t.at = "query" /\ t.todo = s.todo /\ t.flush = s.flush
          /\ t.current = Source[s.name]
      BY <2>3, <1>n, <1>s DEF CloneState
    <3>2. CloneMoves(t)
      BY <2>1, <3>1, <1>v DEF CloneMoves
    <3> QED BY <2>1, <3>1, <3>2, <1>w, CloneStages
  <2> QED BY <1>2, <2>2, <2>3 DEF ChangeWork, ChangeFails
<1>3. CASE Unzip(c)
  <2>1. s.at = "unzip"
    BY <1>3 DEF Unzip, CloneAt
  <2>2. CASE CloneAborts(c)
    BY <2>1, <2>2, <1>x, <1>a, CloneStages
  <2>3. CASE CloneGoes(c, "rescan")
    <3>1. CloneMoves(t)
      BY <2>1, <2>3, <1>g DEF CloneMoves
    <3> QED BY <2>1, <2>3, <3>1, <1>g, <1>w, CloneStages
  <2> QED BY <1>3, <2>2, <2>3 DEF Unzip
<1>4. CASE Rescan(c)
  <2>1. s.at = "rescan"
    BY <1>4 DEF Rescan, CloneAt
  <2>2. CASE CloneAborts(c)
    BY <2>1, <2>2, <1>x, <1>a, CloneStages
  <2>3. CASE cl' = [cl EXCEPT ![c] = [s EXCEPT !.at = "query", !.current = work[c]]]
    <3>1. t.at = "query" /\ t.todo = s.todo /\ t.flush = s.flush /\ t.current = work[c]
      BY <2>3, <1>n, <1>s DEF CloneState
    <3>2. CloneMoves(t)
      BY <2>1, <3>1, <1>v DEF CloneMoves
    <3> QED BY <2>1, <3>1, <3>2, <1>w, CloneStages
  <2> QED BY <1>4, <2>2, <2>3 DEF Rescan
<1>5. CASE FindCloned(c)
  <2>1. s.at = "query"
    BY <1>5 DEF FindCloned, CloneAt
  <2>2. CASE CloneAborts(c)
    BY <2>1, <2>2, <1>x, <1>a, CloneStages
  <2>3. CASE ~CloneAborts(c)
    <3>1. PICK found, made, index :
             cl' = [cl EXCEPT ![c] = [s EXCEPT !.at = "put", !.found = found, !.made = made,
                                               !.put = {}, !.cached = index]]
      BY <1>5, <2>3 DEF FindCloned
    <3>2. t.at = "put" /\ t.todo = s.todo /\ t.flush = s.flush
      BY <3>1, <1>n, <1>s DEF CloneState
    <3>3. CloneMoves(t)
      BY <2>1, <3>2 DEF CloneMoves
    <3> QED BY <2>1, <3>2, <3>3, <1>w, CloneStages
  <2> QED BY <2>2, <2>3
<1>6. ASSUME NEW b \in Block, StoreCloned(c, b)
      PROVE  CloneMoves(t) /\ Below(CloneLeft(t), CloneLeft(s))
  <2>1. s.at = "put" /\ b \in s.made \ s.put
    BY <1>6 DEF StoreCloned, CloneAt
  <2>2. CASE CloneAborts(c)
    BY <2>1, <2>2, <1>x, <1>a, CloneStages
  <2>3. CASE cl' = [cl EXCEPT ![c].put = @ \cup {b}]
    <3>0. cl' = [cl EXCEPT ![c] = [s EXCEPT !.put = s.put \cup {b}]]
      BY <2>3
    <3>1. /\ t.at = s.at /\ t.todo = s.todo /\ t.flush = s.flush /\ t.current = s.current
          /\ t.made = s.made /\ t.put = s.put \cup {b}
      BY <3>0, <1>n, <1>s DEF CloneState
    <3>2. IsFiniteSet(s.made \ s.put)
      BY <1>f, FinitenessAssumption, FS_Subset
    <3>3. t.made \ t.put \subseteq s.made \ s.put /\ t.made \ t.put # s.made \ s.put
      BY <2>1, <3>1
    <3>4. CloneRest(t) < CloneRest(s)
      BY <2>1, <3>1, <3>2, <3>3, Fewer DEF CloneRest
    <3>5. CloneMoves(t)
      BY <2>1, <3>1 DEF CloneMoves
    <3> QED BY <3>1, <3>4, <3>5, SameStage DEF CloneLeft
  <2> QED BY <1>6, <2>2, <2>3 DEF StoreCloned
<1>7. CASE StartFlush(c)
  <2>1. s.at = "put"
    BY <1>7 DEF StartFlush, CloneAt
  <2>2. t.at = "publish" /\ t.todo = s.todo /\ t.flush = "running"
    BY <1>7, <1>n, <1>s DEF StartFlush, CloneState
  <2>3. CloneMoves(t)
    BY <2>2 DEF CloneMoves
  <2> QED BY <2>1, <2>2, <2>3, <1>w, CloneStages
<1>8. CASE EndFlush(c)
  <2>1. s.flush = "running" /\ s.at # "put"
    BY <1>8 DEF EndFlush, CloneMoves
  <2>2. /\ t.at = s.at /\ t.todo = s.todo /\ t.current = s.current
        /\ t.flush \in {"ok", "error"}
    <3>1. CASE \E late, index :
                  cl' = [cl EXCEPT ![c] = [s EXCEPT !.flush = "ok", !.put = {},
                                                    !.late = late, !.cached = index]]
      <4>1. PICK late, index :
               t = [s EXCEPT !.flush = "ok", !.put = {}, !.late = late, !.cached = index]
        BY <3>1, <1>n
      <4> QED BY <4>1, <1>s DEF CloneState
    <3>2. CASE cl' = [cl EXCEPT ![c].flush = "error"]
      <4>1. cl' = [cl EXCEPT ![c] = [s EXCEPT !.flush = "error"]]
        BY <3>2
      <4> QED BY <4>1, <1>n, <1>s DEF CloneState
    <3> QED BY <1>8, <3>1, <3>2 DEF EndFlush
  <2>3. CloneMoves(t)
    BY <2>1, <2>2 DEF CloneMoves
  <2>4. CloneRest(t) = 0 /\ CloneRest(s) = 1
    BY <2>1, <2>2 DEF CloneRest
  <2> QED BY <2>2, <2>3, <2>4, SameStage DEF CloneLeft
<1>9. CASE WriteCloned(c)
  <2>1. s.at = "publish"
    BY <1>9 DEF WriteCloned, CloneAt
  <2>2. CASE CloneAborts(c)
    BY <2>1, <2>2, <1>x, <1>a, CloneStages
  <2>3. ASSUME NEW at \in {"local", "wait"}, CloneGoes(c, at)
        PROVE  CloneMoves(t) /\ Below(CloneLeft(t), CloneLeft(s))
    <3>1. CloneMoves(t)
      BY <2>1, <2>3, <1>g DEF CloneMoves
    <3> QED BY <2>1, <2>3, <3>1, <1>g, <1>w, CloneStages
  <2> QED BY <1>9, <2>2, <2>3 DEF WriteCloned
<1>10. CASE WriteClonedIndex(c)
  <2>1. s.at = "local"
    BY <1>10 DEF WriteClonedIndex, CloneAt
  <2>2. CASE CloneAborts(c)
    BY <2>1, <2>2, <1>x, <1>a, CloneStages
  <2>3. CASE CloneGoes(c, "wait")
    <3>1. CloneMoves(t)
      BY <2>1, <2>3, <1>g DEF CloneMoves
    <3> QED BY <2>1, <2>3, <3>1, <1>g, <1>w, CloneStages
  <2> QED BY <1>10, <2>2, <2>3 DEF WriteClonedIndex
<1>11. CASE WaitFlush(c)
  <2>1. s.at = "wait"
    BY <1>11 DEF WaitFlush, CloneAt
  <2>2. CASE CloneAborts(c)
    BY <2>1, <2>2, <1>x, <1>a, CloneStages
  <2>3. CASE cl' = [cl EXCEPT ![c] = [s EXCEPT !.at = "next", !.flush = "none"]]
    <3>1. t.at = "next" /\ t.todo = s.todo /\ t.flush = "none"
      BY <2>3, <1>n, <1>s DEF CloneState
    <3>2. CloneMoves(t)
      BY <3>1 DEF CloneMoves
    <3> QED BY <2>1, <3>1, <3>2, <1>w, CloneStages
  <2> QED BY <1>11, <2>2, <2>3 DEF WaitFlush
<1>12. CASE CloseClone(c)
  <2>1. s.at = "close"
    BY <1>12 DEF CloseClone, CloneAt
  <2>2. t.at \in CloneResting /\ t.todo = <<>>
    BY <1>12, <1>e DEF CloseClone, CloneResting
  <2>3. CloneMoves(t)
    BY <2>2 DEF CloneMoves, CloneResting
  <2>4. 9 * Len(t.todo) + CloneStage(t.at) < 9 * Len(s.todo) + CloneStage(s.at)
    <3>1. Len(t.todo) = 0 /\ CloneStage(t.at) = 0 /\ CloneStage(s.at) = 1
      BY <2>1, <2>2, CloneStages
    <3> QED BY <3>1, <1>m
  <2> QED BY <2>3, <2>4, LaterStage DEF CloneLeft
<1> QED BY <1>1, <1>2, <1>3, <1>4, <1>5, <1>6, <1>7, <1>8, <1>9, <1>10, <1>11, <1>12
        DEF CloneProgress

-----------------------------------------------------------------------------
(* Syncs                                                                   *)

LEMMA SyncStages ==
    /\ \A at \in SyncResting : SyncStage(at) = 0
    /\ SyncStage("cache") = 1 /\ SyncStage("check") = 2 /\ SyncStage("change") = 3
    /\ SyncStage("clean") = 4 /\ SyncStage("query") = 5 /\ SyncStage("target") = 6
    /\ SyncStage("source") = 7 /\ SyncStage("config") = 8
BY DEF SyncStage, SyncResting

(* A sync that runs has a step to take: of the carriers of an asset, one   *)
(* is stored and can be fetched, or one is not and is missed.              *)
LEMMA SyncGoesOn ==
    ASSUME StoreTypeOK, FolderTypeOK, SyncPlanned, NEW f \in Folder,
           sy[f].at \notin SyncResting
    PROVE  SyncHasStep(f)
<1> DEFINE s == sy[f]
<1>1. s \in SyncState
  BY DEF FolderTypeOK
<1>2. s.at \in SyncPhase /\ s.ask \in Sync
  BY <1>1, SyncFields
<1>3. CASE s.at \in {"config", "target", "clean", "check", "cache"}
  BY <1>3 DEF SyncHasStep
<1>4. CASE s.at = "source"
  BY <1>4 DEF SyncHasStep, SyncAt, SyncPlanned
<1>5. CASE s.at = "query"
  <2> DEFINE locals == {localIndex[n] : n \in NamesOf(f)}
             index == IF s.ask.local /\ NoFile \notin locals THEN UNION locals ELSE indexed
  <2>1. \A n \in NamesOf(f) : localIndex[n] \in {NoFile} \cup SUBSET Block
    <3>1. NamesOf(f) \subseteq Name
      BY <1>2, RequestFields DEF NamesOf
    <3> QED BY <3>1 DEF StoreTypeOK, FilesTypeOK
  <2>2. index \in SUBSET Block
    <3>1. CASE NoFile \notin locals
      BY <2>1, <3>1 DEF StoreTypeOK, FilesTypeOK
    <3>2. CASE NoFile \in locals
      BY <3>2 DEF StoreTypeOK, FilesTypeOK
    <3> QED BY <3>1, <3>2
  <2>3. Existing(index, Required(f)) # {}
    <3> HIDE DEF index
    <3> QED BY <2>2, AnswerExists
  <2> QED BY <1>5, <2>3 DEF SyncHasStep, SyncAt
<1>6. CASE s.at = "change"
  <2>1. \A a : CanFetch(f, a) \/ CanMiss(f, a)
    BY DEF CanFetch, CanMiss
  <2> QED BY <1>6, <2>1 DEF SyncHasStep, SyncAt
<1> QED BY <1>2, <1>3, <1>4, <1>5, <1>6 DEF SyncPhase

(* Each step of a sync leaves it less to do.                               *)
LEMMA SyncMoved ==
    ASSUME StoreTypeOK, FolderTypeOK, SyncPlanned, NEW f \in Folder, SyncProgress(f)
    PROVE  Below(SyncLeft(sy'[f]), SyncLeft(sy[f]))
<1> DEFINE s == sy[f]
           t == sy'[f]
<1>s. s \in SyncState
  BY DEF FolderTypeOK
<1>f. s.at \in SyncPhase /\ s.todo \in Seq(Name) /\ s.ask \in Sync /\ s.left \in SUBSET Asset
      /\ s.seen \in BOOLEAN
  BY <1>s, SyncFields
<1>t. t \in SyncState
  BY FolderTypes DEF FolderStep, FolderTypeOK
<1>n. ASSUME NEW x, sy' = [sy EXCEPT ![f] = x] PROVE t = x
  BY <1>n DEF FolderTypeOK
<1>l. /\ IsFiniteSet(s.left) /\ Cardinality(s.left) \in Nat
      /\ IsFiniteSet(t.left) /\ Cardinality(t.left) \in Nat
  <2>1. s.left \subseteq Asset /\ t.left \subseteq Asset
    BY <1>s, <1>t, SyncFields
  <2>2. IsFiniteSet(s.left) /\ IsFiniteSet(t.left)
    BY <2>1, FinitenessAssumption, FS_Subset
  <2> QED BY <2>2, FS_CardinalityType
<1>g. ASSUME NEW at, SyncGoes(f, at) PROVE t.at = at
  <2>1. sy' = [sy EXCEPT ![f] = [s EXCEPT !.at = at]]
    BY <1>g DEF SyncGoes
  <2>2. t = [s EXCEPT !.at = at]
    BY <2>1, <1>n
  <2> QED BY <2>2, <1>s DEF SyncState
<1>e. ASSUME NEW at \in SyncResting, SyncEnds(f, at), SyncStage(s.at) > 0
      PROVE  Below(SyncLeft(t), SyncLeft(s))
  <2>1. SyncStage(t.at) = 0
    BY <1>e, <1>g, SyncStages DEF SyncEnds
  <2> QED BY <2>1, <1>e, LaterStage DEF SyncLeft
<1>r. "done" \in SyncResting /\ "failed" \in SyncResting /\ "missing" \in SyncResting
  BY DEF SyncResting
<1>w. SyncStage(t.at) < SyncStage(s.at) => Below(SyncLeft(t), SyncLeft(s))
  BY LaterStage DEF SyncLeft
<1> SUFFICES Below(SyncLeft(t), SyncLeft(s))
  OBVIOUS
<1> HIDE DEF t
<1>1. CASE ReadConfig(f)
  <2>1. s.at = "config"
    BY <1>1 DEF ReadConfig, SyncAt
  <2>2. CASE SyncGoes(f, "source")
    BY <2>1, <2>2, <1>g, <1>w, SyncStages
  <2>3. CASE SyncEnds(f, "failed")
    BY <2>1, <2>3, <1>e, <1>r, SyncStages
  <2> QED BY <1>1, <2>2, <2>3 DEF ReadConfig
<1>2. CASE ReadSource(f)
  <2>1. s.at = "source" /\ s.todo # <<>>
    BY <1>2 DEF ReadSource, SyncAt, SyncPlanned
  <2>2. CASE SyncEnds(f, "failed")
    BY <2>1, <2>2, <1>e, <1>r, SyncStages
  <2>3. CASE ~SyncEnds(f, "failed")
    <3> DEFINE misses == s.excused \/ standing[Head(s.todo)] # "good"
               at == IF Tail(s.todo) = <<>> THEN "target" ELSE "source"
               source == Merge(s.source, versionFile[Head(s.todo)])
    <3>1. sy' = [sy EXCEPT ![f] = [s EXCEPT !.source = source, !.todo = Tail(s.todo),
                                            !.excused = misses, !.at = at]]
      BY <1>2, <2>3 DEF ReadSource
    <3>2. t.at = at /\ t.todo = Tail(s.todo)
      <4> HIDE DEF misses, at, source
      <4> QED BY <3>1, <1>n, <1>s DEF SyncState
    <3>3. at \in {"target", "source"}
      OBVIOUS
    <3> HIDE DEF misses, at, source
    <3>4. CASE at = "target"
      BY <2>1, <3>2, <3>4, <1>w, SyncStages
    <3>5. CASE at = "source"
      <4>1. Len(t.todo) < Len(s.todo)
        BY <2>1, <3>2, <1>f
      <4> QED BY <2>1, <3>2, <3>5, <4>1, SameStage DEF SyncLeft, SyncRest
    <3> QED BY <3>4, <3>5, <3>3
  <2> QED BY <2>2, <2>3
<1>3. CASE ReadTarget(f)
  <2>1. s.at = "target"
    BY <1>3 DEF ReadTarget, SyncAt
  <2>2. CASE SyncEnds(f, "failed")
    BY <2>1, <2>2, <1>e, <1>r, SyncStages
  <2>3. ASSUME NEW index, NEW misled, NEW seen, TargetIs(f, index, misled, seen)
        PROVE  Below(SyncLeft(t), SyncLeft(s))
    <3>1. t.at = "query"
      BY <2>3, <1>n, <1>s DEF TargetIs, SyncState
    <3> QED BY <2>1, <3>1, <1>w, SyncStages
  <2> QED BY <1>3, <2>2, <2>3, TargetRead
<1>4. CASE QueryContent(f)
  <2>1. s.at = "query"
    BY <1>4 DEF QueryContent, SyncAt
  <2>2. CASE SyncEnds(f, "failed")
    BY <2>1, <2>2, <1>e, <1>r, SyncStages
  <2>3. CASE ~SyncEnds(f, "failed")
    <3> DEFINE locals == {localIndex[n] : n \in NamesOf(f)}
               useLocal == s.ask.local /\ NoFile \notin locals
               excused(plan) == s.excused \/ (useLocal /\ ~(/\ plan \subseteq indexed
                                                          /\ Required(f) \subseteq Content(plan)))
    <3>1. t.at = "clean"
      <4>1. CASE SyncGoes(f, "clean")
        BY <4>1, <1>g
      <4>2. ASSUME NEW plan, sy' = [sy EXCEPT ![f] = [s EXCEPT !.at = "clean", !.plan = plan,
                                                               !.excused = excused(plan)]]
            PROVE  t.at = "clean"
        <5> HIDE DEF excused
        <5> QED BY <4>2, <1>n, <1>s DEF SyncState
      <4> QED BY <1>4, <2>3, <4>1, <4>2 DEF QueryContent
    <3> QED BY <2>1, <3>1, <1>w, SyncStages
  <2> QED BY <2>2, <2>3
<1>5. CASE DeleteCache(f)
  <2>1. s.at = "clean"
    BY <1>5 DEF DeleteCache, SyncAt
  <2>2. CASE SyncEnds(f, "failed")
    BY <2>1, <2>2, <1>e, <1>r, SyncStages
  <2>3. CASE ~SyncEnds(f, "failed")
    <3>1. t.at = "change"
      BY <1>5, <2>3, <1>n, <1>s DEF DeleteCache, SyncState
    <3> QED BY <2>1, <3>1, <1>w, SyncStages
  <2> QED BY <2>2, <2>3
<1>6. ASSUME NEW a \in Asset, ChangeAsset(f, a) PROVE Below(SyncLeft(t), SyncLeft(s))
  <2>1. s.at = "change" /\ a \in s.left
    BY <1>6 DEF ChangeAsset, SyncAt
  <2>2. CASE \E at \in {"missing", "failed"} : SyncEnds(f, at)
    BY <2>1, <2>2, <1>e, <1>r, SyncStages
  <2>3. CASE sy' = [sy EXCEPT ![f].left = @ \ {a}]
    <3>1. sy' = [sy EXCEPT ![f] = [s EXCEPT !.left = s.left \ {a}]]
      BY <2>3
    <3>2. t.at = "change" /\ t.seen = s.seen /\ t.left = s.left \ {a}
      BY <2>1, <3>1, <1>n, <1>s DEF SyncState
    <3>3. Cardinality(t.left) < Cardinality(s.left)
      BY <2>1, <3>2, <1>l, Fewer
    <3>4. SyncRest(t) < SyncRest(s)
      BY <2>1, <3>2, <3>3, <1>l DEF SyncRest
    <3> QED BY <2>1, <3>2, <3>4, SameStage DEF SyncLeft
  <2> QED BY <1>6, <2>2, <2>3 DEF ChangeAsset
<1>7. CASE RemoveSeen(f)
  <2>1. s.at = "change" /\ s.seen
    BY <1>7 DEF RemoveSeen, SyncAt
  <2>2. sy' = [sy EXCEPT ![f] = [s EXCEPT !.seen = FALSE]]
    BY <1>7 DEF RemoveSeen
  <2>3. t.at = "change" /\ ~t.seen /\ t.left = s.left
    BY <2>1, <2>2, <1>n, <1>s DEF SyncState
  <2>4. SyncRest(t) < SyncRest(s)
    BY <2>1, <2>3, <1>l DEF SyncRest
  <2> QED BY <2>1, <2>3, <2>4, SameStage DEF SyncLeft
<1>8. CASE EndChange(f)
  <2>1. s.at = "change"
    BY <1>8 DEF EndChange, SyncAt
  <2>2. t.at \in {"check", "cache"}
    BY <1>8, <1>g DEF EndChange
  <2> QED BY <2>1, <2>2, <1>w, SyncStages
<1>9. CASE ValidateTarget(f)
  <2>1. s.at = "check"
    BY <1>9 DEF ValidateTarget, SyncAt
  <2>2. CASE SyncGoes(f, "cache")
    BY <2>1, <2>2, <1>g, <1>w, SyncStages
  <2>3. CASE SyncEnds(f, "failed")
    BY <2>1, <2>3, <1>e, <1>r, SyncStages
  <2> QED BY <1>9, <2>2, <2>3 DEF ValidateTarget
<1>10. CASE WriteCache(f)
  <2>1. s.at = "cache"
    BY <1>10 DEF WriteCache, SyncAt
  <2>2. \E at \in {"done", "failed"} : SyncEnds(f, at)
    BY <1>10 DEF WriteCache
  <2> QED BY <2>1, <2>2, <1>e, <1>r, SyncStages
<1> QED BY <1>1, <1>2, <1>3, <1>4, <1>5, <1>6, <1>7, <1>8, <1>9, <1>10 DEF SyncProgress

-----------------------------------------------------------------------------
(* All of them                                                             *)

MovesInv ==
    /\ \A u \in Uploader : UploadMoves(up[u])
    /\ \A p \in Pruner : PruneMoves(pr[p])
    /\ \A c \in Cloner : CloneMoves(cl[c])

LEMMA MovesInit == Init => MovesInv
<1> SUFFICES ASSUME Init PROVE MovesInv
  OBVIOUS
<1>1. up = [u \in Uploader |-> IdleUpload] /\ pr = [p \in Pruner |-> IdlePrune]
      /\ cl = [c \in Cloner |-> IdleClone]
  BY DEF Init, UploadInit, PruneInit, CloneInit
<1>2. UploadMoves(IdleUpload) /\ PruneMoves(IdlePrune) /\ CloneMoves(IdleClone)
  BY DEF UploadMoves, IdleUpload, PruneMoves, IdlePrune, CloneMoves, IdleClone
<1> QED BY <1>1, <1>2 DEF MovesInv

(* A step of one command changes its own record only.                      *)
LEMMA OthersStay ==
    ASSUME TypesInv
    PROVE  /\ \A u \in Uploader : UploadStep(u) => \A x \in Uploader \ {u} : up'[x] = up[x]
           /\ \A p \in Pruner : PruneStep(p) => \A x \in Pruner \ {p} : pr'[x] = pr[x]
           /\ \A c \in Cloner : CloneStep(c) => \A x \in Cloner \ {c} : cl'[x] = cl[x]
<1> USE DEF TypesInv
<1>1. ASSUME NEW u \in Uploader, UploadStep(u) PROVE \E t : up' = [up EXCEPT ![u] = t]
  BY <1>1 DEF UploadStep, UploadProgress, StartUpload, ReadVersion, FindExisting, StoreBlock,
     FlushUpload, WriteVersion, WriteLocalIndex, ListBlocks, ReadBlock, AddRebuilt, CloseUpload,
     WriteConfig, CrashUpload, Abort, Goes, UploadEnds, FlushFails
<1>2. ASSUME NEW p \in Pruner, PruneStep(p) PROVE \E t : pr' = [pr EXCEPT ![p] = t]
  BY <1>2 DEF PruneStep, PruneProgress, StartPrune, ReadPrunedIndex, TakeWhenFull,
     LaunchPruneOne, TakeReady, NoneReady, TakeLast, EndGather, PruneOneByLocalIndex,
     PruneOneByStore, PruneOneFails, PruneIndex, EndPrune, WritePrunedIndex, ReadIndexFile,
     ListBlockFiles, JoinIndexAndBlocks, EndDelete, DeletePruned, DeleteUnused, CrashPrune,
     PruneGoes, PruneEnds
<1>3. ASSUME NEW c \in Cloner, CloneStep(c) PROVE \E t : cl' = [cl EXCEPT ![c] = t]
  BY <1>3 DEF CloneStep, CloneProgress, StartClone, NextVersion, ChangeWork, Unzip, Rescan,
     FindCloned, StoreCloned, StartFlush, EndFlush, WriteCloned, WriteClonedIndex, WaitFlush,
     CloseClone, CrashClone, CloneGoes, CloneAborts, CloneEnds, ChangeFails
<1> QED BY <1>1, <1>2, <1>3 DEF UploadTypeOK, PruneInv, CloneTypeOK

LEMMA MovesNext == TypesInv /\ MovesInv /\ [Next]_vars => MovesInv'
<1> SUFFICES ASSUME TypesInv, MovesInv, [Next]_vars PROVE MovesInv'
  OBVIOUS
<1>1. StoreTypeOK /\ UploadTypeOK /\ PruneInv /\ CloneTypeOK
  BY DEF TypesInv
<1>2. UNCHANGED up => \A u \in Uploader : UploadMoves(up'[u])
  BY DEF MovesInv
<1>3. UNCHANGED pr => \A p \in Pruner : PruneMoves(pr'[p])
  BY DEF MovesInv
<1>4. UNCHANGED cl => \A c \in Cloner : CloneMoves(cl'[c])
  BY DEF MovesInv
<1>5. CASE Uploads
  <2>1. PICK u \in Uploader : UploadStep(u)
    BY <1>5 DEF Uploads
  <2>2. UploadMoves(up'[u])
    BY <2>1, <1>1, UploadMoved, UploadBegun DEF UploadStep, MovesInv
  <2>3. \A x \in Uploader : UploadMoves(up'[x])
    BY <2>1, <2>2, OthersStay DEF MovesInv
  <2> QED BY <1>5, <2>3, <1>3, <1>4 DEF Uploads, MovesInv, cloneVars
<1>6. CASE Prunes
  <2>1. PICK p \in Pruner : PruneStep(p)
    BY <1>6 DEF Prunes
  <2>2. PruneMoves(pr'[p])
    BY <2>1, <1>1, PruneMoved, PruneBegun DEF PruneStep, MovesInv
  <2>3. \A x \in Pruner : PruneMoves(pr'[x])
    BY <2>1, <2>2, OthersStay DEF MovesInv
  <2> QED BY <1>6, <2>3, <1>2, <1>4 DEF Prunes, MovesInv, cloneVars
<1>7. CASE Clones
  <2>1. PICK c \in Cloner : CloneStep(c)
    BY <1>7 DEF Clones
  <2>2. CloneMoves(cl'[c])
    BY <2>1, <1>1, CloneMoved, CloneBegun DEF CloneStep, MovesInv
  <2>3. \A x \in Cloner : CloneMoves(cl'[x])
    BY <2>1, <2>2, OthersStay DEF MovesInv
  <2> QED BY <1>7, <2>3, <1>2, <1>3 DEF Clones, MovesInv
<1>8. CASE Syncs \/ UNCHANGED vars
  BY <1>8, <1>2, <1>3, <1>4 DEF Syncs, vars, MovesInv, cloneVars
<1> QED BY <1>5, <1>6, <1>7, <1>8 DEF Next

LEMMA MovesAlways == Spec => [](TypesInv /\ MovesInv)
<1>1. Init => TypesInv /\ MovesInv
  BY TypesInit, MovesInit
<1>2. TypesInv /\ MovesInv /\ [Next]_vars => (TypesInv /\ MovesInv)'
  BY TypesNext, MovesNext
<1> QED BY <1>1, <1>2, PTL DEF Spec

-----------------------------------------------------------------------------
(* What is left is a pair of natural numbers, and Below well-founded       *)

Pairs == Nat \X Nat

LeftArePairs ==
    /\ \A u \in Uploader : UploadLeft(up[u]) \in Pairs
    /\ \A p \in Pruner : PruneLeft(pr[p]) \in Pairs
    /\ \A c \in Cloner : CloneLeft(cl[c]) \in Pairs
    /\ \A f \in Folder : SyncLeft(sy[f]) \in Pairs

LEMMA LeftType == TypesInv => LeftArePairs
<1> SUFFICES ASSUME TypesInv PROVE LeftArePairs
  OBVIOUS
<1>f. \A S \in SUBSET Block : Cardinality(S) \in Nat
  BY FinitenessAssumption, FS_Subset, FS_CardinalityType
<1>1. ASSUME NEW u \in Uploader PROVE UploadLeft(up[u]) \in Pairs
  <2>1. up[u] \in UploadState
    BY DEF TypesInv, UploadTypeOK
  <2>2. UploadStage(up[u].at) \in Nat
    BY <2>1, UploadFields, UploadStages DEF UploadPhase
  <2>3. UploadRest(up[u]) \in Nat
    <3>1. (up[u].made \ up[u].put) \in SUBSET Block /\ (up[u].found \ up[u].made) \in SUBSET Block
      BY <2>1, UploadFields
    <3> QED BY <1>f, <3>1 DEF UploadRest
  <2> QED BY <2>2, <2>3 DEF UploadLeft, Pairs
<1>2. ASSUME NEW p \in Pruner PROVE PruneLeft(pr[p]) \in Pairs
  <2>1. PruneOK(pr[p]) /\ pr[p] \in PruneState
    BY DEF TypesInv, PruneInv, PruneOK
  <2>2. PruneStage(pr[p].at) \in Nat
    BY <2>1, PruneFields, PruneStages DEF PrunePhase
  <2>3. PruneRest(pr[p]) \in Nat
    <3>1. /\ Cardinality(pr[p].jobs) \in Nat /\ Cardinality(pr[p].results) \in Nat
          /\ Len(pr[p].todo) \in Nat
      BY <2>1, PruneRests
    <3>2. Gathering(pr[p]) \in Nat
      BY <3>1 DEF Gathering
    <3>3. Scanning(pr[p]) \in Nat
      BY DEF Scanning
    <3>4. Cardinality(pr[p].doomed) \in Nat
      BY <1>f, <2>1, PruneFields
    <3> QED BY <3>2, <3>3, <3>4 DEF PruneRest
  <2> QED BY <2>2, <2>3 DEF PruneLeft, Pairs
<1>3. ASSUME NEW c \in Cloner PROVE CloneLeft(cl[c]) \in Pairs
  <2>1. cl[c] \in CloneState
    BY DEF TypesInv, CloneTypeOK
  <2>2. CloneStage(cl[c].at) \in Nat /\ Len(cl[c].todo) \in Nat
    BY <2>1, CloneFields, CloneStageNat
  <2>3. CloneRest(cl[c]) \in Nat
    <3>1. (cl[c].made \ cl[c].put) \in SUBSET Block
      BY <2>1, CloneFields
    <3> QED BY <1>f, <3>1 DEF CloneRest
  <2>4. 9 * Len(cl[c].todo) + CloneStage(cl[c].at) \in Nat
    BY <2>2
  <2> QED BY <2>3, <2>4 DEF CloneLeft, Pairs
<1>4. ASSUME NEW f \in Folder PROVE SyncLeft(sy[f]) \in Pairs
  <2>1. sy[f] \in SyncState
    BY DEF TypesInv, FolderTypeOK
  <2>2. SyncStage(sy[f].at) \in Nat
    BY <2>1, SyncFields, SyncStages DEF SyncPhase
  <2>3. SyncRest(sy[f]) \in Nat
    <3>1. IsFiniteSet(sy[f].left)
      BY <2>1, SyncFields, FinitenessAssumption, FS_Subset
    <3>2. Cardinality(sy[f].left) \in Nat /\ Len(sy[f].todo) \in Nat
      BY <2>1, <3>1, SyncFields, FS_CardinalityType
    <3> QED BY <3>2 DEF SyncRest
  <2> QED BY <2>2, <2>3 DEF SyncLeft, Pairs
<1> QED BY <1>1, <1>2, <1>3, <1>4 DEF LeftArePairs

(* What a command has left to do is always such a pair.                    *)
THEOREM LeftIsCounted == Spec => []LeftArePairs
BY MovesAlways, LeftType, PTL

(* There is no endless descent in what is left to do, so that a command    *)
(* takes a finite number of steps, as NobodyCircles lets none but go down. *)
THEOREM NoEndlessDescent ==
    IsWellFoundedOn({d \in Pairs \X Pairs : Below(d[1], d[2])}, Pairs)
<1> DEFINE Less == OpToRel(<, Nat)
           Lex == LexPairOrdering(Less, Less, Nat, Nat)
<1>1. IsWellFoundedOn(Less, Nat)
  BY NatLessThanWellFounded, Zenon
<1>2. \A x, y \in Nat : <<x, y>> \in Less <=> x < y
  BY Zenon DEF OpToRel
<1> HIDE DEF Less
<1>3. IsWellFoundedOn(Lex, Nat \X Nat)
  BY <1>1, WFLexPairOrdering
<1>4. \A d \in Pairs \X Pairs : d \in Lex <=> Below(d[1], d[2])
  <2> SUFFICES ASSUME NEW d \in Pairs \X Pairs PROVE d \in Lex <=> Below(d[1], d[2])
    OBVIOUS
  <2>1. d[1][1] \in Nat /\ d[1][2] \in Nat /\ d[2][1] \in Nat /\ d[2][2] \in Nat
    BY DEF Pairs
  <2> QED BY <2>1, <1>2 DEF LexPairOrdering, Below, Pairs
<1>5. Lex \subseteq Pairs \X Pairs
  BY DEF LexPairOrdering, Pairs
<1> HIDE DEF Lex
<1>6. {d \in Pairs \X Pairs : Below(d[1], d[2])} = Lex
  BY <1>4, <1>5
<1> QED BY <1>3, <1>6 DEF Pairs

(* A command that runs always has a step to take: it is never stuck, for   *)
(* any number of goroutines in the gather loops, any requests and however  *)
(* the commands interleave.                                                *)
THEOREM NobodyStuck == Spec => []EveryoneHasAStep
<1>1. TypesInv /\ MovesInv => EveryoneHasAStep
  BY UploadGoesOn, PruneGoesOn, CloneGoesOn, SyncGoesOn DEF TypesInv, MovesInv, EveryoneHasAStep
<1> QED BY <1>1, MovesAlways, PTL

(* Every step of a command leaves it less to do, whatever fails and        *)
(* whatever the other commands did.  With NobodyStuck: a command whose     *)
(* steps are scheduled comes to its end.                                   *)
THEOREM NobodyCircles == Spec => NobodyGoesRound
<1> DEFINE A == /\ \A u \in Uploader : UploadProgress(u) => Below(UploadLeft(up'[u]), UploadLeft(up[u]))
                /\ \A p \in Pruner : PruneProgress(p) => Below(PruneLeft(pr'[p]), PruneLeft(pr[p]))
                /\ \A c \in Cloner : CloneProgress(c) => Below(CloneLeft(cl'[c]), CloneLeft(cl[c]))
                /\ \A f \in Folder : SyncProgress(f) => Below(SyncLeft(sy'[f]), SyncLeft(sy[f]))
<1>1. TypesInv /\ MovesInv => A
  BY UploadMoved, PruneMoved, CloneMoved, SyncMoved DEF TypesInv, MovesInv
<1>2. NobodyGoesRound <=> [][A]_vars
  BY DEF NobodyGoesRound
<1> HIDE DEF A
<1> QED BY <1>1, <1>2, MovesAlways, PTL

===============================================================================
