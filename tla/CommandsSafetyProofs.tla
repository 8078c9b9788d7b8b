-------------------------- MODULE CommandsSafetyProofs --------------------------
(***************************************************************************)
(* Proofs about the store that the commands share, for any number of       *)
(* processes, versions and blocks: its index lists stored blocks only, and *)
(* a version file that is there can be restored.  Both hold as long as no  *)
(* prune ran beside an upload or another prune, and need to know, of each  *)
(* command at work, why what it is about to do is right.                   *)
(***************************************************************************)
EXTENDS CommandsProofs

-----------------------------------------------------------------------------
(* Who runs, and in which role.  As long as nothing overlapped, a prune    *)
(* that runs is the only one that writes.                                  *)

RoleOf(u) == IF up[u].kind = "index" THEN "read" ELSE "write"

Alone == \A a, b \in running : a[2] = "prune" /\ b[2] # "read" => a = b

Roles ==
    /\ \A u \in Uploader : up[u].at \notin Resting => <<u, RoleOf(u)>> \in running
    /\ \A c \in Cloner : cl[c].at \notin CloneResting => <<c, "write">> \in running
    /\ \A p \in Pruner : pr[p].at \notin PruneResting => <<p, "prune">> \in running
    /\ ~overlapped => Alone

(* What an upload relies on: the blocks that it announced are stored, and  *)
(* what its version needs is in the blocks it found and in those it makes. *)
UploadSafe(u) ==
    /\ up[u].put \subseteq stored
    /\ up[u].at \in Resting \/ up[u].kind = "index" => up[u].put = {}
    /\ up[u].at \in {"list", "rebuild", "put", "publish"} => up[u].kind # "index"
    /\ up[u].at = "put" =>
          /\ up[u].found \subseteq indexed
          /\ Needed(up[u].version) \subseteq Content(up[u].found) \cup Content(up[u].made)
    /\ up[u].at = "publish" => Needed(up[u].version) \subseteq Content(indexed \cup up[u].put)

(* The same for a clone, whose flush runs while it goes on, and may have   *)
(* overtaken what the next one adds.                                       *)
CloneSafe(c) ==
    /\ cl[c].put \subseteq stored /\ cl[c].late \subseteq stored
    /\ cl[c].at \in CloneResting => cl[c].put = {} /\ cl[c].late = {} /\ cl[c].cached = NoFile
    /\ cl[c].cached # NoFile => cl[c].cached \subseteq indexed
    /\ cl[c].at \in CloneResting \cup {"next", "change", "unzip", "rescan", "query", "put"}
          => cl[c].flush = "none"
    /\ cl[c].at = "put" \/ cl[c].flush = "running" =>
          /\ cl[c].found \subseteq indexed \cup cl[c].late
          /\ Needed(cl[c].current) \subseteq Content(cl[c].found) \cup Content(cl[c].made)
    /\ cl[c].flush = "running" => cl[c].made \subseteq cl[c].put
    /\ cl[c].flush = "ok" => Needed(cl[c].current) \subseteq Content(indexed \cup cl[c].late)

(* What a prune relies on: the index it read is still the index, what it   *)
(* deletes is not in it, and each version in its list is still to be       *)
(* looked at, has a result under way, or is kept by the blocks in use.     *)
ListOf(s) == {s.ask.list[i] : i \in 1 .. Len(s.ask.list)}
ToDo(s) == {s.todo[i] : i \in 1 .. Len(s.todo)}

Kept(n, blocks) ==
    versionFile[n] # NoFile /\ standing[n] = "good"
        => Needed(versionFile[n]) \subseteq Content(blocks \cap indexed)

Gathered(s, n) == n \in s.dropped \/ n \in s.stale \/ Kept(n, s.used)

PruneSafe(s) ==
    /\ s.at \notin PruneResting \cup {"delete"} /\ s.index # NoFile => s.index = indexed
    /\ s.ask.kind = "index" => s.at \in PruneResting \cup {"index"} \/ s.index # NoFile
    /\ s.at = "delete" => s.doomed \cap indexed = {}
    /\ s.at # "delete" => s.doomed = {}
    /\ s.at \notin {"next", "drain", "final"} => s.jobs = {} /\ s.results = {}
    /\ \A r \in s.results : r.ok => r.name \in s.stale \/ Kept(r.name, r.blocks)
    /\ s.at \in {"index", "next", "drain", "final"} =>
          \A n \in ListOf(s) :
              \/ s.err \/ n \in ToDo(s) \/ n \in s.jobs \/ (\E r \in s.results : r.name = n)
              \/ Gathered(s, n)
    /\ s.at = "final" => s.err \/ s.todo = <<>>
    /\ s.at = "prune" => \A n \in ListOf(s) : Gathered(s, n)

Published(n) == Kept(n, indexed)

Safe ==
    /\ indexed \subseteq stored
    /\ \A u \in Uploader : UploadSafe(u)
    /\ \A c \in Cloner : CloneSafe(c)
    /\ \A p \in Pruner : PruneSafe(pr[p])
    /\ \A n \in Name : Published(n)

SafeInv == Roles /\ (~overlapped => Safe)

-----------------------------------------------------------------------------
(* Content and roles                                                       *)

LEMMA ContentGrows ==
    /\ \A a, b : a \subseteq b => Content(a) \subseteq Content(b)
    /\ \A a, b : Content(a \cup b) = Content(a) \cup Content(b)
BY DEF Content

LEMMA RolesBegin ==
    ASSUME RunTypeOK, ~overlapped => Alone, NEW x, NEW role \in Role, Begin(x, role)
    PROVE  /\ running \subseteq running' /\ <<x, role>> \in running'
           /\ ~overlapped' => ~overlapped /\ Alone'
<1>1. running' = running \cup {<<x, role>>}
  BY DEF Begin
<1>2. ASSUME ~overlapped' PROVE ~overlapped /\ Alone'
  <2>1. ~overlapped /\ ~Clash(role, RolesOf(running)) /\ overlapped \in BOOLEAN
    BY <1>2 DEF Begin, RunTypeOK
  <2>2. \A r \in running : r[2] \in RolesOf(running) /\ r[2] \in Role
    BY DEF RunTypeOK, RolesOf
  <2>3. Alone
    BY <2>1
  <2>4. <<x, role>>[2] = role
    OBVIOUS
  <2> SUFFICES ASSUME NEW a \in running', NEW b \in running', a[2] = "prune", b[2] # "read"
               PROVE  a = b
    BY <2>1 DEF Alone
  <2>5. CASE a \in running /\ b \in running
    BY <2>3, <2>5 DEF Alone
  <2>6. CASE a \in running /\ b = <<x, role>>
    BY <2>1, <2>2, <2>4, <2>6 DEF Clash, Role
  <2>7. CASE b \in running /\ a = <<x, role>>
    BY <2>1, <2>2, <2>4, <2>7 DEF Clash, Role
  <2> QED BY <1>1, <2>5, <2>6, <2>7
<1> QED BY <1>1, <1>2

LEMMA RolesEnd ==
    ASSUME ~overlapped => Alone, NEW x, End(x)
    PROVE  /\ \A r \in running : r[1] # x => r \in running'
           /\ overlapped' = overlapped
           /\ ~overlapped' => Alone'
BY DEF End, Alone

(* A prune that runs is alone, but for readers.                            *)
LEMMA OnlyPrune ==
    ASSUME Roles, ~overlapped, NEW p \in Pruner, pr[p].at \notin PruneResting
    PROVE  /\ \A u \in Uploader : up[u].at \in Resting \/ up[u].kind = "index"
           /\ \A c \in Cloner : cl[c].at \in CloneResting
           /\ \A q \in Pruner \ {p} : pr[q].at \in PruneResting
<1>1. Alone /\ <<p, "prune">> \in running
  BY DEF Roles
<1>2. \A b \in running : b[2] # "read" => <<p, "prune">> = b
  <2>1. <<p, "prune">>[2] = "prune"
    OBVIOUS
  <2> QED BY <1>1, <2>1 DEF Alone
<1>3. \A u \in Uploader : up[u].at \in Resting \/ up[u].kind = "index"
  <2> SUFFICES ASSUME NEW u \in Uploader, up[u].at \notin Resting, up[u].kind # "index"
               PROVE  FALSE
    OBVIOUS
  <2>1. <<u, "write">> \in running
    BY DEF Roles, RoleOf
  <2>2. <<u, "write">>[2] # "read" /\ <<p, "prune">> # <<u, "write">>
    OBVIOUS
  <2> QED BY <1>2, <2>1, <2>2
<1>4. \A c \in Cloner : cl[c].at \in CloneResting
  <2> SUFFICES ASSUME NEW c \in Cloner, cl[c].at \notin CloneResting PROVE FALSE
    OBVIOUS
  <2>1. <<c, "write">> \in running
    BY DEF Roles
  <2>2. <<c, "write">>[2] # "read" /\ <<p, "prune">> # <<c, "write">>
    OBVIOUS
  <2> QED BY <1>2, <2>1, <2>2
<1>5. \A q \in Pruner \ {p} : pr[q].at \in PruneResting
  <2> SUFFICES ASSUME NEW q \in Pruner \ {p}, pr[q].at \notin PruneResting PROVE FALSE
    OBVIOUS
  <2>1. <<q, "prune">> \in running
    BY DEF Roles
  <2>2. <<q, "prune">>[2] # "read" /\ <<p, "prune">> # <<q, "prune">>
    OBVIOUS
  <2> QED BY <1>2, <2>1, <2>2
<1> QED BY <1>3, <1>4, <1>5

-----------------------------------------------------------------------------
(* What others rely on, when the store only grows                          *)

Grows == stored \subseteq stored' /\ indexed \subseteq indexed'

LEMMA UploadGrows ==
    ASSUME Grows, NEW u \in Uploader, up'[u] = up[u], UploadSafe(u)
    PROVE  UploadSafe(u)'
BY ContentGrows DEF Grows, UploadSafe, Needed

LEMMA CloneGrows ==
    ASSUME Grows, NEW c \in Cloner, cl'[c] = cl[c], CloneSafe(c)
    PROVE  CloneSafe(c)'
BY ContentGrows DEF Grows, CloneSafe, Needed

LEMMA PruneWaits ==
    ASSUME NEW p \in Pruner, pr'[p] = pr[p], PruneSafe(pr[p]),
           pr[p].at \in PruneResting \/ UNCHANGED <<indexed, versionFile, standing>>
    PROVE  PruneSafe(pr[p])'
<1>1. CASE pr[p].at \in PruneResting
  BY <1>1 DEF PruneSafe, PruneResting
<1>2. CASE UNCHANGED <<indexed, versionFile, standing>>
  <2>1. \A n, blocks : Kept(n, blocks)' <=> Kept(n, blocks)
    BY <1>2 DEF Kept
  <2>2. \A n : Gathered(pr[p], n)' <=> Gathered(pr[p], n)
    BY <1>2 DEF Gathered, Kept
  <2>3. ListOf(pr[p])' = ListOf(pr[p]) /\ ToDo(pr[p])' = ToDo(pr[p])
    OBVIOUS
  <2> QED BY <1>2, <2>1, <2>2, <2>3 DEF PruneSafe
<1> QED BY <1>1, <1>2

LEMMA PublishedGrows ==
    ASSUME Grows, UNCHANGED <<versionFile, standing>>, \A n \in Name : Published(n)
    PROVE  \A n \in Name : Published(n)'
BY ContentGrows DEF Grows, Published, Kept, Needed

-----------------------------------------------------------------------------
(* Uploads                                                                 *)

LEMMA UploadKeeps ==
    ASSUME TypesInv, SafeInv, NEW u \in Uploader, UploadStep(u), UNCHANGED <<pr, cl>>
    PROVE  SafeInv'
<1> DEFINE s == up[u]
           files == <<stored, indexed, versionFile, standing>>
<1>s. /\ s \in UploadState /\ up \in [Uploader -> UploadState]
      /\ RunTypeOK /\ FilesTypeOK
      /\ Roles /\ (~overlapped => Safe) /\ (~overlapped => Alone)
  BY DEF TypesInv, UploadTypeOK, StoreTypeOK, SafeInv, Roles
<1>f. /\ s.at \in UploadPhase /\ s.name \in Name
      /\ s.found \in SUBSET Block /\ s.made \in SUBSET Block /\ s.put \in SUBSET Block
      /\ s.version \in {NoFile} \cup Contents
  BY <1>s, UploadFields
<1>u. Safe => UploadSafe(u) /\ indexed \subseteq stored /\ \A n \in Name : Published(n)
  BY DEF Safe
<1>g. ASSUME NEW t, up' = [up EXCEPT ![u] = t],
             \/ Begin(u, IF t.kind = "index" THEN "read" ELSE "write") /\ s.at \in Resting
             \/ End(u) /\ s.at \notin Resting /\ t.at \in Resting
             \/ GoOn /\ s.at \notin Resting /\ t.kind = s.kind,
             Safe => /\ Grows /\ indexed' \subseteq stored'
                     /\ UploadSafe(u)' /\ \A n \in Name : Published(n)',
             s.at \in Resting \/ s.kind = "index" => (Safe => UNCHANGED <<indexed, versionFile, standing>>)
      PROVE  SafeInv'
  <2>1. up'[u] = t /\ \A w \in Uploader \ {u} : up'[w] = up[w]
    BY <1>g, <1>s
  <2>2. Roles' /\ (~overlapped' => ~overlapped)
    <3>1. CASE Begin(u, IF t.kind = "index" THEN "read" ELSE "write")
      <4> DEFINE role == IF t.kind = "index" THEN "read" ELSE "write"
      <4>1. role \in Role
        BY DEF Role
      <4>2. RoleOf(u)' = role /\ Begin(u, role)
        BY <2>1, <3>1 DEF RoleOf
      <4> HIDE DEF role
      <4>3. running \subseteq running' /\ <<u, role>> \in running' /\ (~overlapped' => ~overlapped /\ Alone')
        BY <1>s, <4>1, <4>2, RolesBegin
      <4> QED BY <1>s, <2>1, <4>2, <4>3 DEF Roles, RoleOf
    <3>2. CASE End(u) /\ t.at \in Resting
      <4>1. /\ \A r \in running : r[1] # u => r \in running'
            /\ overlapped' = overlapped /\ (~overlapped' => Alone')
        BY <1>s, <3>2, RolesEnd
      <4>2. /\ \A w \in Uploader \ {u} : \A x : <<w, x>> \in running => <<w, x>> \in running'
            /\ \A w \in Cloner \cup Pruner : \A x : <<w, x>> \in running => <<w, x>> \in running'
        BY <4>1, ProcessAssumption
      <4> QED BY <1>s, <2>1, <3>2, <4>1, <4>2 DEF Roles, RoleOf
    <3>3. CASE GoOn /\ s.at \notin Resting /\ t.kind = s.kind
      BY <1>s, <2>1, <3>3 DEF Roles, RoleOf, GoOn, runVars, Alone
    <3> QED BY <1>g, <3>1, <3>2, <3>3
  <2>3. ASSUME ~overlapped' PROVE Safe'
    <3>1. Safe /\ ~overlapped
      BY <1>s, <2>2, <2>3
    <3>2. \A w \in Uploader : UploadSafe(w)'
      BY <1>g, <2>1, <3>1, UploadGrows DEF Safe
    <3>3. \A c \in Cloner : CloneSafe(c)'
      BY <1>g, <3>1, CloneGrows DEF Safe
    <3>4. \A p \in Pruner : PruneSafe(pr[p])'
      <4> SUFFICES ASSUME NEW p \in Pruner PROVE PruneSafe(pr[p])'
        OBVIOUS
      <4>1. pr[p].at \in PruneResting \/ s.at \in Resting \/ s.kind = "index"
        BY <1>s, <3>1, OnlyPrune
      <4> QED BY <1>g, <3>1, <4>1, PruneWaits DEF Safe
    <3> QED BY <1>g, <3>1, <3>2, <3>3, <3>4 DEF Safe
  <2> QED BY <2>2, <2>3 DEF SafeInv
<1>q. ASSUME NEW t, up' = [up EXCEPT ![u] = t], GoOn, s.at \notin Resting, t.kind = s.kind,
             UNCHANGED files, Safe => UploadSafe(u)'
      PROVE  SafeInv'
  <2>1. Grows /\ UNCHANGED <<indexed, versionFile, standing>>
    BY <1>q DEF Grows
  <2>2. Safe => indexed' \subseteq stored' /\ \A n \in Name : Published(n)'
    BY <1>u, <1>q, <2>1, PublishedGrows
  <2> HIDE DEF files
  <2> QED BY <1>q, <1>g, <2>1, <2>2
<1>h. ASSUME NEW t, up' = [up EXCEPT ![u] = t], GoOn, s.at \notin Resting, t.kind = s.kind,
             UNCHANGED files, t.put \subseteq s.put,
             t.at \notin Resting \cup {"list", "rebuild", "put", "publish"}
      PROVE  SafeInv'
  <2>1. up'[u] = t
    BY <1>h, <1>s
  <2>2. Safe => UploadSafe(u)'
    BY <1>h, <1>u, <2>1 DEF UploadSafe
  <2> HIDE DEF files
  <2> QED BY <1>h, <1>q, <2>2
<1>x. GoOn /\ s.at \notin Resting /\ UNCHANGED files /\ Abort(u) => SafeInv'
  <2> DEFINE t == [s EXCEPT !.at = "close", !.ok = FALSE]
  <2>1. t.kind = s.kind /\ t.put = s.put /\ t.at = "close"
    BY <1>s DEF UploadState
  <2>2. Abort(u) => up' = [up EXCEPT ![u] = t]
    BY DEF Abort
  <2> HIDE DEF t, files
  <2> QED BY <2>1, <2>2, <1>h DEF Resting
<1>e. ASSUME NEW phase \in Resting, UploadEnds(u, phase), s.at \notin Resting,
             UNCHANGED <<stored, versionFile, standing>>,
             UNCHANGED indexed \/ indexed' = indexed \cup s.put
      PROVE  SafeInv'
  <2> DEFINE t == [IdleUpload EXCEPT !.at = phase]
  <2>1. t.at = phase /\ t.put = {}
    BY DEF IdleUpload
  <2>2. up' = [up EXCEPT ![u] = t] /\ End(u) /\ up'[u] = t
    BY <1>e, <1>s DEF UploadEnds
  <2> HIDE DEF t
  <2>3. Grows
    BY <1>e DEF Grows
  <2>4. Safe => indexed' \subseteq stored'
    BY <1>e, <1>u DEF UploadSafe
  <2>5. Safe => UploadSafe(u)'
    BY <2>1, <2>2 DEF UploadSafe, Resting
  <2>6. Safe => \A n \in Name : Published(n)'
    BY <1>e, <1>u, <2>3, PublishedGrows
  <2>7. s.kind = "index" => (Safe => UNCHANGED <<indexed, versionFile, standing>>)
    BY <1>e, <1>u DEF UploadSafe
  <2> QED BY <2>1, <2>2, <2>3, <2>4, <2>5, <2>6, <2>7, <1>e, <1>g
<1> HIDE DEF files
<1>1. CASE StartUpload(u)
  <2>1. PICK r \in Upload :
           /\ s.at \in Resting
           /\ Begin(u, IF r.kind = "index" THEN "read" ELSE "write")
           /\ up' = [up EXCEPT ![u] =
               [IdleUpload EXCEPT
                   !.at = CASE r.kind = "index" -> "read"
                            [] r.kind = "init" -> "list"
                            [] OTHER -> "query",
                   !.kind = r.kind, !.name = r.name, !.local = r.local, !.ok = TRUE,
                   !.version = IF r.kind \in {"upsync", "put"} THEN r.version ELSE NoFile]]
           /\ UNCHANGED <<fileVars, standing>>
    BY <1>1 DEF StartUpload
  <2> DEFINE at == CASE r.kind = "index" -> "read"
                     [] r.kind = "init" -> "list"
                     [] OTHER -> "query"
             version == IF r.kind \in {"upsync", "put"} THEN r.version ELSE NoFile
             t == [IdleUpload EXCEPT !.at = at, !.kind = r.kind, !.name = r.name,
                                     !.local = r.local, !.ok = TRUE, !.version = version]
  <2>2. at \in {"read", "list", "query"} /\ (at = "list" => r.kind # "index")
    OBVIOUS
  <2>3. t.at = at /\ t.kind = r.kind /\ t.put = {}
    <3> HIDE DEF at, version
    <3> QED BY DEF IdleUpload
  <2>4. up' = [up EXCEPT ![u] = t]
    BY <2>1
  <2> HIDE DEF at, version, t
  <2>5. up'[u] = t
    BY <2>4, <1>s
  <2>6. UploadSafe(u)'
    BY <2>2, <2>3, <2>5 DEF UploadSafe, Resting
  <2>7. Grows /\ UNCHANGED <<indexed, versionFile, standing>>
    BY <2>1 DEF Grows, fileVars
  <2>8. Safe => indexed' \subseteq stored' /\ \A n \in Name : Published(n)'
    BY <1>u, <2>1, <2>7, PublishedGrows DEF fileVars
  <2> QED BY <2>1, <2>3, <2>4, <2>6, <2>7, <2>8, <1>g
<1>2. CASE ReadVersion(u)
  <2> DEFINE t == [s EXCEPT !.at = "query", !.version = versionFile[s.name]]
  <2>1. t.at = "query" /\ t.kind = s.kind /\ t.put = s.put
    BY <1>s DEF UploadState
  <2>2. GoOn /\ UNCHANGED files /\ s.at \notin Resting
    BY <1>2 DEF ReadVersion, At, Resting, fileVars, files
  <2>3. up' = [up EXCEPT ![u] = t] \/ Abort(u)
    BY <1>2 DEF ReadVersion
  <2> HIDE DEF t
  <2> QED BY <2>1, <2>2, <2>3, <1>h, <1>x DEF Resting
<1>3. CASE FindExisting(u)
  <2>1. GoOn /\ UNCHANGED files /\ s.at = "query" /\ s.at \notin Resting
    BY <1>3 DEF FindExisting, At, Resting, fileVars, files
  <2> DEFINE needed == Needed(s.version)
  <2>2. ASSUME s.kind # "index",
               NEW index \in WorthReusing(indexed, needed),
               NEW found \in Existing(index, needed),
               NEW made \in Packings(needed \ Content(found)),
               up' = [up EXCEPT ![u] = [s EXCEPT !.at = "put", !.found = found, !.made = made]]
        PROVE  SafeInv'
    <3> DEFINE t == [s EXCEPT !.at = "put", !.found = found, !.made = made]
    <3>1. /\ t.at = "put" /\ t.kind = s.kind /\ t.put = s.put /\ t.found = found
          /\ t.made = made /\ t.version = s.version
      BY <1>s DEF UploadState
    <3>2. up'[u] = t
      BY <2>2, <1>s
    <3>3. found \subseteq indexed
      BY <2>2 DEF WorthReusing, Existing
    <3>4. Content(made) = needed \ Content(found)
      BY <2>2 DEF Packings
    <3> HIDE DEF t
    <3>5. Safe => UploadSafe(u)'
      BY <2>1, <2>2, <3>1, <3>2, <3>3, <3>4, <1>u DEF UploadSafe, files, Resting
    <3> QED BY <2>1, <2>2, <3>1, <3>5, <1>q DEF t
  <2>3. ASSUME NEW found,
               up' = [up EXCEPT ![u] = [s EXCEPT !.at = "local", !.found = found]]
        PROVE  SafeInv'
    <3> DEFINE t == [s EXCEPT !.at = "local", !.found = found]
    <3>1. t.at = "local" /\ t.kind = s.kind /\ t.put = s.put
      BY <1>s DEF UploadState
    <3> HIDE DEF t
    <3> QED BY <2>1, <2>3, <3>1, <1>h DEF Resting, t
  <2>4. CASE Abort(u)
    BY <2>1, <2>4, <1>x
  <2> QED BY <1>3, <2>2, <2>3, <2>4 DEF FindExisting
<1>4. ASSUME NEW b \in Block, StoreBlock(u, b) PROVE SafeInv'
  <2>1. /\ GoOn /\ s.at = "put" /\ s.at \notin Resting
        /\ UNCHANGED <<indexed, versionFile, standing>>
        /\ stored' = stored \cup {b} \/ stored' = stored
    BY <1>4 DEF StoreBlock, At, Resting
  <2>2. Grows
    BY <2>1 DEF Grows
  <2>3. Safe => indexed' \subseteq stored' /\ \A n \in Name : Published(n)'
    BY <1>u, <2>1, <2>2, PublishedGrows
  <2> DEFINE t1 == [s EXCEPT !.put = s.put \cup {b}]
             t2 == [s EXCEPT !.at = "close", !.ok = FALSE, !.put = s.put]
  <2>4. /\ t1.at = s.at /\ t1.kind = s.kind /\ t1.put = s.put \cup {b} /\ t1.found = s.found
        /\ t1.made = s.made /\ t1.version = s.version
        /\ t2.at = "close" /\ t2.kind = s.kind /\ t2.put = s.put
    BY <1>s DEF UploadState
  <2>5. \/ up' = [up EXCEPT ![u] = t1] /\ stored' = stored \cup {b}
        \/ up' = [up EXCEPT ![u] = t2]
    BY <1>4 DEF StoreBlock, Announced
  <2> HIDE DEF t1, t2
  <2>6. Safe => UploadSafe(u)'
    BY <1>s, <1>u, <2>1, <2>4, <2>5 DEF UploadSafe, Resting
  <2> QED BY <2>1, <2>2, <2>3, <2>4, <2>5, <2>6, <1>g
<1>5. ASSUME NEW b \in Block, ReadBlock(u, b) PROVE SafeInv'
  <2>1. GoOn /\ UNCHANGED files /\ s.at = "rebuild" /\ s.at \notin Resting
    BY <1>5 DEF ReadBlock, At, Resting, fileVars, files
  <2> DEFINE t1 == [s EXCEPT !.made = s.made \cup {b}, !.put = s.put \cup ({b} \cap stored)]
             t2 == [s EXCEPT !.made = s.made \cup {b}]
  <2>2. /\ t1.at = s.at /\ t1.kind = s.kind /\ t1.put = s.put \cup ({b} \cap stored)
        /\ t2.at = s.at /\ t2.kind = s.kind /\ t2.put = s.put
    BY <1>s DEF UploadState
  <2>3. up' = [up EXCEPT ![u] = t1] \/ up' = [up EXCEPT ![u] = t2]
    BY <1>5 DEF ReadBlock
  <2> HIDE DEF t1, t2
  <2>4. Safe => UploadSafe(u)'
    BY <1>s, <1>u, <2>1, <2>2, <2>3 DEF UploadSafe, Resting, files
  <2> QED BY <2>1, <2>2, <2>3, <2>4, <1>q
<1>6. CASE FlushUpload(u)
  <2>1. GoOn /\ s.at = "put" /\ s.at \notin Resting /\ s.made \subseteq s.put
    BY <1>6 DEF FlushUpload, At, Resting
  <2>2. ASSUME NEW late \in SUBSET s.put, indexed' = indexed \cup (s.put \ late),
               up' = [up EXCEPT ![u] = [s EXCEPT !.at = "publish", !.put = late]]
        PROVE  SafeInv'
    <3> DEFINE t == [s EXCEPT !.at = "publish", !.put = late]
    <3>1. /\ t.at = "publish" /\ t.kind = s.kind /\ t.put = late /\ t.version = s.version
      BY <1>s DEF UploadState
    <3>2. up' = [up EXCEPT ![u] = t]
      BY <2>2
    <3> HIDE DEF t
    <3>3. up'[u] = t
      BY <3>2, <1>s
    <3>4. Grows /\ UNCHANGED <<stored, versionFile, standing>>
      BY <1>6, <2>2 DEF FlushUpload, Grows
    <3>5. Safe => Needed(s.version) \subseteq Content(indexed' \cup late)
      <4>1. Safe => /\ s.found \subseteq indexed' \cup late
                    /\ Needed(s.version) \subseteq Content(s.found) \cup Content(s.made)
        BY <1>u, <2>1, <2>2 DEF UploadSafe
      <4>2. s.made \subseteq indexed' \cup late
        BY <2>1, <2>2
      <4> QED BY <4>1, <4>2, ContentGrows
    <3>6. Safe => UploadSafe(u)' /\ indexed' \subseteq stored' /\ s.kind # "index"
      BY <1>u, <2>1, <2>2, <3>1, <3>3, <3>4, <3>5 DEF UploadSafe, Resting
    <3>7. Safe => \A n \in Name : Published(n)'
      BY <1>u, <3>4, PublishedGrows
    <3> QED BY <2>1, <3>1, <3>2, <3>4, <3>6, <3>7, <1>g
  <2>3. CASE FlushFails(u) /\ UNCHANGED indexed
    BY <1>6, <2>1, <2>3, <1>x DEF FlushUpload, FlushFails, files
  <2> QED BY <1>6, <2>2, <2>3 DEF FlushUpload
<1>7. CASE WriteVersion(u)
  <2>1. GoOn /\ s.at = "publish" /\ s.at \notin Resting /\ UNCHANGED <<stored, indexed>>
    BY <1>7 DEF WriteVersion, At, Resting
  <2>2. CASE /\ versionFile' = [versionFile EXCEPT ![s.name] = s.version]
             /\ standing' = [standing EXCEPT ![s.name] =
                                IF s.put = {} THEN "good" ELSE "unflushed"]
             /\ \E at \in {"local", "close"} : Goes(u, at)
    <3>1. PICK at \in {"local", "close"} : Goes(u, at)
      BY <2>2
    <3> DEFINE t == [s EXCEPT !.at = at]
    <3>2. t.at = at /\ t.kind = s.kind /\ t.put = s.put /\ up' = [up EXCEPT ![u] = t]
      BY <1>s, <3>1 DEF UploadState, Goes
    <3> HIDE DEF t
    <3>3. up'[u] = t
      BY <3>2, <1>s
    <3>4. Grows
      BY <2>1 DEF Grows
    <3>5. Safe => UploadSafe(u)' /\ indexed' \subseteq stored' /\ s.kind # "index"
      BY <1>u, <2>1, <3>2, <3>3 DEF UploadSafe, Resting
    <3>6. ASSUME Safe, NEW n \in Name PROVE Published(n)'
      <4>1. /\ Kept(n, indexed)
            /\ s.put = {} => Needed(s.version) \subseteq Content(indexed)
        BY <1>u, <2>1, <3>6 DEF Published, UploadSafe
      <4>2. versionFile'[n] = IF n = s.name THEN s.version ELSE versionFile[n]
        BY <2>2, <1>s DEF FilesTypeOK
      <4>3. /\ n # s.name => standing'[n] = standing[n]
            /\ n = s.name /\ s.put # {} => standing'[n] = "unflushed"
        BY <2>2, <1>s DEF FilesTypeOK
      <4> QED BY <2>1, <4>1, <4>2, <4>3 DEF Published, Kept
    <3> QED BY <2>1, <3>2, <3>4, <3>5, <3>6, <1>g
  <2>3. CASE Abort(u) /\ UNCHANGED <<versionFile, standing>>
    BY <2>1, <2>3, <1>x DEF files
  <2> QED BY <1>7, <2>2, <2>3 DEF WriteVersion
<1>8. CASE WriteLocalIndex(u)
  <2> DEFINE t == [s EXCEPT !.at = "close"]
  <2>1. t.at = "close" /\ t.kind = s.kind /\ t.put = s.put
    BY <1>s DEF UploadState
  <2>2. GoOn /\ UNCHANGED files /\ s.at \notin Resting
    BY <1>8 DEF WriteLocalIndex, At, Resting, files
  <2>3. up' = [up EXCEPT ![u] = t] \/ Abort(u)
    BY <1>8 DEF WriteLocalIndex, Goes
  <2> HIDE DEF t
  <2> QED BY <2>1, <2>2, <2>3, <1>h, <1>x DEF Resting
<1>9. CASE ListBlocks(u)
  <2> DEFINE t == [s EXCEPT !.at = "rebuild", !.found = stored]
  <2>1. t.at = "rebuild" /\ t.kind = s.kind /\ t.put = s.put
    BY <1>s DEF UploadState
  <2>2. GoOn /\ UNCHANGED files /\ s.at = "list" /\ s.at \notin Resting
    BY <1>9 DEF ListBlocks, At, Resting, fileVars, files
  <2>3. up' = [up EXCEPT ![u] = t] \/ Abort(u)
    BY <1>9 DEF ListBlocks
  <2> HIDE DEF t
  <2>4. up' = [up EXCEPT ![u] = t] => (Safe => UploadSafe(u)')
    BY <1>s, <1>u, <2>1, <2>2 DEF UploadSafe, Resting, files
  <2> QED BY <2>1, <2>2, <2>3, <2>4, <1>q, <1>x
<1>10. CASE AddRebuilt(u)
  <2> DEFINE t == [s EXCEPT !.at = "close", !.put = {}]
  <2>1. t.at = "close" /\ t.kind = s.kind /\ t.put = {}
    BY <1>s DEF UploadState
  <2>2. /\ GoOn /\ s.at = "rebuild" /\ s.at \notin Resting
        /\ UNCHANGED <<stored, versionFile, standing>> /\ up' = [up EXCEPT ![u] = t]
        /\ indexed' = indexed \cup s.put \/ UNCHANGED indexed
    BY <1>10 DEF AddRebuilt, At, Resting
  <2> HIDE DEF t
  <2>3. up'[u] = t /\ Grows
    BY <2>2, <1>s DEF Grows
  <2>4. Safe => UploadSafe(u)' /\ indexed' \subseteq stored' /\ s.kind # "index"
    BY <1>u, <2>1, <2>2, <2>3 DEF UploadSafe, Resting
  <2>5. Safe => \A n \in Name : Published(n)'
    BY <1>u, <2>2, <2>3, PublishedGrows
  <2> QED BY <2>1, <2>2, <2>3, <2>4, <2>5, <1>g
<1>11. CASE CloseUpload(u)
  <2>1. /\ s.at = "close" /\ s.at \notin Resting /\ UNCHANGED <<stored, versionFile, standing>>
        /\ UNCHANGED indexed \/ indexed' = indexed \cup s.put
    BY <1>11 DEF CloseUpload, At, Resting
  <2>2. CASE Goes(u, "config") /\ GoOn
    <3> DEFINE t == [s EXCEPT !.at = "config"]
    <3>1. t.at = "config" /\ t.kind = s.kind /\ t.put = s.put /\ up' = [up EXCEPT ![u] = t]
      BY <1>s, <2>2 DEF UploadState, Goes
    <3> HIDE DEF t
    <3>2. up'[u] = t /\ Grows
      BY <2>1, <3>1, <1>s DEF Grows
    <3>3. Safe => UploadSafe(u)' /\ indexed' \subseteq stored'
      BY <1>u, <2>1, <3>1, <3>2 DEF UploadSafe, Resting
    <3>4. Safe => \A n \in Name : Published(n)'
      BY <1>u, <2>1, <3>2, PublishedGrows
    <3>5. s.kind = "index" => (Safe => UNCHANGED <<indexed, versionFile, standing>>)
      BY <1>u, <2>1 DEF UploadSafe
    <3> QED BY <2>1, <2>2, <3>1, <3>2, <3>3, <3>4, <3>5, <1>g
  <2>3. CASE \E phase \in Resting : UploadEnds(u, phase)
    BY <2>1, <2>3, <1>e
  <2> QED BY <1>11, <2>2, <2>3 DEF CloseUpload, Resting
<1>12. CASE WriteConfig(u) \/ CrashUpload(u)
  <2>1. /\ s.at \notin Resting /\ UNCHANGED <<stored, indexed, versionFile, standing>>
        /\ \E phase \in Resting : UploadEnds(u, phase)
    BY <1>12 DEF WriteConfig, CrashUpload, At, Resting, fileVars
  <2> QED BY <2>1, <1>e
<1> QED BY <1>1, <1>2, <1>3, <1>4, <1>5, <1>6, <1>7, <1>8, <1>9, <1>10, <1>11, <1>12
        DEF UploadStep, UploadProgress

-----------------------------------------------------------------------------
(* Clones                                                                  *)

LEMMA CloneKeeps ==
    ASSUME TypesInv, SafeInv, NEW c \in Cloner, CloneStep(c), UNCHANGED <<up, pr>>
    PROVE  SafeInv'
<1> DEFINE s == cl[c]
           files == <<stored, indexed, versionFile, standing>>
<1>s. /\ s \in CloneState /\ cl \in [Cloner -> CloneState]
      /\ RunTypeOK /\ FilesTypeOK
      /\ Roles /\ (~overlapped => Safe) /\ (~overlapped => Alone)
  BY DEF TypesInv, CloneTypeOK, StoreTypeOK, SafeInv, Roles
<1>f. s.name \in Name /\ s.put \in SUBSET Block
  BY <1>s, CloneFields
<1>u. Safe => CloneSafe(c) /\ indexed \subseteq stored /\ \A n \in Name : Published(n)
  BY DEF Safe
<1>g. ASSUME NEW t, cl' = [cl EXCEPT ![c] = t],
             \/ Begin(c, "write")
             \/ End(c) /\ t.at \in CloneResting
             \/ GoOn /\ (s.at \notin CloneResting \/ t.at = s.at),
             Safe => /\ Grows /\ indexed' \subseteq stored'
                     /\ CloneSafe(c)' /\ \A n \in Name : Published(n)',
             s.at \in CloneResting => (Safe => UNCHANGED <<indexed, versionFile, standing>>)
      PROVE  SafeInv'
  <2>1. cl'[c] = t /\ \A d \in Cloner \ {c} : cl'[d] = cl[d]
    BY <1>g, <1>s
  <2>2. Roles' /\ (~overlapped' => ~overlapped)
    <3>1. CASE Begin(c, "write")
      <4>1. "write" \in Role
        BY DEF Role
      <4>2. running \subseteq running' /\ <<c, "write">> \in running'
            /\ (~overlapped' => ~overlapped /\ Alone')
        BY <1>s, <3>1, <4>1, RolesBegin
      <4> QED BY <1>s, <2>1, <4>2 DEF Roles, RoleOf
    <3>2. CASE End(c) /\ t.at \in CloneResting
      <4>1. /\ \A r \in running : r[1] # c => r \in running'
            /\ overlapped' = overlapped /\ (~overlapped' => Alone')
        BY <1>s, <3>2, RolesEnd
      <4>2. /\ \A d \in Cloner \ {c} : \A x : <<d, x>> \in running => <<d, x>> \in running'
            /\ \A d \in Uploader \cup Pruner : \A x : <<d, x>> \in running => <<d, x>> \in running'
        BY <4>1, ProcessAssumption
      <4> QED BY <1>s, <2>1, <3>2, <4>1, <4>2 DEF Roles, RoleOf
    <3>3. CASE GoOn /\ (s.at \notin CloneResting \/ t.at = s.at)
      BY <1>s, <2>1, <3>3 DEF Roles, RoleOf, GoOn, runVars, Alone
    <3> QED BY <1>g, <3>1, <3>2, <3>3
  <2>3. ASSUME ~overlapped' PROVE Safe'
    <3>1. Safe /\ ~overlapped
      BY <1>s, <2>2, <2>3
    <3>2. \A d \in Cloner : CloneSafe(d)'
      BY <1>g, <2>1, <3>1, CloneGrows DEF Safe
    <3>3. \A u \in Uploader : UploadSafe(u)'
      BY <1>g, <3>1, UploadGrows DEF Safe
    <3>4. \A p \in Pruner : PruneSafe(pr[p])'
      <4> SUFFICES ASSUME NEW p \in Pruner PROVE PruneSafe(pr[p])'
        OBVIOUS
      <4>1. pr[p].at \in PruneResting \/ s.at \in CloneResting
        BY <1>s, <3>1, OnlyPrune
      <4> QED BY <1>g, <3>1, <4>1, PruneWaits DEF Safe
    <3> QED BY <1>g, <3>1, <3>2, <3>3, <3>4 DEF Safe
  <2> QED BY <2>2, <2>3 DEF SafeInv
<1>q. ASSUME NEW t, cl' = [cl EXCEPT ![c] = t], GoOn, s.at \notin CloneResting,
             UNCHANGED files, Safe => CloneSafe(c)'
      PROVE  SafeInv'
  <2>1. Grows /\ UNCHANGED <<indexed, versionFile, standing>>
    BY <1>q DEF Grows
  <2>2. Safe => indexed' \subseteq stored' /\ \A n \in Name : Published(n)'
    BY <1>u, <1>q, <2>1, PublishedGrows
  <2> HIDE DEF files
  <2> QED BY <1>q, <1>g, <2>1, <2>2
<1>h. ASSUME NEW t, cl' = [cl EXCEPT ![c] = t], GoOn, s.at \notin CloneResting,
             UNCHANGED files, t.put = s.put, t.late = s.late, t.cached = s.cached,
             \/ /\ t.flush = s.flush /\ t.found = s.found /\ t.made = s.made
                /\ t.current = s.current /\ t.at \in {"close", "local", "wait"}
             \/ /\ t.flush = "none"
                /\ t.at \in {"next", "change", "unzip", "rescan", "query"}
      PROVE  SafeInv'
  <2>1. cl'[c] = t
    BY <1>h, <1>s
  <2>2. Safe => CloneSafe(c)'
    BY <1>h, <1>u, <2>1 DEF CloneSafe, CloneResting
  <2> HIDE DEF files
  <2> QED BY <1>h, <1>q, <2>2
<1>x. GoOn /\ s.at \notin CloneResting /\ UNCHANGED files /\ CloneAborts(c) => SafeInv'
  <2> DEFINE t == [s EXCEPT !.at = "close", !.ok = FALSE]
  <2>1. /\ t.at = "close" /\ t.put = s.put /\ t.late = s.late /\ t.cached = s.cached /\ t.flush = s.flush
        /\ t.found = s.found /\ t.made = s.made /\ t.current = s.current
    BY <1>s DEF CloneState
  <2>2. CloneAborts(c) => cl' = [cl EXCEPT ![c] = t]
    BY DEF CloneAborts
  <2> HIDE DEF t, files
  <2> QED BY <2>1, <2>2, <1>h
<1>p. Safe /\ s.at \in {"next", "change", "unzip", "rescan", "query", "put"} => s.flush = "none"
  BY <1>u DEF CloneSafe
<1>m. ASSUME NEW at \in {"close", "change", "unzip", "rescan", "query", "local", "wait"},
             CloneGoes(c, at), GoOn, s.at \notin CloneResting, UNCHANGED files,
             at \in {"close", "local", "wait"}
                \/ s.at \in {"next", "change", "unzip", "rescan", "query", "put"}
      PROVE  SafeInv'
  <2> DEFINE t == [s EXCEPT !.at = at]
  <2>1. /\ t.at = at /\ t.put = s.put /\ t.late = s.late /\ t.cached = s.cached /\ t.flush = s.flush
        /\ t.found = s.found /\ t.made = s.made /\ t.current = s.current
    BY <1>s DEF CloneState
  <2>2. cl' = [cl EXCEPT ![c] = t] /\ cl'[c] = t
    BY <1>m, <1>s DEF CloneGoes
  <2> HIDE DEF t
  <2>3. Safe => CloneSafe(c)'
    BY <1>m, <1>p, <1>u, <2>1, <2>2 DEF CloneSafe, CloneResting
  <2> HIDE DEF files
  <2> QED BY <2>2, <2>3, <1>m, <1>q
<1> HIDE DEF files
<1>1. CASE StartClone(c)
  <2>1. PICK r \in Clone :
           /\ Begin(c, "write")
           /\ cl' = [cl EXCEPT ![c] = [IdleClone EXCEPT !.at = "next", !.todo = r.list,
                                                     !.local = r.local, !.ok = TRUE]]
           /\ UNCHANGED <<fileVars, standing>>
    BY <1>1 DEF StartClone
  <2> DEFINE t == [IdleClone EXCEPT !.at = "next", !.todo = r.list,
                                    !.local = r.local, !.ok = TRUE]
  <2>2. t.at = "next" /\ t.put = {} /\ t.late = {} /\ t.cached = NoFile /\ t.flush = "none"
    BY DEF IdleClone
  <2>3. cl' = [cl EXCEPT ![c] = t] /\ cl'[c] = t
    BY <2>1, <1>s
  <2> HIDE DEF t
  <2>4. CloneSafe(c)'
    BY <2>2, <2>3 DEF CloneSafe, CloneResting
  <2>5. Grows /\ UNCHANGED <<indexed, versionFile, standing>>
    BY <2>1 DEF Grows, fileVars
  <2>6. Safe => indexed' \subseteq stored' /\ \A n \in Name : Published(n)'
    BY <1>u, <2>1, <2>5, PublishedGrows DEF fileVars
  <2> QED BY <2>1, <2>2, <2>3, <2>4, <2>5, <2>6, <1>g
<1>2. CASE NextVersion(c)
  <2> DEFINE current == IF s.current = NoFile THEN work[c] ELSE s.current
             t == [s EXCEPT !.at = "change", !.name = Head(s.todo), !.todo = Tail(s.todo),
                            !.current = current]
  <2>1. GoOn /\ UNCHANGED files /\ s.at = "next" /\ s.at \notin CloneResting
    BY <1>2 DEF NextVersion, CloneAt, CloneResting, fileVars, files
  <2>2. t.at = "change" /\ t.put = s.put /\ t.late = s.late /\ t.cached = s.cached /\ t.flush = s.flush
    <3> HIDE DEF current
    <3> QED BY <1>s DEF CloneState
  <2>3. CASE cl' = [cl EXCEPT ![c] = t]
    <3> HIDE DEF t
    <3>1. Safe => CloneSafe(c)'
      BY <1>p, <1>s, <1>u, <2>1, <2>2, <2>3 DEF CloneSafe, CloneResting, files
    <3> QED BY <2>1, <2>3, <3>1, <1>q
  <2>4. CASE CloneAborts(c)
    BY <2>1, <2>4, <1>x
  <2>5. CASE CloneGoes(c, "close")
    BY <2>1, <2>5, <1>m
  <2> QED BY <1>2, <2>3, <2>4, <2>5 DEF NextVersion
<1>3. CASE ChangeWork(c)
  <2> DEFINE t == [s EXCEPT !.at = "query", !.current = Source[s.name]]
  <2>1. GoOn /\ UNCHANGED files /\ s.at = "change" /\ s.at \notin CloneResting
    BY <1>3 DEF ChangeWork, CloneAt, CloneResting, fileVars, files
  <2>2. t.at = "query" /\ t.put = s.put /\ t.late = s.late /\ t.cached = s.cached /\ t.flush = s.flush
    BY <1>s DEF CloneState
  <2>3. CASE cl' = [cl EXCEPT ![c] = t]
    <3> HIDE DEF t
    <3>1. Safe => CloneSafe(c)'
      BY <1>p, <1>s, <1>u, <2>1, <2>2, <2>3 DEF CloneSafe, CloneResting, files
    <3> QED BY <2>1, <2>3, <3>1, <1>q
  <2>4. CASE CloneGoes(c, "unzip")
    BY <2>1, <2>4, <1>m
  <2> QED BY <1>3, <2>3, <2>4 DEF ChangeWork, ChangeFails
<1>4. CASE Unzip(c)
  <2>1. GoOn /\ UNCHANGED files /\ s.at = "unzip" /\ s.at \notin CloneResting
    BY <1>4 DEF Unzip, CloneAt, CloneResting, fileVars, files
  <2>2. CloneGoes(c, "rescan") \/ CloneAborts(c)
    BY <1>4 DEF Unzip
  <2> QED BY <2>1, <2>2, <1>m, <1>x
<1>5. CASE Rescan(c)
  <2> DEFINE t == [s EXCEPT !.at = "query", !.current = work[c]]
  <2>1. GoOn /\ UNCHANGED files /\ s.at = "rescan" /\ s.at \notin CloneResting
    BY <1>5 DEF Rescan, CloneAt, CloneResting, fileVars, files
  <2>2. t.at = "query" /\ t.put = s.put /\ t.late = s.late /\ t.cached = s.cached /\ t.flush = s.flush
    BY <1>s DEF CloneState
  <2>3. cl' = [cl EXCEPT ![c] = t] \/ CloneAborts(c)
    BY <1>5 DEF Rescan
  <2> HIDE DEF t
  <2>4. cl' = [cl EXCEPT ![c] = t] => (Safe => CloneSafe(c)')
    BY <1>p, <1>s, <1>u, <2>1, <2>2 DEF CloneSafe, CloneResting, files
  <2> QED BY <2>1, <2>3, <2>4, <1>q, <1>x
<1>6. CASE FindCloned(c)
  <2>1. GoOn /\ UNCHANGED files /\ s.at = "query" /\ s.at \notin CloneResting
    BY <1>6 DEF FindCloned, CloneAt, CloneResting, fileVars, files
  <2> DEFINE index == IF s.cached = NoFile THEN indexed ELSE s.cached
             needed == Needed(s.current)
  <2>2. ASSUME NEW told \in SUBSET s.late,
               NEW worth \in WorthReusing(index \cup told, needed),
               NEW found \in Existing(worth, needed),
               NEW made \in Packings(needed \ Content(found)),
               cl' = [cl EXCEPT ![c] = [s EXCEPT !.at = "put", !.found = found, !.made = made,
                                                 !.put = {}, !.cached = index]]
        PROVE  SafeInv'
    <3> DEFINE t == [s EXCEPT !.at = "put", !.found = found, !.made = made,
                              !.put = {}, !.cached = index]
    <3>1. /\ t.at = "put" /\ t.put = {} /\ t.late = s.late /\ t.found = found /\ t.made = made
          /\ t.cached = index /\ t.current = s.current /\ t.flush = s.flush
      <4> HIDE DEF index
      <4> QED BY <1>s DEF CloneState
    <3>2. cl'[c] = t
      BY <2>2, <1>s
    <3>3. Safe => index \subseteq indexed
      BY <1>u DEF CloneSafe
    <3>4. found \subseteq index \cup s.late
      BY <2>2 DEF WorthReusing, Existing
    <3>5. Content(made) = needed \ Content(found)
      BY <2>2 DEF Packings
    <3> HIDE DEF t, index
    <3>6. Safe => CloneSafe(c)'
      <4>1. needed \subseteq Content(found) \cup Content(made)
        BY <3>5
      <4>2. Safe => found \subseteq indexed \cup s.late
        BY <3>3, <3>4
      <4> HIDE DEF needed
      <4>3. UNCHANGED <<stored, indexed>> /\ needed = Needed(s.current)
        BY <2>1 DEF files, needed
      <4> QED BY <1>p, <1>u, <2>1, <3>1, <3>2, <3>3, <4>1, <4>2, <4>3 DEF CloneSafe, CloneResting
    <3> QED BY <2>1, <2>2, <3>1, <3>6, <1>q DEF t
  <2>3. CASE CloneAborts(c)
    BY <2>1, <2>3, <1>x
  <2> QED BY <1>6, <2>2, <2>3 DEF FindCloned
<1>7. ASSUME NEW b \in Block, StoreCloned(c, b) PROVE SafeInv'
  <2> DEFINE t == [s EXCEPT !.put = s.put \cup {b}]
  <2>1. /\ GoOn /\ s.at = "put" /\ s.at \notin CloneResting
        /\ UNCHANGED <<indexed, versionFile, standing>>
    BY <1>7 DEF StoreCloned, CloneAt, CloneResting
  <2>2. /\ t.at = s.at /\ t.put = s.put \cup {b} /\ t.late = s.late /\ t.cached = s.cached /\ t.flush = s.flush
        /\ t.found = s.found /\ t.made = s.made /\ t.current = s.current
    BY <1>s DEF CloneState
  <2>3. CASE stored' = stored \cup {b} /\ cl' = [cl EXCEPT ![c] = t]
    <3> HIDE DEF t
    <3>1. cl'[c] = t /\ Grows
      BY <2>1, <2>3, <1>s DEF Grows
    <3>2. Safe => CloneSafe(c)' /\ indexed' \subseteq stored'
      BY <1>p, <1>u, <2>1, <2>2, <2>3, <3>1 DEF CloneSafe, CloneResting
    <3>3. Safe => \A n \in Name : Published(n)'
      BY <1>u, <2>1, <3>1, PublishedGrows
    <3> QED BY <2>1, <2>2, <2>3, <3>1, <3>2, <3>3, <1>g
  <2>4. CASE CloneAborts(c) /\ UNCHANGED stored
    BY <2>1, <2>4, <1>x DEF files
  <2> QED BY <1>7, <2>3, <2>4 DEF StoreCloned
<1>8. CASE StartFlush(c)
  <2> DEFINE t == [s EXCEPT !.at = "publish", !.flush = "running"]
  <2>1. GoOn /\ UNCHANGED files /\ s.at = "put" /\ s.at \notin CloneResting
        /\ s.made \subseteq s.put /\ cl' = [cl EXCEPT ![c] = t]
    BY <1>8 DEF StartFlush, CloneAt, CloneResting, fileVars, files
  <2>2. /\ t.at = "publish" /\ t.put = s.put /\ t.late = s.late /\ t.cached = s.cached /\ t.flush = "running"
        /\ t.found = s.found /\ t.made = s.made /\ t.current = s.current
    BY <1>s DEF CloneState
  <2> HIDE DEF t
  <2>3. Safe => CloneSafe(c)'
    BY <1>s, <1>u, <2>1, <2>2 DEF CloneSafe, CloneResting, files
  <2> QED BY <2>1, <2>3, <1>q
<1>9. CASE EndFlush(c)
  <2>1. GoOn /\ s.flush = "running" /\ UNCHANGED <<stored, versionFile, standing>>
    BY <1>9 DEF EndFlush
  <2>2. Safe => s.at \notin CloneResting
    BY <1>u, <2>1 DEF CloneSafe
  <2>3. ASSUME NEW late \in SUBSET s.put, indexed' = indexed \cup s.late \cup (s.put \ late),
               NEW cached \in {s.cached, indexed'},
               cl' = [cl EXCEPT ![c] = [s EXCEPT !.flush = "ok", !.put = {}, !.late = late,
                                                 !.cached = cached]]
        PROVE  SafeInv'
    <3> DEFINE t == [s EXCEPT !.flush = "ok", !.put = {}, !.late = late, !.cached = cached]
    <3>1. /\ t.at = s.at /\ t.put = {} /\ t.late = late /\ t.cached = cached /\ t.flush = "ok"
          /\ t.found = s.found /\ t.made = s.made /\ t.current = s.current
      BY <1>s DEF CloneState
    <3>2. cl'[c] = t /\ Grows
      BY <2>1, <2>3, <1>s DEF Grows
    <3> HIDE DEF t
    <3>3. Safe => Needed(s.current) \subseteq Content(indexed' \cup late)
      <4>1. Safe => /\ s.found \subseteq indexed' \cup late /\ s.made \subseteq indexed' \cup late
                    /\ Needed(s.current) \subseteq Content(s.found) \cup Content(s.made)
        BY <1>u, <2>1, <2>3 DEF CloneSafe
      <4> QED BY <4>1, ContentGrows
    <3>4. Safe => CloneSafe(c)' /\ indexed' \subseteq stored'
      BY <1>u, <2>1, <2>2, <2>3, <3>1, <3>2, <3>3 DEF CloneSafe, CloneResting
    <3>5. Safe => \A n \in Name : Published(n)'
      BY <1>u, <2>1, <3>2, PublishedGrows
    <3> QED BY <2>1, <2>2, <2>3, <3>1, <3>2, <3>4, <3>5, <1>g DEF t
  <2>4. CASE cl' = [cl EXCEPT ![c].flush = "error"] /\ UNCHANGED indexed
    <3> DEFINE t == [s EXCEPT !.flush = "error"]
    <3>1. /\ t.at = s.at /\ t.put = s.put /\ t.late = s.late /\ t.cached = s.cached /\ t.flush = "error"
          /\ t.found = s.found /\ t.made = s.made /\ t.current = s.current
      BY <1>s DEF CloneState
    <3>2. cl' = [cl EXCEPT ![c] = t] /\ cl'[c] = t /\ Grows
      BY <2>1, <2>4, <1>s DEF Grows
    <3> HIDE DEF t
    <3>3. Safe => CloneSafe(c)' /\ indexed' \subseteq stored'
      BY <1>u, <2>1, <2>2, <2>4, <3>1, <3>2 DEF CloneSafe, CloneResting
    <3>4. Safe => \A n \in Name : Published(n)'
      BY <1>u, <2>1, <3>2, PublishedGrows
    <3> QED BY <2>1, <2>2, <2>4, <3>1, <3>2, <3>3, <3>4, <1>g
  <2> QED BY <1>9, <2>3, <2>4 DEF EndFlush
<1>10. CASE WriteCloned(c)
  <2>1. GoOn /\ s.at = "publish" /\ s.at \notin CloneResting /\ UNCHANGED <<stored, indexed>>
    BY <1>10 DEF WriteCloned, CloneAt, CloneResting
  <2>2. CASE /\ \E v : versionFile' = [versionFile EXCEPT ![s.name] = v]
             /\ standing' = [standing EXCEPT ![s.name] = "unflushed"]
             /\ \E at \in {"local", "wait"} : CloneGoes(c, at)
    <3>1. PICK at \in {"local", "wait"} : CloneGoes(c, at)
      BY <2>2
    <3> DEFINE t == [s EXCEPT !.at = at]
    <3>2. /\ t.at = at /\ t.put = s.put /\ t.late = s.late /\ t.cached = s.cached /\ t.flush = s.flush
          /\ t.found = s.found /\ t.made = s.made /\ t.current = s.current
      BY <1>s DEF CloneState
    <3>3. cl' = [cl EXCEPT ![c] = t] /\ cl'[c] = t /\ Grows
      BY <2>1, <3>1, <1>s DEF Grows, CloneGoes
    <3> HIDE DEF t
    <3>4. Safe => CloneSafe(c)' /\ indexed' \subseteq stored'
      BY <1>u, <2>1, <3>2, <3>3 DEF CloneSafe, CloneResting
    <3>5. ASSUME Safe, NEW n \in Name PROVE Published(n)'
      <4>1. Kept(n, indexed)
        BY <1>u, <3>5 DEF Published
      <4>2. /\ standing'[s.name] = "unflushed"
            /\ n # s.name => versionFile'[n] = versionFile[n] /\ standing'[n] = standing[n]
        BY <2>2, <1>s, <1>f DEF FilesTypeOK
      <4> QED BY <2>1, <4>1, <4>2 DEF Published, Kept
    <3> QED BY <2>1, <3>2, <3>3, <3>4, <3>5, <1>g
  <2>3. CASE CloneAborts(c) /\ UNCHANGED <<versionFile, standing>>
    BY <2>1, <2>3, <1>x DEF files
  <2> QED BY <1>10, <2>2, <2>3 DEF WriteCloned
<1>11. CASE WriteClonedIndex(c)
  <2>1. GoOn /\ s.at \notin CloneResting /\ UNCHANGED files
    BY <1>11 DEF WriteClonedIndex, CloneAt, CloneResting, files
  <2>2. CloneGoes(c, "wait") \/ CloneAborts(c)
    BY <1>11 DEF WriteClonedIndex
  <2> QED BY <2>1, <2>2, <1>m, <1>x
<1>12. CASE WaitFlush(c)
  <2> DEFINE t == [s EXCEPT !.at = "next", !.flush = "none"]
  <2>1. GoOn /\ s.at = "wait" /\ s.at \notin CloneResting
        /\ UNCHANGED <<stored, indexed, versionFile>>
    BY <1>12 DEF WaitFlush, CloneAt, CloneResting, fileVars
  <2>2. CASE /\ s.flush = "ok" /\ cl' = [cl EXCEPT ![c] = t]
             /\ standing' = IF versionFile[s.name] = s.current /\ s.late = {}
                            THEN [standing EXCEPT ![s.name] = "good"] ELSE standing
    <3>1. /\ t.at = "next" /\ t.put = s.put /\ t.late = s.late /\ t.cached = s.cached /\ t.flush = "none"
      BY <1>s DEF CloneState
    <3> HIDE DEF t
    <3>2. cl'[c] = t /\ Grows
      BY <2>1, <2>2, <1>s DEF Grows
    <3>3. Safe => CloneSafe(c)' /\ indexed' \subseteq stored'
      BY <1>u, <2>1, <3>1, <3>2 DEF CloneSafe, CloneResting
    <3>4. ASSUME Safe, NEW n \in Name PROVE Published(n)'
      <4>1. /\ Kept(n, indexed)
            /\ s.late = {} => Needed(s.current) \subseteq Content(indexed)
        BY <1>u, <2>2, <3>4 DEF Published, CloneSafe
      <4>2. standing'[n] = standing[n] \/ (versionFile[n] = s.current /\ s.late = {})
        BY <2>2, <1>s, <1>f DEF FilesTypeOK
      <4> QED BY <2>1, <4>1, <4>2 DEF Published, Kept
    <3> QED BY <2>1, <2>2, <3>2, <3>3, <3>4, <1>g
  <2>3. CASE CloneAborts(c) /\ UNCHANGED standing
    BY <2>1, <2>3, <1>x DEF files
  <2> QED BY <1>12, <2>2, <2>3 DEF WaitFlush
<1>13. CASE CloseClone(c) \/ CrashClone(c)
  <2>1. /\ UNCHANGED <<stored, versionFile, standing>>
        /\ UNCHANGED indexed \/ indexed' = indexed \cup s.late \cup s.put
        /\ s.at \notin CloneResting
    BY <1>13 DEF CloseClone, CrashClone, CloneAt, CloneResting, fileVars
  <2>2. PICK at \in CloneResting : CloneEnds(c, at)
    BY <1>13 DEF CloseClone, CrashClone, CloneResting
  <2> DEFINE t == [IdleClone EXCEPT !.at = at]
  <2>3. t.at = at /\ t.put = {} /\ t.late = {} /\ t.cached = NoFile /\ t.flush = "none"
    BY DEF IdleClone
  <2>4. cl' = [cl EXCEPT ![c] = t] /\ End(c) /\ cl'[c] = t /\ Grows
    BY <2>1, <2>2, <1>s DEF CloneEnds, Grows
  <2> HIDE DEF t
  <2>5. Safe => CloneSafe(c)' /\ indexed' \subseteq stored'
    BY <1>u, <2>1, <2>3, <2>4 DEF CloneSafe, CloneResting
  <2>6. Safe => \A n \in Name : Published(n)'
    BY <1>u, <2>1, <2>4, PublishedGrows
  <2> QED BY <2>1, <2>2, <2>3, <2>4, <2>5, <2>6, <1>g
<1> QED BY <1>1, <1>2, <1>3, <1>4, <1>5, <1>6, <1>7, <1>8, <1>9, <1>10, <1>11, <1>12, <1>13
        DEF CloneStep, CloneProgress
-----------------------------------------------------------------------------
(* Prunes                                                                  *)

(* A version that is kept by some blocks is kept by more.                  *)
LEMMA KeptByMore ==
    ASSUME NEW n, NEW a, NEW b, a \subseteq b, Kept(n, a)
    PROVE  Kept(n, b)
<1>1. Content(a \cap indexed) \subseteq Content(b \cap indexed)
  BY DEF Content
<1> QED BY <1>1 DEF Kept

(* A result that is taken: its blocks are in use, or its error is known.   *)
LEMMA TakenSafe ==
    ASSUME NEW s, NEW t, PruneSafe(s), s.at \in {"next", "drain", "final"},
           NEW r \in s.results, t.results = s.results \ {r},
           t.at = s.at, t.ask = s.ask, t.todo = s.todo, t.jobs = s.jobs, t.index = s.index,
           t.doomed = s.doomed, t.stale = s.stale, s.dropped \subseteq t.dropped,
           s.used \subseteq t.used, r.ok => r.blocks \subseteq t.used,
           s.err => t.err, r.ok \/ t.err \/ r.name \in t.dropped
    PROVE  PruneSafe(t)
<1>1. ASSUME NEW n, Gathered(s, n) PROVE Gathered(t, n)
  BY <1>1, KeptByMore DEF Gathered
<1>2. t.err \/ Gathered(t, r.name)
  BY KeptByMore DEF PruneSafe, Gathered
<1>3. ListOf(t) = ListOf(s) /\ ToDo(t) = ToDo(s)
  BY DEF ListOf, ToDo
<1>4. ASSUME NEW n \in ListOf(t)
      PROVE  t.err \/ n \in ToDo(t) \/ n \in t.jobs \/ (\E x \in t.results : x.name = n)
                \/ Gathered(t, n)
  BY <1>1, <1>2, <1>3 DEF PruneSafe
<1> QED BY <1>4 DEF PruneSafe

(* A goroutine that sends its result: the version is kept by its blocks,   *)
(* is kept by a stale .lsi, or the result is an error.                     *)
LEMMA SentSafe ==
    ASSUME NEW s, NEW t, PruneSafe(s), NEW n \in s.jobs, NEW r, r.name = n,
           r.ok => n \in t.stale \/ Kept(n, r.blocks),
           t.jobs = s.jobs \ {n}, t.results = s.results \cup {r},
           t.index = s.index \/ (t.index = indexed /\ t.index # NoFile),
           t.at = s.at, t.ask = s.ask, t.todo = s.todo, t.doomed = s.doomed,
           t.used = s.used, t.err = s.err, t.dropped = s.dropped, s.stale \subseteq t.stale
    PROVE  PruneSafe(t)
<1>1. ASSUME NEW x, Gathered(s, x) PROVE Gathered(t, x)
  BY <1>1 DEF Gathered
<1>2. s.at \in {"next", "drain", "final"}
  BY DEF PruneSafe
<1>3. ListOf(t) = ListOf(s) /\ ToDo(t) = ToDo(s)
  BY DEF ListOf, ToDo
<1>4. ASSUME NEW x \in ListOf(t)
      PROVE  t.err \/ x \in ToDo(t) \/ x \in t.jobs \/ (\E y \in t.results : y.name = x)
                \/ Gathered(t, x)
  BY <1>1, <1>2, <1>3 DEF PruneSafe
<1>5. \A x \in t.results : x.ok => x.name \in t.stale \/ Kept(x.name, x.blocks)
  BY DEF PruneSafe
<1> QED BY <1>2, <1>4, <1>5 DEF PruneSafe, PruneResting

(* The first version in a list is its head, the others are in its tail.    *)
LEMMA HeadOrTail ==
    ASSUME NEW S, NEW s \in Seq(S), s # <<>>, NEW i \in 1 .. Len(s)
    PROVE  s[i] = Head(s) \/ \E j \in 1 .. Len(Tail(s)) : Tail(s)[j] = s[i]
<1>1. CASE i = 1
  BY <1>1
<1>2. CASE i # 1
  <2>1. i - 1 \in 1 .. Len(Tail(s)) /\ Tail(s)[i - 1] = s[i]
    BY <1>2
  <2> QED BY <2>1
<1> QED BY <1>1, <1>2

(* What a prune holds on to while the files stay.                          *)
LEMMA PruneSafeStays ==
    ASSUME NEW p, NEW t, pr'[p] = t, PruneSafe(t), UNCHANGED <<indexed, versionFile, standing>>
    PROVE  PruneSafe(pr[p])'
<1>1. \A n, blocks : Kept(n, blocks) => Kept(n, blocks)'
  BY DEF Kept
<1>2. \A n : Gathered(t, n) => Gathered(pr[p], n)'
  BY <1>1 DEF Gathered
<1>3. ListOf(pr[p])' = ListOf(t) /\ ToDo(pr[p])' = ToDo(t)
  BY DEF ListOf, ToDo
<1> QED BY <1>1, <1>2, <1>3 DEF PruneSafe

(* What a prune that ended, or did not start, needs to know is nothing.    *)
LEMMA RestingPrune ==
    \A at \in PruneResting : PruneSafe([IdlePrune EXCEPT !.at = at])
<1> SUFFICES ASSUME NEW at \in PruneResting PROVE PruneSafe([IdlePrune EXCEPT !.at = at])
  OBVIOUS
<1> DEFINE t == [IdlePrune EXCEPT !.at = at]
<1>1. t.at = at /\ t.jobs = {} /\ t.results = {} /\ t.doomed = {}
  BY DEF IdlePrune
<1> HIDE DEF t
<1>2. PruneSafe(t)
  BY <1>1 DEF PruneSafe, PruneResting
<1> QED BY <1>2 DEF t

LEMMA PruneKeeps ==
    ASSUME TypesInv, SafeInv, NEW p \in Pruner, PruneStep(p), UNCHANGED <<up, cl>>
    PROVE  SafeInv'
<1> DEFINE s == pr[p]
           files == <<stored, indexed, versionFile, standing>>
<1>s. /\ s \in PruneState /\ pr = [q \in Pruner |-> pr[q]] /\ PoolOK(s)
      /\ s.at = "next" => s.todo # <<>>
      /\ RunTypeOK /\ FilesTypeOK
      /\ Roles /\ (~overlapped => Safe) /\ (~overlapped => Alone)
  BY DEF TypesInv, PruneInv, PruneOK, StoreTypeOK, SafeInv, Roles
<1>f. /\ s.at \in PrunePhase /\ s.todo \in Seq(Name)
      /\ s.jobs \in SUBSET Name /\ s.results \in SUBSET Result
      /\ s.used \in SUBSET Block /\ s.err \in BOOLEAN
      /\ s.index \in {NoFile} \cup SUBSET Block
      /\ s.dropped \in SUBSET Name /\ s.stale \in SUBSET Name
  BY <1>s, PruneFields
<1>u. Safe => PruneSafe(s) /\ indexed \subseteq stored /\ \A n \in Name : Published(n)
  BY DEF Safe
<1>i. indexed # NoFile
  BY <1>s, VersionStoreAssumption DEF FilesTypeOK
<1>g. ASSUME NEW t, pr' = [pr EXCEPT ![p] = t],
             \/ Begin(p, "prune")
             \/ End(p) /\ t.at \in PruneResting
             \/ GoOn /\ (s.at \notin PruneResting \/ t.at = s.at),
             s.at \notin PruneResting \/ UNCHANGED files,
             Safe => /\ indexed' \subseteq stored'
                     /\ PruneSafe(pr[p])' /\ \A n \in Name : Published(n)'
      PROVE  SafeInv'
  <2>1. pr'[p] = t /\ \A q \in Pruner \ {p} : pr'[q] = pr[q]
    BY <1>g, <1>s
  <2>2. Roles' /\ (~overlapped' => ~overlapped)
    <3>1. CASE Begin(p, "prune")
      <4>1. running \subseteq running' /\ <<p, "prune">> \in running' /\ (~overlapped' => ~overlapped /\ Alone')
        BY <1>s, <3>1, RolesBegin DEF Role
      <4> QED BY <1>g, <1>s, <2>1, <4>1 DEF Roles, RoleOf
    <3>2. CASE End(p) /\ t.at \in PruneResting
      <4>1. /\ \A r \in running : r[1] # p => r \in running'
            /\ overlapped' = overlapped /\ (~overlapped' => Alone')
        BY <1>s, <3>2, RolesEnd
      <4>2. /\ \A q \in Pruner \ {p} : \A x : <<q, x>> \in running => <<q, x>> \in running'
            /\ \A w \in Uploader \cup Cloner : \A x : <<w, x>> \in running => <<w, x>> \in running'
        BY <4>1, ProcessAssumption
      <4> QED BY <1>s, <2>1, <3>2, <4>1, <4>2 DEF Roles, RoleOf
    <3>3. CASE GoOn /\ (s.at \notin PruneResting \/ t.at = s.at)
      BY <1>s, <2>1, <3>3 DEF Roles, RoleOf, GoOn, runVars, Alone
    <3> QED BY <1>g, <3>1, <3>2, <3>3
  <2>3. ASSUME ~overlapped' PROVE Safe'
    <3>1. Safe /\ ~overlapped
      BY <1>s, <2>2, <2>3
    <3>2. CASE UNCHANGED files
      <4>1. Grows
        BY <3>2 DEF Grows
      <4>2. \A w \in Uploader : UploadSafe(w)'
        BY <3>1, <4>1, UploadGrows DEF Safe
      <4>3. \A c \in Cloner : CloneSafe(c)'
        BY <3>1, <4>1, CloneGrows DEF Safe
      <4>4. \A q \in Pruner : PruneSafe(pr[q])'
        BY <1>g, <2>1, <3>1, <3>2, PruneWaits DEF Safe
      <4> QED BY <1>g, <3>1, <4>2, <4>3, <4>4 DEF Safe
    <3>3. CASE s.at \notin PruneResting
      <4>1. /\ \A w \in Uploader : up[w].at \in Resting \/ up[w].kind = "index"
            /\ \A c \in Cloner : cl[c].at \in CloneResting
            /\ \A q \in Pruner \ {p} : pr[q].at \in PruneResting
        BY <1>s, <3>1, <3>3, OnlyPrune
      <4>2. \A w \in Uploader : UploadSafe(w)'
        BY <3>1, <4>1 DEF Safe, UploadSafe, Resting
      <4>3. \A c \in Cloner : CloneSafe(c)'
        BY <3>1, <4>1 DEF Safe, CloneSafe, CloneResting
      <4>4. \A q \in Pruner : PruneSafe(pr[q])'
        BY <1>g, <2>1, <3>1, <4>1, PruneWaits DEF Safe
      <4> QED BY <1>g, <3>1, <4>2, <4>3, <4>4 DEF Safe
    <3> QED BY <1>g, <3>2, <3>3
  <2> QED BY <2>2, <2>3 DEF SafeInv
<1>q. ASSUME NEW t, pr' = [pr EXCEPT ![p] = t],
             Begin(p, "prune") \/ (GoOn /\ (s.at \notin PruneResting \/ t.at = s.at)),
             UNCHANGED files, Safe => PruneSafe(t)
      PROVE  SafeInv'
  <2>1. pr'[p] = t
    BY <1>q, <1>s
  <2>2. Safe => PruneSafe(pr[p])'
    BY <1>q, <2>1, PruneSafeStays
  <2>3. Safe => indexed' \subseteq stored' /\ \A n \in Name : Published(n)'
    BY <1>u, <1>q DEF Published, Kept
  <2> HIDE DEF files
  <2> QED BY <1>g, <1>q, <2>2, <2>3
<1>e. ASSUME NEW at \in PruneResting, PruneEnds(p, at), s.at \notin PruneResting,
             Safe => indexed' \subseteq stored' /\ \A n \in Name : Published(n)'
      PROVE  SafeInv'
  <2> DEFINE t == [IdlePrune EXCEPT !.at = at]
  <2>1. t.at = at /\ t.jobs = {} /\ t.results = {} /\ t.doomed = {}
    BY DEF IdlePrune
  <2>2. pr' = [pr EXCEPT ![p] = t] /\ End(p)
    BY <1>e DEF PruneEnds
  <2> HIDE DEF t
  <2>3. pr'[p] = t
    BY <2>2, <1>s
  <2>4. PruneSafe(pr[p])'
    BY <2>1, <2>3 DEF PruneSafe, PruneResting
  <2> QED BY <2>1, <2>2, <2>4, <1>e, <1>g
<1>x. ASSUME NEW at \in PruneResting, PruneEnds(p, at), s.at \notin PruneResting, UNCHANGED files
      PROVE  SafeInv'
  BY <1>e, <1>x, <1>u DEF Published, Kept
<1>r. {"done", "failed"} \subseteq PruneResting
  BY DEF PruneResting
<1> HIDE DEF files
<1>1. CASE StartPrune(p)
  <2>1. PICK r \in Prune :
           /\ Begin(p, "prune")
           /\ pr' = [pr EXCEPT ![p] = [IdlePrune EXCEPT
                   !.ask = r, !.todo = r.list,
                   !.at = CASE r.kind = "blocks" -> "scan"
                            [] r.kind = "index" -> "index"
                            [] OTHER -> IF r.list = <<>> THEN "final" ELSE "next"]]
           /\ UNCHANGED fileVars /\ UNCHANGED standing
    BY <1>1 DEF StartPrune
  <2> DEFINE at == CASE r.kind = "blocks" -> "scan"
                     [] r.kind = "index" -> "index"
                     [] OTHER -> IF r.list = <<>> THEN "final" ELSE "next"
             t == [IdlePrune EXCEPT !.ask = r, !.todo = r.list, !.at = at]
  <2>2. /\ at \in {"scan", "index", "final", "next"}
        /\ at = "final" => r.list = <<>>
        /\ r.kind = "index" => at = "index"
    OBVIOUS
  <2>3. /\ t.at = at /\ t.ask = r /\ t.todo = r.list /\ t.jobs = {} /\ t.results = {}
        /\ t.index = NoFile /\ t.doomed = {}
    <3> HIDE DEF at
    <3> QED BY DEF IdlePrune
  <2>4. pr' = [pr EXCEPT ![p] = t]
    BY <2>1
  <2> HIDE DEF at, t
  <2>5. ListOf(t) = ToDo(t)
    BY <2>3 DEF ListOf, ToDo
  <2>6. PruneSafe(t)
    BY <2>2, <2>3, <2>5 DEF PruneSafe, PruneResting
  <2>7. UNCHANGED files
    BY <2>1 DEF files, fileVars
  <2> QED BY <2>1, <2>4, <2>6, <2>7, <1>q
<1>2. CASE ReadPrunedIndex(p)
  <2> DEFINE at == IF s.todo = <<>> THEN "final" ELSE "next"
             t == [s EXCEPT !.index = indexed, !.at = at]
  <2>1. s.at = "index" /\ s.at \notin PruneResting /\ UNCHANGED files
    BY <1>2 DEF ReadPrunedIndex, PruneAt, PruneResting, files, fileVars
  <2>2. at \in {"final", "next"} /\ (at = "final" => s.todo = <<>>)
    OBVIOUS
  <2>3. /\ t.at = at /\ t.ask = s.ask /\ t.todo = s.todo /\ t.jobs = s.jobs
        /\ t.results = s.results /\ t.used = s.used /\ t.err = s.err /\ t.index = indexed
        /\ t.doomed = s.doomed /\ t.dropped = s.dropped /\ t.stale = s.stale
    <3> HIDE DEF at
    <3> QED BY <1>s DEF PruneState
  <2>4. (pr' = [pr EXCEPT ![p] = t] /\ GoOn) \/ PruneEnds(p, "failed")
    BY <1>2 DEF ReadPrunedIndex
  <2> HIDE DEF at, t
  <2>5. ListOf(t) = ListOf(s) /\ ToDo(t) = ToDo(s) /\ \A n : Gathered(t, n) <=> Gathered(s, n)
    BY <2>3 DEF ListOf, ToDo, Gathered
  <2>6. Safe => PruneSafe(t)
    BY <1>u, <1>i, <2>1, <2>2, <2>3, <2>5 DEF PruneSafe, PruneResting
  <2> QED BY <2>1, <2>4, <2>6, <1>q, <1>x, <1>r
<1>3. CASE TakeWhenFull(p)
  <2>1. s.at = "next" /\ s.at \notin PruneResting /\ UNCHANGED files /\ GoOn
    BY <1>3 DEF TakeWhenFull, PruneAt, PruneResting, files, fileVars
  <2>2. PICK r \in s.results :
           pr' = [pr EXCEPT ![p] = [s EXCEPT
               !.results = s.results \ {r}, !.used = Used(p, r),
               !.dropped = IF r.ok THEN s.dropped ELSE s.dropped \cup {r.name}]]
    BY <1>3, Zenon DEF TakeWhenFull
  <2> DEFINE used == Used(p, r)
             dropped == IF r.ok THEN s.dropped ELSE s.dropped \cup {r.name}
             t == [s EXCEPT !.results = s.results \ {r}, !.used = used, !.dropped = dropped]
  <2>3. s.used \subseteq used /\ (r.ok => r.blocks \subseteq used)
    BY DEF Used
  <2>4. s.dropped \subseteq dropped /\ (r.ok \/ r.name \in dropped)
    OBVIOUS
  <2>5. /\ t.at = s.at /\ t.ask = s.ask /\ t.todo = s.todo /\ t.jobs = s.jobs
        /\ t.results = s.results \ {r} /\ t.used = used /\ t.err = s.err /\ t.index = s.index
        /\ t.doomed = s.doomed /\ t.dropped = dropped /\ t.stale = s.stale
    <3> HIDE DEF used, dropped
    <3> QED BY <1>s DEF PruneState
  <2>6. pr' = [pr EXCEPT ![p] = t]
    BY <2>2
  <2> HIDE DEF used, dropped, t
  <2>7. Safe => PruneSafe(t)
    <3> SUFFICES ASSUME PruneSafe(s) PROVE PruneSafe(t)
      BY <1>u
    <3> HIDE DEF s
    <3> QED BY <2>1, <2>3, <2>4, <2>5, TakenSafe
  <2> QED BY <2>1, <2>6, <2>7, <1>q
<1>4. CASE TakeReady(p) \/ TakeLast(p)
  <2>1. s.at \in {"drain", "final"} /\ s.at \notin PruneResting /\ UNCHANGED files /\ GoOn
    BY <1>4 DEF TakeReady, TakeLast, PruneAt, PruneResting, files, fileVars
  <2>2. PICK r \in s.results :
           pr' = [pr EXCEPT ![p] = [s EXCEPT
               !.results = s.results \ {r}, !.used = Used(p, r), !.err = s.err \/ ~r.ok]]
    BY <1>4, Zenon DEF TakeReady, TakeLast
  <2> DEFINE used == Used(p, r)
             err == s.err \/ ~r.ok
             t == [s EXCEPT !.results = s.results \ {r}, !.used = used, !.err = err]
  <2>3. s.used \subseteq used /\ (r.ok => r.blocks \subseteq used)
    BY DEF Used
  <2>4. (s.err => err) /\ (r.ok \/ err)
    BY Zenon
  <2>5. /\ t.at = s.at /\ t.ask = s.ask /\ t.todo = s.todo /\ t.jobs = s.jobs
        /\ t.results = s.results \ {r} /\ t.used = used /\ t.err = err /\ t.index = s.index
        /\ t.doomed = s.doomed /\ t.dropped = s.dropped /\ t.stale = s.stale
    <3> HIDE DEF used, err
    <3> QED BY <1>s DEF PruneState
  <2>6. pr' = [pr EXCEPT ![p] = t]
    BY <2>2, Zenon
  <2> HIDE DEF used, err, t
  <2>7. Safe => PruneSafe(t)
    <3> SUFFICES ASSUME PruneSafe(s) PROVE PruneSafe(t)
      BY <1>u
    <3> HIDE DEF s
    <3> QED BY <2>1, <2>3, <2>4, <2>5, TakenSafe
  <2> QED BY <2>1, <2>6, <2>7, <1>q
<1>5. CASE LaunchPruneOne(p)
  <2> DEFINE t == [s EXCEPT !.at = "drain", !.jobs = s.jobs \cup {Head(s.todo)},
                            !.todo = Tail(s.todo)]
  <2>1. /\ s.at = "next" /\ s.at \notin PruneResting /\ UNCHANGED files /\ GoOn
        /\ pr' = [pr EXCEPT ![p] = t]
    BY <1>5 DEF LaunchPruneOne, PruneAt, PruneResting, files, fileVars
  <2>2. /\ t.at = "drain" /\ t.ask = s.ask /\ t.todo = Tail(s.todo)
        /\ t.jobs = s.jobs \cup {Head(s.todo)}
        /\ t.results = s.results /\ t.used = s.used /\ t.err = s.err /\ t.index = s.index
        /\ t.doomed = s.doomed /\ t.dropped = s.dropped /\ t.stale = s.stale
    BY <1>s DEF PruneState
  <2> HIDE DEF t
  <2>3. ListOf(t) = ListOf(s) /\ \A n : Gathered(t, n) <=> Gathered(s, n)
    BY <2>2 DEF ListOf, Gathered
  <2>4. \A n \in ToDo(s) : n \in ToDo(t) \/ n \in t.jobs
    BY <1>s, <1>f, <2>1, <2>2, HeadOrTail DEF ToDo
  <2>5. Safe => PruneSafe(t)
    BY <1>u, <2>1, <2>2, <2>3, <2>4 DEF PruneSafe, PruneResting
  <2> QED BY <2>1, <2>5, <1>q
<1>6. CASE NoneReady(p)
  <2> DEFINE at == IF s.err \/ s.todo = <<>> THEN "final" ELSE "next"
             t == [s EXCEPT !.at = at]
  <2>1. s.at = "drain" /\ s.at \notin PruneResting /\ UNCHANGED files /\ GoOn
    BY <1>6 DEF NoneReady, PruneAt, PruneResting, files, fileVars
  <2>2. pr' = [pr EXCEPT ![p] = t]
    BY <1>6, Zenon DEF NoneReady, PruneGoes
  <2>3. at \in {"final", "next"} /\ (at = "final" => s.err \/ s.todo = <<>>)
    BY Zenon
  <2>4. /\ t.at = at /\ t.ask = s.ask /\ t.todo = s.todo /\ t.jobs = s.jobs
        /\ t.results = s.results /\ t.used = s.used /\ t.err = s.err /\ t.index = s.index
        /\ t.doomed = s.doomed /\ t.dropped = s.dropped /\ t.stale = s.stale
    <3> HIDE DEF at
    <3> QED BY <1>s DEF PruneState
  <2> HIDE DEF at, t
  <2>5. ListOf(t) = ListOf(s) /\ ToDo(t) = ToDo(s) /\ \A n : Gathered(t, n) <=> Gathered(s, n)
    BY <2>4 DEF ListOf, ToDo, Gathered
  <2>6. Safe => PruneSafe(t)
    BY <1>u, <2>1, <2>3, <2>4, <2>5 DEF PruneSafe, PruneResting
  <2> QED BY <2>1, <2>2, <2>6, <1>q
<1>7. CASE EndGather(p)
  <2> DEFINE t == [s EXCEPT !.at = "prune"]
  <2>1. s.at = "final" /\ s.at \notin PruneResting /\ UNCHANGED files /\ Active(p) = 0
    BY <1>7 DEF EndGather, PruneAt, PruneResting, files, fileVars
  <2>2. \/ PruneEnds(p, "failed") \/ PruneEnds(p, "done")
        \/ ~s.err /\ GoOn /\ pr' = [pr EXCEPT ![p] = t]
    BY <1>7, Zenon DEF EndGather, GatherFails, PruneGoes
  <2>3. s.jobs = {} /\ s.results = {}
    <3>1. /\ IsFiniteSet(s.jobs) /\ Cardinality(s.jobs) \in Nat
          /\ IsFiniteSet(s.results) /\ Cardinality(s.results) \in Nat
      BY <1>s, FS_CardinalityType DEF PoolOK
    <3>2. Cardinality(s.jobs) = 0 /\ Cardinality(s.results) = 0
      BY <2>1, <3>1 DEF Active
    <3> QED BY <3>1, <3>2, FS_EmptySet
  <2>4. /\ t.at = "prune" /\ t.ask = s.ask /\ t.todo = s.todo /\ t.jobs = s.jobs
        /\ t.results = s.results /\ t.used = s.used /\ t.err = s.err /\ t.index = s.index
        /\ t.doomed = s.doomed /\ t.dropped = s.dropped /\ t.stale = s.stale
    BY <1>s DEF PruneState
  <2> HIDE DEF t
  <2>5. ListOf(t) = ListOf(s) /\ \A n : Gathered(t, n) <=> Gathered(s, n)
    BY <2>4 DEF ListOf, Gathered
  <2>6. s.todo = <<>> => ToDo(s) = {}
    BY DEF ToDo
  <2>7. Safe /\ ~s.err => PruneSafe(t)
    BY <1>u, <2>1, <2>3, <2>4, <2>5, <2>6 DEF PruneSafe, PruneResting
  <2> QED BY <2>1, <2>2, <2>7, <1>q, <1>x, <1>r
<1>8. ASSUME NEW n \in Name, PruneOneByLocalIndex(p, n) PROVE SafeInv'
  <2> DEFINE v == versionFile[n]
             lsi == localIndex[n]
             ok == Validates(lsi, v)
             stale == IF Validates(lsi \cap indexed, v) THEN s.stale ELSE s.stale \cup {n}
             r == [name |-> n, ok |-> ok, blocks |-> lsi]
             t == [s EXCEPT !.jobs = s.jobs \ {n}, !.results = s.results \cup {r}, !.stale = stale]
  <2>1. n \in s.jobs /\ UNCHANGED files /\ GoOn
    BY <1>8 DEF PruneOneByLocalIndex, files, fileVars
  <2>2. pr' = [pr EXCEPT ![p] = t]
    <3>1. pr' = [pr EXCEPT ![p] = [Sends(p, n, ok, lsi) EXCEPT !.stale = stale]]
      <4>1. Sends(p, n, ok, lsi).stale = s.stale
        BY <1>s DEF Sends, PruneState
      <4> QED BY <1>8, <4>1, Zenon DEF PruneOneByLocalIndex
    <3>2. Sends(p, n, ok, lsi) = [s EXCEPT !.jobs = s.jobs \ {n}, !.results = s.results \cup {r}]
      BY Zenon DEF Sends
    <3>3. [[s EXCEPT !.jobs = s.jobs \ {n}, !.results = s.results \cup {r}] EXCEPT !.stale = stale] = t
      <4> HIDE DEF r, stale
      <4> QED OBVIOUS
    <3> HIDE DEF r, stale, ok, t
    <3> QED BY <3>1, <3>2, <3>3
  <2>3. r.name = n /\ r.blocks = lsi
    OBVIOUS
  <2>4. n \in stale \/ Kept(n, lsi)
    BY DEF Kept, Validates
  <2>5. s.stale \subseteq stale
    OBVIOUS
  <2>6. /\ t.at = s.at /\ t.ask = s.ask /\ t.todo = s.todo /\ t.jobs = s.jobs \ {n}
        /\ t.results = s.results \cup {r} /\ t.used = s.used /\ t.err = s.err
        /\ t.index = s.index /\ t.doomed = s.doomed /\ t.dropped = s.dropped
        /\ t.stale = stale
    <3> HIDE DEF r, stale
    <3> QED BY <1>s DEF PruneState
  <2> HIDE DEF t, r, stale, lsi
  <2>7. Safe => PruneSafe(t)
    <3> SUFFICES ASSUME PruneSafe(s) PROVE PruneSafe(t)
      BY <1>u
    <3> HIDE DEF s
    <3> QED BY <2>1, <2>3, <2>4, <2>5, <2>6, SentSafe
  <2> QED BY <2>1, <2>2, <2>6, <2>7, <1>q
<1>9. ASSUME NEW n \in Name, PruneOneByStore(p, n) PROVE SafeInv'
  <2> DEFINE v == versionFile[n]
             index == IF s.index = NoFile THEN indexed ELSE s.index
  <2>1. n \in s.jobs /\ UNCHANGED files /\ GoOn
    BY <1>9 DEF PruneOneByStore, files
  <2>2. PICK ok, blocks, kept :
           /\ kept \in Existing(index, Needed(v))
           /\ pr' = [pr EXCEPT ![p] = [Sends(p, n, ok, blocks) EXCEPT !.index = index]]
           /\ (ok = TRUE /\ blocks = kept)
                 \/ (blocks = {} /\ s.ask.validate /\ ~Validates(kept, v))
    BY <1>9, Zenon DEF PruneOneByStore
  <2> DEFINE r == [name |-> n, ok |-> ok, blocks |-> blocks]
             t == [s EXCEPT !.jobs = s.jobs \ {n}, !.results = s.results \cup {r}, !.index = index]
  <2>3. pr' = [pr EXCEPT ![p] = t]
    <3>1. Sends(p, n, ok, blocks) = [s EXCEPT !.jobs = s.jobs \ {n}, !.results = s.results \cup {r}]
      BY Zenon DEF Sends
    <3>2. [[s EXCEPT !.jobs = s.jobs \ {n}, !.results = s.results \cup {r}] EXCEPT !.index = index] = t
      <4> HIDE DEF r, index
      <4> QED OBVIOUS
    <3> HIDE DEF r, index, t
    <3> QED BY <2>2, <3>1, <3>2
  <2>4. /\ t.at = s.at /\ t.ask = s.ask /\ t.todo = s.todo /\ t.jobs = s.jobs \ {n}
        /\ t.results = s.results \cup {r} /\ t.used = s.used /\ t.err = s.err
        /\ t.index = index /\ t.doomed = s.doomed /\ t.dropped = s.dropped
        /\ t.stale = s.stale
    <3> HIDE DEF r, index
    <3> QED BY <1>s DEF PruneState
  <2>5. r.name = n /\ r.blocks = blocks
    OBVIOUS
  <2>6. Safe => index = indexed /\ s.at \in {"next", "drain", "final"}
    BY <1>u, <2>1 DEF PruneSafe, PruneResting
  <2>7. kept \in Existing(index, Needed(v))
    BY <2>2
  <2> HIDE DEF t, r, index
  <2>8. Safe => Kept(n, blocks)
    <3> SUFFICES ASSUME Safe, v # NoFile, standing[n] = "good"
                 PROVE  Needed(v) \subseteq Content(blocks \cap indexed)
      BY DEF Kept
    <3>1. Needed(v) \subseteq Content(indexed)
      <4>1. indexed \cap indexed = indexed
        OBVIOUS
      <4> QED BY <1>u, <4>1 DEF Published, Kept
    <3>2. kept \subseteq indexed /\ Content(indexed) \cap Needed(v) \subseteq Content(kept)
      BY <2>6, <2>7 DEF Existing
    <3>3. Needed(v) \subseteq Content(kept) /\ kept \cap indexed = kept
      BY <3>1, <3>2
    <3>4. blocks = kept
      BY <2>2, <3>3 DEF Validates
    <3> QED BY <3>3, <3>4
  <2>9. Safe => PruneSafe(t)
    <3> SUFFICES ASSUME Safe, PruneSafe(s) PROVE PruneSafe(t)
      BY <1>u
    <3> HIDE DEF s
    <3> QED BY <2>1, <2>4, <2>5, <2>6, <2>8, <1>i, SentSafe
  <2> QED BY <2>1, <2>3, <2>4, <2>9, <1>q
<1>10. ASSUME NEW n \in Name, PruneOneFails(p, n) PROVE SafeInv'
  <2> DEFINE r == [name |-> n, ok |-> FALSE, blocks |-> {}]
             t == [s EXCEPT !.jobs = s.jobs \ {n}, !.results = s.results \cup {r}]
  <2>1. n \in s.jobs /\ UNCHANGED files /\ GoOn /\ pr' = [pr EXCEPT ![p] = t]
    BY <1>10 DEF PruneOneFails, Sends, files, fileVars
  <2>2. r.name = n /\ ~r.ok
    OBVIOUS
  <2>3. /\ t.at = s.at /\ t.ask = s.ask /\ t.todo = s.todo /\ t.jobs = s.jobs \ {n}
        /\ t.results = s.results \cup {r} /\ t.used = s.used /\ t.err = s.err
        /\ t.index = s.index /\ t.doomed = s.doomed /\ t.dropped = s.dropped
        /\ t.stale = s.stale
    BY <1>s DEF PruneState
  <2> HIDE DEF t, r
  <2>4. Safe => PruneSafe(t)
    <3> SUFFICES ASSUME PruneSafe(s) PROVE PruneSafe(t)
      BY <1>u
    <3> HIDE DEF s
    <3> QED BY <2>1, <2>2, <2>3, SentSafe
  <2> QED BY <2>1, <2>3, <2>4, <1>q
<1>j. ASSUME NEW index, s.at = "prune", indexed' = index \cap s.used, standing' = Judged(p),
             Safe => index = indexed, UNCHANGED <<stored, versionFile>>
      PROVE  Safe => indexed' \subseteq stored' /\ \A n \in Name : Published(n)'
  <2> SUFFICES ASSUME Safe PROVE indexed' \subseteq stored' /\ \A n \in Name : Published(n)'
    OBVIOUS
  <2>1. indexed' \subseteq stored'
    BY <1>j, <1>u
  <2>2. ASSUME NEW n \in Name, versionFile[n] # NoFile, standing'[n] = "good"
        PROVE  Needed(versionFile[n]) \subseteq Content(indexed')
    <3>1. n \notin s.dropped /\ n \notin s.stale /\ n \in ListOf(s) /\ standing[n] = "good"
      BY <1>j, <2>2 DEF Judged, ListOf
    <3>2. Kept(n, s.used)
      BY <1>j, <1>u, <3>1 DEF PruneSafe, Gathered
    <3>3. s.used \cap indexed = indexed'
      BY <1>j
    <3> QED BY <2>2, <3>1, <3>2, <3>3 DEF Kept
  <2>3. indexed' \cap indexed' = indexed'
    OBVIOUS
  <2> QED BY <1>j, <2>1, <2>2, <2>3 DEF Published, Kept
<1>11. CASE PruneIndex(p)
  <2>1. s.at = "prune" /\ s.at \notin PruneResting /\ GoOn /\ UNCHANGED <<stored, versionFile>>
    BY <1>11 DEF PruneIndex, PruneAt, PruneResting
  <2>2. CASE /\ indexed' = indexed \cap s.used
             /\ standing' = Judged(p)
             /\ pr' = [pr EXCEPT ![p] = [s EXCEPT !.at = "delete", !.doomed = indexed \ s.used]]
    <3> DEFINE t == [s EXCEPT !.at = "delete", !.doomed = indexed \ s.used]
    <3>1. /\ t.at = "delete" /\ t.ask = s.ask /\ t.doomed = indexed \ s.used
          /\ t.jobs = s.jobs /\ t.results = s.results /\ t.index = s.index
      BY <1>s DEF PruneState
    <3>2. pr' = [pr EXCEPT ![p] = t]
      BY <2>2
    <3> HIDE DEF t
    <3>3. pr'[p] = t
      BY <3>2, <1>s
    <3>4. Safe => PruneSafe(pr[p])'
      BY <1>u, <2>1, <2>2, <3>1, <3>3 DEF PruneSafe, PruneResting
    <3>5. Safe => indexed' \subseteq stored' /\ \A n \in Name : Published(n)'
      BY <2>1, <2>2, <1>j
    <3> QED BY <2>1, <3>2, <3>4, <3>5, <1>g
  <2>3. CASE PruneGoes(p, "delete") /\ UNCHANGED <<indexed, standing>>
    <3> DEFINE t == [s EXCEPT !.at = "delete"]
    <3>1. /\ t.at = "delete" /\ t.ask = s.ask /\ t.doomed = s.doomed
          /\ t.jobs = s.jobs /\ t.results = s.results /\ t.index = s.index
      BY <1>s DEF PruneState
    <3>2. pr' = [pr EXCEPT ![p] = t]
      BY <2>3 DEF PruneGoes
    <3> HIDE DEF t
    <3>3. Safe => PruneSafe(t)
      BY <1>u, <2>1, <3>1 DEF PruneSafe, PruneResting
    <3> QED BY <2>1, <2>3, <3>2, <3>3, <1>q DEF files
  <2> QED BY <1>11, <2>2, <2>3 DEF PruneIndex
<1>12. ASSUME NEW b \in Block, DeletePruned(p, b) \/ DeleteUnused(p, b) PROVE SafeInv'
  <2>1. /\ s.at = "delete" /\ s.at \notin PruneResting /\ b \in s.doomed /\ GoOn
        /\ stored' = stored \ {b} \/ UNCHANGED stored
        /\ UNCHANGED <<indexed, versionFile, standing>>
    BY <1>12 DEF DeletePruned, DeleteUnused, PruneAt, PruneResting
  <2>2. PICK err :
           pr' = [pr EXCEPT ![p] = [s EXCEPT !.doomed = s.doomed \ {b}, !.err = err]]
    <3>1. [s EXCEPT !.doomed = s.doomed \ {b}] = [s EXCEPT !.doomed = s.doomed \ {b}, !.err = s.err]
      BY <1>s DEF PruneState
    <3> QED BY <1>12, <3>1 DEF DeletePruned, DeleteUnused
  <2> DEFINE t == [s EXCEPT !.doomed = s.doomed \ {b}, !.err = err]
  <2>3. /\ t.at = s.at /\ t.ask = s.ask /\ t.doomed = s.doomed \ {b}
        /\ t.jobs = s.jobs /\ t.results = s.results /\ t.index = s.index
    BY <1>s DEF PruneState
  <2>4. pr' = [pr EXCEPT ![p] = t]
    BY <2>2
  <2> HIDE DEF t
  <2>5. Safe => PruneSafe(t)
    BY <1>u, <2>1, <2>3 DEF PruneSafe, PruneResting
  <2>6. Safe => PruneSafe(pr[p])'
    <3>1. pr'[p] = t
      BY <2>4, <1>s
    <3> QED BY <2>1, <2>5, <3>1, PruneSafeStays
  <2>7. Safe => indexed' \subseteq stored' /\ \A n \in Name : Published(n)'
    <3>1. Safe => b \notin indexed
      BY <1>u, <2>1 DEF PruneSafe
    <3> QED BY <1>u, <2>1, <3>1 DEF Published, Kept
  <2> QED BY <2>1, <2>4, <2>6, <2>7, <1>g
<1>13. CASE EndPrune(p) \/ EndDelete(p) \/ CrashPrune(p)
  <2>1. s.at \notin PruneResting /\ UNCHANGED files
    BY <1>13 DEF EndPrune, EndDelete, CrashPrune, PruneAt, PruneResting, files, fileVars
  <2>2. PICK at \in PruneResting : PruneEnds(p, at)
    BY <1>13, <1>r DEF EndPrune, EndDelete, CrashPrune
  <2> QED BY <2>1, <2>2, <1>x
<1>14. CASE WritePrunedIndex(p)
  <2>1. /\ s.at = "prune" /\ s.at \notin PruneResting /\ s.ask.kind = "index"
        /\ UNCHANGED <<stored, versionFile>>
    BY <1>14 DEF WritePrunedIndex, PruneAt, PruneResting
  <2>2. Safe => s.index = indexed
    BY <1>u, <2>1 DEF PruneSafe, PruneResting
  <2>3. CASE indexed' = s.index \cap s.used /\ standing' = Judged(p) /\ PruneEnds(p, "done")
    <3>1. Safe => indexed' \subseteq stored' /\ \A n \in Name : Published(n)'
      BY <2>1, <2>2, <2>3, <1>j
    <3> QED BY <2>1, <2>3, <3>1, <1>e, <1>r
  <2>4. CASE PruneEnds(p, "failed") /\ UNCHANGED <<indexed, standing>>
    BY <2>1, <2>4, <1>x, <1>r DEF files
  <2> QED BY <1>14, <2>3, <2>4 DEF WritePrunedIndex
<1>15. CASE ReadIndexFile(p)
  <2>1. s.at = "scan" /\ s.at \notin PruneResting /\ UNCHANGED files /\ GoOn
    BY <1>15 DEF ReadIndexFile, PruneAt, PruneResting, files, fileVars
  <2>2. PICK index, err :
           /\ pr' = [pr EXCEPT ![p] = [s EXCEPT !.index = index, !.err = err]]
           /\ index \in {s.index, indexed}
    <3>1. /\ [s EXCEPT !.index = indexed] = [s EXCEPT !.index = indexed, !.err = s.err]
          /\ [s EXCEPT !.err = TRUE] = [s EXCEPT !.index = s.index, !.err = TRUE]
      BY <1>s DEF PruneState
    <3> QED BY <1>15, <3>1 DEF ReadIndexFile
  <2> DEFINE t == [s EXCEPT !.index = index, !.err = err]
  <2>3. /\ t.at = s.at /\ t.ask = s.ask /\ t.doomed = s.doomed
        /\ t.jobs = s.jobs /\ t.results = s.results /\ t.index = index
    BY <1>s DEF PruneState
  <2>4. pr' = [pr EXCEPT ![p] = t]
    BY <2>2
  <2> HIDE DEF t
  <2>5. Safe => PruneSafe(t)
    BY <1>u, <1>i, <2>1, <2>2, <2>3 DEF PruneSafe, PruneResting
  <2> QED BY <2>1, <2>4, <2>5, <1>q
<1>16. CASE ListBlockFiles(p)
  <2> DEFINE t == [s EXCEPT !.listed = stored]
  <2>1. s.at = "scan" /\ s.at \notin PruneResting /\ UNCHANGED files
    BY <1>16 DEF ListBlockFiles, PruneAt, PruneResting, files, fileVars
  <2>2. (pr' = [pr EXCEPT ![p] = t] /\ GoOn) \/ PruneEnds(p, "failed")
    BY <1>16 DEF ListBlockFiles
  <2>3. /\ t.at = s.at /\ t.ask = s.ask /\ t.doomed = s.doomed
        /\ t.jobs = s.jobs /\ t.results = s.results /\ t.index = s.index
    BY <1>s DEF PruneState
  <2> HIDE DEF t
  <2>4. Safe => PruneSafe(t)
    BY <1>u, <2>1, <2>3 DEF PruneSafe, PruneResting
  <2> QED BY <2>1, <2>2, <2>4, <1>q, <1>x, <1>r
<1>17. CASE JoinIndexAndBlocks(p)
  <2> DEFINE doomed == IF s.ask.dryRun THEN {} ELSE s.listed \ s.index
             t == [s EXCEPT !.at = "delete", !.doomed = doomed]
  <2>1. s.at = "scan" /\ s.at \notin PruneResting /\ UNCHANGED files
    BY <1>17 DEF JoinIndexAndBlocks, PruneAt, PruneResting, files, fileVars
  <2>2. \/ PruneEnds(p, "done")
        \/ s.index # NoFile /\ GoOn /\ pr' = [pr EXCEPT ![p] = t]
    BY <1>17, Zenon DEF JoinIndexAndBlocks
  <2>3. doomed \cap s.index = {}
    OBVIOUS
  <2>4. /\ t.at = "delete" /\ t.ask = s.ask /\ t.doomed = doomed
        /\ t.jobs = s.jobs /\ t.results = s.results /\ t.index = s.index
    <3> HIDE DEF doomed
    <3> QED BY <1>s DEF PruneState
  <2> HIDE DEF doomed, t
  <2>5. Safe /\ s.index # NoFile => PruneSafe(t)
    BY <1>u, <2>1, <2>3, <2>4 DEF PruneSafe, PruneResting
  <2> QED BY <2>1, <2>2, <2>5, <1>q, <1>x, <1>r
<1> QED BY <1>1, <1>2, <1>3, <1>4, <1>5, <1>6, <1>7, <1>8, <1>9, <1>10, <1>11, <1>12, <1>13,
           <1>14, <1>15, <1>16, <1>17 DEF PruneStep, PruneProgress

-----------------------------------------------------------------------------
(* Syncs of folders write no file of the store                             *)

LEMMA SyncKeeps ==
    ASSUME TypesInv, SafeInv, NEW f \in Folder, FolderStep(f), UNCHANGED <<up, pr, cl>>
    PROVE  SafeInv'
<1>s. RunTypeOK /\ Roles /\ (~overlapped => Safe) /\ (~overlapped => Alone)
  BY DEF TypesInv, StoreTypeOK, SafeInv, Roles
<1>1. UNCHANGED <<stored, indexed, versionFile, standing>>
  BY DEF FolderStep, StartSync, SyncProgress, CrashSync, EditFolder, ReadConfig, ReadSource,
         ReadTarget, QueryContent, DeleteCache, ChangeAsset, RemoveSeen, EndChange,
         ValidateTarget, WriteCache, fileVars
<1>2. Begin(f, "read") \/ End(f) \/ UNCHANGED <<running, overlapped>>
  <2>1. StartSync(f) => Begin(f, "read")
    BY DEF StartSync
  <2>2. ReadConfig(f) \/ ReadSource(f) \/ ReadTarget(f) => End(f) \/ GoOn
    <3>1. ReadTarget(f) => End(f) \/ GoOn
      BY TargetRead, Zenon DEF TypesInv, TargetIs, SyncEnds
    <3> QED BY <3>1, Zenon DEF ReadConfig, ReadSource, SyncEnds
  <2>3. QueryContent(f) \/ DeleteCache(f) => End(f) \/ GoOn
    BY Zenon DEF QueryContent, DeleteCache, SyncEnds
  <2>4. (\E a \in Asset : ChangeAsset(f, a)) => End(f) \/ GoOn
    BY Zenon DEF ChangeAsset, SyncEnds
  <2>5. RemoveSeen(f) \/ EndChange(f) \/ ValidateTarget(f) \/ WriteCache(f) => End(f) \/ GoOn
    BY Zenon DEF RemoveSeen, EndChange, ValidateTarget, WriteCache, SyncEnds
  <2>6. CrashSync(f) => End(f)
    BY DEF CrashSync, SyncEnds
  <2>7. (\E a \in Asset : EditFolder(f, a)) => UNCHANGED <<running, overlapped>>
    BY DEF EditFolder
  <2>8. GoOn => UNCHANGED <<running, overlapped>>
    BY DEF GoOn, runVars
  <2> QED BY <2>1, <2>2, <2>3, <2>4, <2>5, <2>6, <2>7, <2>8 DEF FolderStep, SyncProgress
<1>3. Roles' /\ (~overlapped' => ~overlapped)
  <2>1. CASE Begin(f, "read")
    <3>1. running \subseteq running' /\ (~overlapped' => ~overlapped /\ Alone')
      BY <1>s, <2>1, RolesBegin DEF Role
    <3> QED BY <1>s, <3>1 DEF Roles, RoleOf
  <2>2. CASE End(f)
    <3>1. /\ \A r \in running : r[1] # f => r \in running'
          /\ overlapped' = overlapped /\ (~overlapped' => Alone')
      BY <1>s, <2>2, RolesEnd
    <3>2. \A w \in Uploader \cup Pruner \cup Cloner :
             \A x : <<w, x>> \in running => <<w, x>> \in running'
      BY <3>1, ProcessAssumption
    <3> QED BY <1>s, <3>1, <3>2 DEF Roles, RoleOf
  <2>3. CASE UNCHANGED <<running, overlapped>>
    BY <1>s, <2>3 DEF Roles, RoleOf, Alone
  <2> QED BY <1>2, <2>1, <2>2, <2>3
<1>4. Grows
  BY <1>1 DEF Grows
<1>5. Safe => Safe'
  <2> SUFFICES ASSUME Safe PROVE Safe'
    OBVIOUS
  <2>1. \A u \in Uploader : UploadSafe(u)'
    BY <1>4, UploadGrows DEF Safe
  <2>2. \A c \in Cloner : CloneSafe(c)'
    BY <1>4, CloneGrows DEF Safe
  <2>3. \A p \in Pruner : PruneSafe(pr[p])'
    BY <1>1, PruneWaits DEF Safe
  <2>4. \A n \in Name : Published(n)'
    BY <1>1, <1>4, PublishedGrows DEF Safe
  <2> QED BY <1>1, <2>1, <2>2, <2>3, <2>4 DEF Safe
<1> QED BY <1>s, <1>3, <1>5 DEF SafeInv

-----------------------------------------------------------------------------
(* All together                                                            *)

LEMMA SafeInit == Init => SafeInv
<1> SUFFICES ASSUME Init PROVE SafeInv
  OBVIOUS
<1>1. PICK s \in Scenario :
         StoreInit(s) /\ UploadInit /\ PruneInit /\ CloneInit(s) /\ FolderInit(s)
  BY DEF Init
<1>2. Plausible(s)
  BY ScenarioAssumption
<1>3. \A u \in Uploader : up[u].at = "idle" /\ up[u].put = {}
  BY <1>1 DEF UploadInit, IdleUpload
<1>4. /\ \A c \in Cloner : cl[c].at = "idle" /\ cl[c].put = {} /\ cl[c].late = {}
      /\ \A c \in Cloner : cl[c].cached = NoFile /\ cl[c].flush = "none"
  BY <1>1 DEF CloneInit, IdleClone
<1>5. \A p \in Pruner : /\ pr[p].at = "idle" /\ pr[p].jobs = {}
                        /\ pr[p].results = {} /\ pr[p].doomed = {}
  BY <1>1 DEF PruneInit, IdlePrune
<1>6. Roles
  BY <1>1, <1>3, <1>4, <1>5 DEF StoreInit, Roles, Alone, Resting, CloneResting, PruneResting
<1>7. \A n \in Name : Published(n)
  <2>1. indexed \cap indexed = indexed
    OBVIOUS
  <2> QED BY <1>1, <1>2, <2>1 DEF StoreInit, Plausible, Published, Kept, Validates
<1>8. indexed \subseteq stored
  BY <1>1, <1>2 DEF StoreInit, Plausible
<1>9. \A u \in Uploader : UploadSafe(u)
  BY <1>3 DEF UploadSafe, Resting
<1>10. \A c \in Cloner : CloneSafe(c)
  BY <1>4 DEF CloneSafe, CloneResting
<1>11. \A p \in Pruner : PruneSafe(pr[p])
  BY <1>5 DEF PruneSafe, PruneResting
<1> QED BY <1>6, <1>7, <1>8, <1>9, <1>10, <1>11 DEF SafeInv, Safe

LEMMA SafeNext == TypesInv /\ SafeInv /\ [Next]_vars => SafeInv'
<1> SUFFICES ASSUME TypesInv, SafeInv, [Next]_vars PROVE SafeInv'
  OBVIOUS
<1>1. CASE Uploads
  BY <1>1, UploadKeeps DEF Uploads, cloneVars
<1>2. CASE Prunes
  BY <1>2, PruneKeeps DEF Prunes, cloneVars
<1>3. CASE Clones
  BY <1>3, CloneKeeps DEF Clones
<1>4. CASE Syncs
  BY <1>4, SyncKeeps DEF Syncs, cloneVars
<1>5. CASE UNCHANGED vars
  <2>1. UNCHANGED <<stored, indexed, versionFile, standing, running, overlapped, up, pr, cl>>
    BY <1>5 DEF vars, storeVars, fileVars, runVars, cloneVars
  <2>2. Grows
    BY <2>1 DEF Grows
  <2>3. Roles'
    BY <2>1 DEF SafeInv, Roles, RoleOf, Alone
  <2>4. ASSUME Safe PROVE Safe'
    <3>1. \A u \in Uploader : UploadSafe(u)'
      BY <2>1, <2>2, <2>4, UploadGrows DEF Safe
    <3>2. \A c \in Cloner : CloneSafe(c)'
      BY <2>1, <2>2, <2>4, CloneGrows DEF Safe
    <3>3. \A p \in Pruner : PruneSafe(pr[p])'
      BY <2>1, <2>4, PruneWaits DEF Safe
    <3>4. \A n \in Name : Published(n)'
      BY <2>1, <2>2, <2>4, PublishedGrows DEF Safe
    <3> QED BY <2>1, <2>4, <3>1, <3>2, <3>3, <3>4 DEF Safe
  <2> QED BY <2>1, <2>3, <2>4 DEF SafeInv
<1> QED BY <1>1, <1>2, <1>3, <1>4, <1>5 DEF Next

LEMMA SafeAlways == Spec => []SafeInv
<1>1. TypesInv /\ TypesInv' /\ SafeInv /\ [Next]_vars => SafeInv'
  BY SafeNext
<1> QED BY SafeInit, TypesAlways, <1>1, PTL DEF Spec

(* The index of a store lists stored blocks only, however many uploads,    *)
(* clones and prunes fail or crash: uploads and clones announce a block    *)
(* after it is stored, and a prune deletes the blocks it took out of the   *)
(* index after it wrote it.                                                *)
THEOREM StoreTruth == Spec => []ListedIsStored
<1>1. SafeInv => ListedIsStored
  BY DEF SafeInv, Safe, ListedIsStored
<1> QED BY <1>1, SafeAlways, PTL

(* A version file that is there can be restored: upsync and put write it   *)
(* after the store is flushed, clone-store waits for its flush before it   *)
(* goes on, and the gather loop of a prune neither forgets a version nor   *)
(* drops one, except for those whose standing says so.                     *)
THEOREM PublishedTruth == Spec => []PublishedIsRestorable
<1>1. SafeInv => PublishedIsRestorable
  <2> SUFFICES ASSUME SafeInv, NEW n \in Name, ~overlapped, versionFile[n] # NoFile,
                      standing[n] = "good"
               PROVE  Restorable(versionFile[n])
    BY DEF PublishedIsRestorable
  <2>1. indexed \cap stored = indexed /\ indexed \cap indexed = indexed /\ Published(n)
    BY DEF SafeInv, Safe
  <2> QED BY <2>1 DEF Published, Kept, Restorable, Validates
<1> QED BY <1>1, SafeAlways, PTL


-----------------------------------------------------------------------------
(* A folder that is synced beside no prune gets all the blocks it needs.   *)
(* The store only grows meanwhile; what the command needs was indexed when *)
(* it read the version, and is in its plan since it asked for it.          *)

Quiet(f) == ~overlapped /\ f \notin disturbed

Syncing(f) == sy[f].at \notin SyncResting

HasAll(f) ==
    /\ sy[f].at \in {"config", "source", "target", "query"} =>
          Needed(sy[f].source) \subseteq Content(indexed)
    /\ sy[f].at \in {"clean", "change"} =>
          sy[f].plan \subseteq indexed /\ Required(f) \subseteq Content(sy[f].plan)
    /\ sy[f].at = "change" => sy[f].left \subseteq Differ(f)
    /\ sy[f].at # "missing"

Had(f) ==
    /\ Syncing(f) => <<f, "read">> \in running
    /\ Quiet(f) /\ Syncing(f) => "prune" \notin RolesOf(running)
    /\ sy[f].ask.kind = "unpack" => sy[f].at # "missing"
    /\ Quiet(f) /\ ~sy[f].excused /\ sy[f].ask.kind # "unpack" => HasAll(f)

HadInv == \A f \in Folder : Had(f)

(* Uploads and clones take nothing away, nor does a prune that is not at   *)
(* work.                                                                   *)
LEMMA UploadsGrow ==
    ASSUME NEW u \in Uploader, UploadStep(u)
    PROVE  Grows
BY DEF UploadStep, UploadProgress, StartUpload, ReadVersion, FindExisting, StoreBlock, FlushUpload,
       WriteVersion, WriteLocalIndex, ListBlocks, ReadBlock, AddRebuilt, CloseUpload, WriteConfig,
       CrashUpload, Grows, fileVars

LEMMA ClonesGrow ==
    ASSUME NEW c \in Cloner, CloneStep(c)
    PROVE  Grows
BY DEF CloneStep, CloneProgress, StartClone, NextVersion, ChangeWork, Unzip, Rescan, FindCloned,
       StoreCloned, StartFlush, EndFlush, WriteCloned, WriteClonedIndex, WaitFlush, CloseClone,
       CrashClone, Grows, fileVars

LEMMA RestingPruneKeeps ==
    ASSUME NEW p \in Pruner, PruneStep(p), pr[p].at \in PruneResting
    PROVE  Grows
<1>1. StartPrune(p) \/ CrashPrune(p) => Grows
  BY DEF StartPrune, CrashPrune, Grows, fileVars
<1>2. ReadPrunedIndex(p) \/ TakeWhenFull(p) \/ LaunchPruneOne(p) => Grows
  BY DEF ReadPrunedIndex, TakeWhenFull, LaunchPruneOne, Grows, fileVars
<1>3. TakeReady(p) \/ NoneReady(p) \/ TakeLast(p) \/ EndGather(p) => Grows
  BY DEF TakeReady, NoneReady, TakeLast, EndGather, Grows, fileVars
<1>4. (\E n \in Name : PruneOneByLocalIndex(p, n) \/ PruneOneByStore(p, n) \/ PruneOneFails(p, n))
         => Grows
  BY DEF PruneOneByLocalIndex, PruneOneByStore, PruneOneFails, Grows, fileVars
<1>5. EndPrune(p) \/ ReadIndexFile(p) \/ ListBlockFiles(p) \/ JoinIndexAndBlocks(p) \/ EndDelete(p)
         => Grows
  BY DEF EndPrune, ReadIndexFile, ListBlockFiles, JoinIndexAndBlocks, EndDelete, Grows, fileVars
<1>6. ~PruneIndex(p) /\ ~WritePrunedIndex(p)
  BY DEF PruneIndex, WritePrunedIndex, PruneAt, PruneResting
<1>7. \A b \in Block : ~DeletePruned(p, b) /\ ~DeleteUnused(p, b)
  BY DEF DeletePruned, DeleteUnused, PruneAt, PruneResting
<1> QED BY <1>1, <1>2, <1>3, <1>4, <1>5, <1>6, <1>7 DEF PruneStep, PruneProgress

(* Each step of a command begins it, ends it, or leaves alone who runs.    *)
Runs(x, role) ==
    Begin(x, role) \/ End(x) \/ UNCHANGED <<running, overlapped, disturbed>>

LEMMA UploadRuns ==
    ASSUME NEW u \in Uploader, UploadStep(u)
    PROVE  \E role \in {"read", "write"} : Runs(u, role)
<1>1. StartUpload(u) => Begin(u, "read") \/ Begin(u, "write")
  BY DEF StartUpload
<1>2. UploadProgress(u) \/ CrashUpload(u) => End(u) \/ GoOn
  BY DEF UploadProgress, ReadVersion, FindExisting, StoreBlock, FlushUpload,
         WriteVersion, WriteLocalIndex, ListBlocks, ReadBlock, AddRebuilt, CloseUpload, WriteConfig,
         CrashUpload, UploadEnds
<1>3. GoOn => UNCHANGED <<running, overlapped, disturbed>>
  BY DEF GoOn, runVars
<1> QED BY <1>1, <1>2, <1>3 DEF UploadStep, Runs

LEMMA CloneRuns ==
    ASSUME NEW c \in Cloner, CloneStep(c)
    PROVE  Runs(c, "write")
<1>1. StartClone(c) => Begin(c, "write")
  BY DEF StartClone
<1>2. CloneProgress(c) \/ CrashClone(c) => End(c) \/ GoOn
  BY DEF CloneProgress, NextVersion, ChangeWork, Unzip, Rescan, FindCloned,
         StoreCloned, StartFlush, EndFlush, WriteCloned, WriteClonedIndex, WaitFlush, CloseClone,
         CrashClone, CloneEnds
<1>3. GoOn => UNCHANGED <<running, overlapped, disturbed>>
  BY DEF GoOn, runVars
<1> QED BY <1>1, <1>2, <1>3 DEF CloneStep, Runs

LEMMA PruneRuns ==
    ASSUME NEW p \in Pruner, PruneStep(p)
    PROVE  Runs(p, "prune")
<1>1. StartPrune(p) => Begin(p, "prune")
  BY DEF StartPrune
<1>2. ReadPrunedIndex(p) \/ TakeWhenFull(p) \/ LaunchPruneOne(p) => End(p) \/ GoOn
  BY Zenon DEF ReadPrunedIndex, TakeWhenFull, LaunchPruneOne, PruneEnds
<1>3. TakeReady(p) \/ NoneReady(p) \/ TakeLast(p) => End(p) \/ GoOn
  BY Zenon DEF TakeReady, NoneReady, TakeLast
<1>4. EndGather(p) => End(p) \/ GoOn
  BY Zenon DEF EndGather, PruneEnds
<1>5. (\E n \in Name : PruneOneByLocalIndex(p, n) \/ PruneOneByStore(p, n) \/ PruneOneFails(p, n))
         => End(p) \/ GoOn
  BY Zenon DEF PruneOneByLocalIndex, PruneOneByStore, PruneOneFails
<1>6. PruneIndex(p) \/ EndPrune(p) \/ WritePrunedIndex(p) => End(p) \/ GoOn
  BY Zenon DEF PruneIndex, EndPrune, WritePrunedIndex, PruneEnds
<1>7. ReadIndexFile(p) \/ ListBlockFiles(p) \/ JoinIndexAndBlocks(p) \/ EndDelete(p)
         => End(p) \/ GoOn
  BY Zenon DEF ReadIndexFile, ListBlockFiles, JoinIndexAndBlocks, EndDelete, PruneEnds
<1>8. (\E b \in Block : DeletePruned(p, b) \/ DeleteUnused(p, b)) => End(p) \/ GoOn
  BY Zenon DEF DeletePruned, DeleteUnused
<1>9. CrashPrune(p) => End(p)
  BY DEF CrashPrune, PruneEnds
<1>10. GoOn => UNCHANGED <<running, overlapped, disturbed>>
  BY DEF GoOn, runVars
<1> QED BY <1>1, <1>2, <1>3, <1>4, <1>5, <1>6, <1>7, <1>8, <1>9, <1>10
        DEF PruneStep, PruneProgress, Runs

LEMMA SyncRuns ==
    ASSUME FolderTypeOK, NEW f \in Folder, FolderStep(f)
    PROVE  Runs(f, "read")
<1>1. StartSync(f) => Begin(f, "read")
  BY DEF StartSync
<1>2. ReadTarget(f) => End(f) \/ GoOn
  BY TargetRead, Zenon DEF TargetIs, SyncEnds
<1>3. ReadConfig(f) \/ ReadSource(f) => End(f) \/ GoOn
  BY Zenon DEF ReadConfig, ReadSource, SyncEnds
<1>4. QueryContent(f) \/ DeleteCache(f) => End(f) \/ GoOn
  BY Zenon DEF QueryContent, DeleteCache, SyncEnds
<1>5. (\E a \in Asset : ChangeAsset(f, a)) => End(f) \/ GoOn
  BY Zenon DEF ChangeAsset, SyncEnds
<1>6. RemoveSeen(f) \/ EndChange(f) \/ ValidateTarget(f) \/ WriteCache(f) => End(f) \/ GoOn
  BY Zenon DEF RemoveSeen, EndChange, ValidateTarget, WriteCache, SyncEnds
<1>7. CrashSync(f) => End(f)
  BY DEF CrashSync, SyncEnds
<1>8. (\E a \in Asset : EditFolder(f, a)) => UNCHANGED <<running, overlapped, disturbed>>
  BY DEF EditFolder
<1>9. GoOn => UNCHANGED <<running, overlapped, disturbed>>
  BY DEF GoOn, runVars
<1> QED BY <1>1, <1>2, <1>3, <1>4, <1>5, <1>6, <1>7, <1>8, <1>9
        DEF FolderStep, SyncProgress, Runs

(* What a sync relies on, when another process takes a step.               *)
LEMMA HadBeside ==
    ASSUME RunTypeOK, NEW f \in Folder, Had(f), sy'[f] = sy[f],
           NEW x, x # f, NEW role \in Role, Runs(x, role),
           Quiet(f) /\ Syncing(f) => Grows
    PROVE  Had(f)'
<1>1. Quiet(f)' => Quiet(f)
  BY DEF Runs, Quiet, Begin, End, RunTypeOK
<1>2. Syncing(f) => <<f, "read">> \in running'
  <2> SUFFICES ASSUME <<f, "read">> \in running PROVE <<f, "read">> \in running'
    BY DEF Had
  <2>1. <<f, "read">>[1] = f
    OBVIOUS
  <2> QED BY <2>1 DEF Runs, Begin, End
<1>3. Quiet(f)' /\ Syncing(f) => "prune" \notin RolesOf(running')
  <2> SUFFICES ASSUME Quiet(f)', Syncing(f) PROVE "prune" \notin RolesOf(running')
    OBVIOUS
  <2>1. "prune" \notin RolesOf(running) /\ <<f, "read">> \in running
    BY <1>1 DEF Had
  <2>2. CASE Begin(x, role)
    <3>1. role # "prune"
      <4> SUFFICES ASSUME role = "prune" PROVE FALSE
        OBVIOUS
      <4>1. disturbed' = disturbed \cup {r[1] : r \in {s \in running : s[2] = "read"}}
        BY <2>2 DEF Begin
      <4>2. <<f, "read">>[1] = f /\ <<f, "read">>[2] = "read"
        OBVIOUS
      <4>3. f \in disturbed'
        BY <2>1, <4>1, <4>2
      <4> QED BY <4>3 DEF Quiet
    <3>2. running' = running \cup {<<x, role>>}
      BY <2>2 DEF Begin
    <3> QED BY <2>1, <3>1, <3>2 DEF RolesOf
  <2>3. CASE End(x) \/ UNCHANGED <<running, overlapped, disturbed>>
    BY <2>1, <2>3 DEF End, RolesOf
  <2> QED BY <2>2, <2>3 DEF Runs
<1>4. Syncing(f)' <=> Syncing(f)
  BY DEF Syncing
<1>5. ASSUME HasAll(f), Syncing(f) => Grows PROVE HasAll(f)'
  <2>1. CASE Syncing(f)
    <3>1. indexed \subseteq indexed' /\ Content(indexed) \subseteq Content(indexed')
      BY <1>5, <2>1, ContentGrows DEF Grows
    <3>2. Required(f)' = Required(f) /\ Differ(f)' = Differ(f)
      BY DEF Required, Differ
    <3>3. \A v : Needed(v)' = Needed(v)
      BY DEF Needed
    <3> QED BY <1>5, <3>1, <3>2, <3>3 DEF HasAll
  <2>2. CASE ~Syncing(f)
    BY <1>5, <2>2 DEF HasAll, Syncing, SyncResting
  <2> QED BY <2>1, <2>2
<1> QED BY <1>1, <1>2, <1>3, <1>4, <1>5 DEF Had

(* The steps of the sync itself.                                           *)
LEMMA SyncHas ==
    ASSUME TypesInv, SafeInv, NEW f \in Folder, Had(f), FolderStep(f)
    PROVE  Had(f)' /\ \A g \in Folder \ {f} : sy'[g] = sy[g]
<1> DEFINE s == sy[f]
<1>s. /\ s \in SyncState /\ sy \in [Folder -> SyncState]
      /\ FolderTypeOK /\ RunTypeOK /\ SyncPlanned
      /\ ~overlapped => Safe
  BY DEF TypesInv, StoreTypeOK, FolderTypeOK, SafeInv
<1>f. /\ s.todo \in Seq(Name) /\ s.ask \in Sync /\ s.plan \in SUBSET Block
      /\ s.left \in SUBSET Asset
  BY <1>s, SyncFields
<1>k. /\ Syncing(f) => <<f, "read">> \in running
      /\ Quiet(f) /\ Syncing(f) => "prune" \notin RolesOf(running)
      /\ s.ask.kind = "unpack" => s.at # "missing"
      /\ Quiet(f) /\ ~s.excused /\ s.ask.kind # "unpack" => HasAll(f)
  BY DEF Had
<1>g. ASSUME NEW t, sy' = [sy EXCEPT ![f] = t],
             \/ Begin(f, "read")
             \/ End(f) /\ t.at \in SyncResting
             \/ /\ UNCHANGED <<running, overlapped, disturbed>>
                /\ t.at \notin SyncResting => s.at \notin SyncResting,
             t.ask.kind = "unpack" => t.at # "missing",
             Quiet(f)' /\ ~t.excused /\ t.ask.kind # "unpack" => HasAll(f)'
      PROVE  Had(f)' /\ \A g \in Folder \ {f} : sy'[g] = sy[g]
  <2>1. sy'[f] = t /\ \A g \in Folder \ {f} : sy'[g] = sy[g]
    BY <1>g, <1>s
  <2>2. CASE Begin(f, "read")
    <3>1. running' = running \cup {<<f, "read">>}
      BY <2>2 DEF Begin
    <3>2. Quiet(f)' => "prune" \notin RolesOf(running)
      BY <2>2 DEF Begin, Quiet
    <3>3. Quiet(f)' => "prune" \notin RolesOf(running')
      BY <3>1, <3>2 DEF RolesOf
    <3> QED BY <1>g, <2>1, <3>1, <3>3 DEF Had
  <2>3. CASE End(f) /\ t.at \in SyncResting
    BY <1>g, <2>1, <2>3 DEF Had, Syncing
  <2>4. CASE /\ UNCHANGED <<running, overlapped, disturbed>>
             /\ t.at \notin SyncResting => s.at \notin SyncResting
    BY <1>g, <1>k, <2>1, <2>4 DEF Had, Syncing, Quiet
  <2> QED BY <1>g, <2>2, <2>3, <2>4
<1>q. (GoOn \/ End(f)) => (Quiet(f)' <=> Quiet(f)) /\ (GoOn => UNCHANGED <<running, overlapped, disturbed>>)
  BY DEF GoOn, runVars, End, Quiet
<1>e. ASSUME NEW at \in {"done", "failed"}, SyncEnds(f, at)
      PROVE  Had(f)' /\ \A g \in Folder \ {f} : sy'[g] = sy[g]
  <2> DEFINE t == [s EXCEPT !.at = at]
  <2>1. t.at = at
    BY <1>s DEF SyncState
  <2>2. sy' = [sy EXCEPT ![f] = t] /\ End(f)
    BY <1>e DEF SyncEnds, SyncGoes
  <2> HIDE DEF t
  <2>3. sy'[f] = t
    BY <2>2, <1>s
  <2>4. HasAll(f)'
    BY <2>1, <2>3 DEF HasAll
  <2> QED BY <2>1, <2>2, <2>4, <1>g DEF SyncResting
<1>m. ASSUME NEW at \in {"check", "cache"}, SyncGoes(f, at), GoOn, Syncing(f)
      PROVE  Had(f)' /\ \A g \in Folder \ {f} : sy'[g] = sy[g]
  <2> DEFINE t == [s EXCEPT !.at = at]
  <2>1. t.at = at
    BY <1>s DEF SyncState
  <2>2. sy' = [sy EXCEPT ![f] = t]
    BY <1>m DEF SyncGoes
  <2> HIDE DEF t
  <2>3. sy'[f] = t
    BY <2>2, <1>s
  <2>4. HasAll(f)'
    BY <2>1, <2>3 DEF HasAll
  <2> QED BY <2>1, <2>2, <2>4, <1>m, <1>q, <1>g DEF Syncing
<1>1. CASE StartSync(f)
  <2>1. PICK r \in Sync :
           /\ Begin(f, "read")
           /\ sy' = [sy EXCEPT ![f] = [IdleSync(r) EXCEPT
                   !.at = CASE r.kind = "unpack" -> "target"
                            [] r.kind = "get" -> "config"
                            [] OTHER -> "source",
                   !.todo = r.list,
                   !.source = IF r.kind = "unpack" THEN r.archive ELSE @]]
    BY <1>1 DEF StartSync
  <2> DEFINE at == CASE r.kind = "unpack" -> "target"
                     [] r.kind = "get" -> "config"
                     [] OTHER -> "source"
             source == IF r.kind = "unpack" THEN r.archive ELSE Empty
             t == [IdleSync(r) EXCEPT !.at = at, !.todo = r.list, !.source = source]
  <2>2. at \in {"target", "config", "source"}
    OBVIOUS
  <2>3. r.kind # "unpack" => source = Empty
    OBVIOUS
  <2>4. IdleSync(r).source = Empty
    BY DEF IdleSync
  <2>5. sy' = [sy EXCEPT ![f] = t]
    BY <2>1, <2>4
  <2>6. t.at = at /\ t.source = source /\ t.ask = r
    <3> HIDE DEF at, source
    <3> QED BY DEF IdleSync
  <2>7. Needed(Empty) = {}
    BY DEF Needed, Empty
  <2> HIDE DEF t, at, source
  <2>8. sy'[f] = t
    BY <2>5, <1>s
  <2>9. t.ask.kind # "unpack" => HasAll(f)'
    <3>1. Needed(Empty)' = {}
      BY <2>7 DEF Needed, Empty
    <3> QED BY <2>2, <2>3, <2>6, <2>8, <3>1 DEF HasAll
  <2> QED BY <2>1, <2>2, <2>5, <2>6, <2>9, <1>g
<1>2. CASE ReadConfig(f)
  <2> DEFINE t == [s EXCEPT !.at = "source"]
  <2>1. s.at = "config" /\ Syncing(f) /\ UNCHANGED <<stored, indexed>>
    BY <1>2 DEF ReadConfig, SyncAt, Syncing, SyncResting, fileVars
  <2>2. (sy' = [sy EXCEPT ![f] = t] /\ GoOn) \/ SyncEnds(f, "failed")
    BY <1>2, Zenon DEF ReadConfig, SyncGoes
  <2>3. CASE sy' = [sy EXCEPT ![f] = t] /\ GoOn
    <3>1. /\ t.at = "source" /\ t.source = s.source /\ t.ask = s.ask
          /\ t.excused = s.excused
      BY <1>s DEF SyncState
    <3> HIDE DEF t
    <3>2. sy'[f] = t
      BY <2>3, <1>s
    <3>3. HasAll(f) => HasAll(f)'
      BY <2>1, <3>1, <3>2 DEF HasAll, Needed
    <3> QED BY <2>1, <2>3, <3>1, <3>3, <1>k, <1>q, <1>g DEF Syncing
  <2> QED BY <2>2, <2>3, <1>e
<1>3. CASE ReadSource(f)
  <2> DEFINE n == Head(s.todo)
             v == versionFile[n]
             excused == (s.excused \/ standing[n] # "good")
             at == IF Tail(s.todo) = <<>> THEN "target" ELSE "source"
             t == [s EXCEPT !.source = Merge(s.source, v), !.todo = Tail(s.todo),
                            !.excused = excused, !.at = at]
  <2>1. s.at = "source" /\ Syncing(f) /\ UNCHANGED <<stored, indexed>>
    BY <1>3 DEF ReadSource, SyncAt, Syncing, SyncResting, fileVars
  <2>2. n \in Name
    <3>1. s.todo # <<>>
      BY <2>1, <1>s DEF SyncPlanned
    <3> QED BY <3>1, <1>f
  <2>3. (v # NoFile /\ sy' = [sy EXCEPT ![f] = t] /\ GoOn) \/ SyncEnds(f, "failed")
    BY <1>3, Zenon DEF ReadSource
  <2>4. CASE v # NoFile /\ sy' = [sy EXCEPT ![f] = t] /\ GoOn
    <3>1. at \in {"target", "source"}
      OBVIOUS
    <3>2. ~excused => ~s.excused /\ standing[n] = "good"
      BY Zenon
    <3>3. /\ t.at = at /\ t.source = Merge(s.source, v) /\ t.ask = s.ask
          /\ t.excused = excused
      <4> HIDE DEF at, excused, v
      <4> QED BY <1>s DEF SyncState
    <3>4. Needed(Merge(s.source, v)) \subseteq Needed(s.source) \cup Needed(v)
      <4> HIDE DEF v, s
      <4> QED BY DEF Needed, Merge
    <3>5. Quiet(f) /\ standing[n] = "good" => Needed(v) \subseteq Content(indexed)
      <4>1. indexed \cap indexed = indexed
        OBVIOUS
      <4> QED BY <1>s, <2>2, <2>4, <4>1 DEF Quiet, Safe, Published, Kept
    <3> HIDE DEF t, at, excused, n, v
    <3>6. sy'[f] = t
      BY <2>4, <1>s
    <3>7. Quiet(f) /\ ~excused /\ s.ask.kind # "unpack"
             => Needed(Merge(s.source, v)) \subseteq Content(indexed)
      BY <1>k, <2>1, <3>2, <3>4, <3>5 DEF HasAll
    <3>8. Quiet(f) /\ ~excused /\ s.ask.kind # "unpack" => HasAll(f)'
      BY <2>1, <3>1, <3>3, <3>6, <3>7 DEF HasAll, Needed
    <3> QED BY <2>1, <2>4, <3>1, <3>3, <3>8, <1>q, <1>g DEF Syncing
  <2> QED BY <2>3, <2>4, <1>e
<1>4. CASE ReadTarget(f)
  <2>1. s.at = "target" /\ Syncing(f) /\ UNCHANGED <<stored, indexed>>
    BY <1>4 DEF ReadTarget, SyncAt, Syncing, SyncResting, fileVars
  <2>2. \/ SyncEnds(f, "failed")
        \/ \E index \in Disk, misled, seen \in BOOLEAN : TargetIs(f, index, misled, seen)
    BY <1>4, <1>s, TargetRead, Zenon
  <2>3. ASSUME NEW index \in Disk, NEW misled \in BOOLEAN, NEW seen \in BOOLEAN,
               TargetIs(f, index, misled, seen)
        PROVE  Had(f)' /\ \A g \in Folder \ {f} : sy'[g] = sy[g]
    <3> DEFINE t == [s EXCEPT !.at = "query", !.target = index, !.misled = misled, !.seen = seen]
    <3>1. /\ t.at = "query" /\ t.source = s.source /\ t.ask = s.ask
          /\ t.excused = s.excused
      BY <1>s DEF SyncState
    <3>2. sy' = [sy EXCEPT ![f] = t] /\ GoOn
      BY <2>3 DEF TargetIs
    <3> HIDE DEF t
    <3>3. sy'[f] = t
      BY <3>2, <1>s
    <3>4. HasAll(f) => HasAll(f)'
      BY <2>1, <3>1, <3>3 DEF HasAll, Needed
    <3> QED BY <2>1, <3>1, <3>2, <3>4, <1>k, <1>q, <1>g DEF Syncing
  <2> QED BY <2>2, <2>3, <1>e
<1>5. CASE QueryContent(f)
  <2> DEFINE locals == {localIndex[n] : n \in NamesOf(f)}
             useLocal == s.ask.local /\ NoFile \notin locals
             index == IF useLocal THEN UNION locals ELSE indexed
             IndexHas(plan) == plan \subseteq indexed /\ Required(f) \subseteq Content(plan)
  <2>1. s.at = "query" /\ Syncing(f) /\ UNCHANGED <<stored, indexed>>
    BY <1>5 DEF QueryContent, SyncAt, Syncing, SyncResting, fileVars
  <2>2. CASE s.ask.kind = "unpack" /\ SyncGoes(f, "clean") /\ GoOn
    <3> DEFINE t == [s EXCEPT !.at = "clean"]
    <3>1. t.at = "clean" /\ t.ask = s.ask
      BY <1>s DEF SyncState
    <3>2. sy' = [sy EXCEPT ![f] = t]
      BY <2>2 DEF SyncGoes
    <3> HIDE DEF t
    <3> QED BY <2>1, <2>2, <3>1, <3>2, <1>q, <1>g DEF Syncing
  <2>3. ASSUME NEW plan \in Existing(index, Required(f)), NEW excused,
               sy' = [sy EXCEPT ![f] = [s EXCEPT !.at = "clean", !.plan = plan,
                                                 !.excused = excused]],
               s.ask.kind # "unpack", GoOn,
               ~excused => ~s.excused /\ (~useLocal \/ IndexHas(plan))
        PROVE  Had(f)' /\ \A g \in Folder \ {f} : sy'[g] = sy[g]
    <3> DEFINE t == [s EXCEPT !.at = "clean", !.plan = plan, !.excused = excused]
    <3>1. /\ t.at = "clean" /\ t.plan = plan /\ t.source = s.source /\ t.target = s.target
          /\ t.ask = s.ask /\ t.excused = excused
      BY <1>s DEF SyncState
    <3>2. sy' = [sy EXCEPT ![f] = t]
      BY <2>3
    <3> HIDE DEF t
    <3>3. sy'[f] = t
      BY <3>2, <1>s
    <3>4. HasAll(f) => Required(f) \subseteq Content(indexed)
      BY <2>1 DEF HasAll, Required, Differ, Needed
    <3>5. ~useLocal /\ Required(f) \subseteq Content(indexed) => IndexHas(plan)
      <4>1. \A i, chunks : \A p \in Existing(i, chunks) :
               p \subseteq i /\ Content(i) \cap chunks \subseteq Content(p)
        BY DEF Existing
      <4>2. ~useLocal => index = indexed
        OBVIOUS
      <4> HIDE DEF useLocal, index
      <4> QED BY <4>1, <4>2, <2>3
    <3>6. Quiet(f) /\ ~excused => IndexHas(plan)
      <4> HIDE DEF useLocal, index, IndexHas
      <4> QED BY <1>k, <2>3, <3>4, <3>5
    <3>7. Required(f)' = Required(f)
      BY <3>1, <3>3 DEF Required, Differ
    <3>8. Quiet(f) /\ ~excused => HasAll(f)'
      <4> HIDE DEF useLocal, index
      <4> QED BY <2>1, <3>1, <3>3, <3>6, <3>7 DEF HasAll
    <3> QED BY <2>1, <2>3, <3>1, <3>2, <3>8, <1>q, <1>g DEF Syncing
  <2>4. ASSUME NEW plan \in Existing(index, Required(f)), s.ask.kind # "unpack", GoOn,
               sy' = [sy EXCEPT ![f] = [s EXCEPT !.at = "clean", !.plan = plan,
                   !.excused = (s.excused \/ (useLocal /\ ~IndexHas(plan)))]]
        PROVE  Had(f)' /\ \A g \in Folder \ {f} : sy'[g] = sy[g]
    <3> DEFINE excused == (s.excused \/ (useLocal /\ ~IndexHas(plan)))
    <3>1. ~excused => ~s.excused /\ (~useLocal \/ IndexHas(plan))
      <4> HIDE DEF useLocal, IndexHas
      <4> QED BY Zenon
    <3>2. sy' = [sy EXCEPT ![f] = [s EXCEPT !.at = "clean", !.plan = plan, !.excused = excused]]
      BY <2>4
    <3> HIDE DEF excused, useLocal, IndexHas, index
    <3> QED BY <2>3, <2>4, <3>1, <3>2
  <2> QED BY <1>5, <2>2, <2>4, <1>e DEF QueryContent
<1>6. CASE DeleteCache(f)
  <2> DEFINE t == [s EXCEPT !.at = "change", !.left = Differ(f)]
  <2>1. s.at = "clean" /\ Syncing(f) /\ UNCHANGED <<stored, indexed>>
    BY <1>6 DEF DeleteCache, SyncAt, Syncing, SyncResting, fileVars
  <2>2. (sy' = [sy EXCEPT ![f] = t] /\ GoOn) \/ SyncEnds(f, "failed")
    BY <1>6, Zenon DEF DeleteCache
  <2>3. CASE sy' = [sy EXCEPT ![f] = t] /\ GoOn
    <3>1. /\ t.at = "change" /\ t.left = Differ(f) /\ t.plan = s.plan /\ t.source = s.source
          /\ t.target = s.target /\ t.ask = s.ask /\ t.excused = s.excused
      BY <1>s DEF SyncState
    <3> HIDE DEF t
    <3>2. sy'[f] = t
      BY <2>3, <1>s
    <3>3. Required(f)' = Required(f) /\ Differ(f)' = Differ(f)
      BY <3>1, <3>2 DEF Required, Differ
    <3>4. HasAll(f) => HasAll(f)'
      BY <2>1, <3>1, <3>2, <3>3 DEF HasAll
    <3> QED BY <2>1, <2>3, <3>1, <3>4, <1>k, <1>q, <1>g DEF Syncing
  <2> QED BY <2>2, <2>3, <1>e
<1>7. ASSUME NEW a \in Asset, ChangeAsset(f, a)
      PROVE  Had(f)' /\ \A g \in Folder \ {f} : sy'[g] = sy[g]
  <2>1. s.at = "change" /\ Syncing(f) /\ UNCHANGED <<stored, indexed>> /\ a \in s.left
    BY <1>7 DEF ChangeAsset, SyncAt, Syncing, SyncResting, fileVars
  <2>2. CASE sy' = [sy EXCEPT ![f].left = @ \ {a}] /\ GoOn
    <3> DEFINE t == [s EXCEPT !.left = s.left \ {a}]
    <3>1. /\ t.at = "change" /\ t.left = s.left \ {a} /\ t.plan = s.plan /\ t.source = s.source
          /\ t.target = s.target /\ t.ask = s.ask /\ t.excused = s.excused
      BY <1>s, <2>1 DEF SyncState
    <3>2. sy' = [sy EXCEPT ![f] = t]
      BY <2>2
    <3> HIDE DEF t
    <3>3. sy'[f] = t
      BY <3>2, <1>s
    <3>4. Required(f)' = Required(f) /\ Differ(f)' = Differ(f)
      BY <3>1, <3>3 DEF Required, Differ
    <3>5. HasAll(f) => HasAll(f)'
      BY <2>1, <3>1, <3>3, <3>4 DEF HasAll
    <3> QED BY <2>1, <2>2, <3>1, <3>2, <3>5, <1>k, <1>q, <1>g DEF Syncing
  <2>3. CASE CanMiss(f, a) /\ SyncEnds(f, "missing")
    <3> DEFINE t == [s EXCEPT !.at = "missing"]
    <3>1. t.at = "missing" /\ t.ask = s.ask /\ t.excused = s.excused
      BY <1>s DEF SyncState
    <3>2. sy' = [sy EXCEPT ![f] = t] /\ End(f)
      BY <2>3 DEF SyncEnds, SyncGoes
    <3>3. s.source[a] # Absent /\ s.ask.kind # "unpack"
      BY <2>3 DEF CanMiss, FromStore
    <3>4. ~(Quiet(f) /\ HasAll(f))
      <4> SUFFICES ASSUME Quiet(f), HasAll(f) PROVE FALSE
        OBVIOUS
      <4>1. s.plan \subseteq indexed /\ Required(f) \subseteq Content(s.plan) /\ a \in Differ(f)
        BY <2>1 DEF HasAll
      <4>2. indexed \subseteq stored
        BY <1>s DEF Quiet, Safe
      <4>3. s.source[a] \in Required(f)
        BY <3>3, <4>1 DEF Required
      <4>4. Carriers(f, a) # {} /\ Carriers(f, a) \subseteq stored
        BY <3>3, <4>1, <4>2, <4>3 DEF Carriers, Content
      <4> QED BY <2>3, <4>4 DEF CanMiss
    <3>5. Quiet(f) => s.excused
      BY <1>k, <3>3, <3>4
    <3> HIDE DEF t
    <3> QED BY <3>1, <3>2, <3>3, <3>5, <1>q, <1>g DEF SyncResting
  <2>4. CASE SyncEnds(f, "failed")
    BY <2>4, <1>e
  <2> QED BY <1>7, <2>2, <2>3, <2>4 DEF ChangeAsset
<1>8. CASE RemoveSeen(f)
  <2> DEFINE t == [s EXCEPT !.seen = FALSE]
  <2>1. /\ s.at = "change" /\ Syncing(f) /\ UNCHANGED <<stored, indexed>> /\ GoOn
        /\ sy' = [sy EXCEPT ![f] = t]
    BY <1>8 DEF RemoveSeen, SyncAt, Syncing, SyncResting, fileVars
  <2>2. /\ t.at = "change" /\ t.left = s.left /\ t.plan = s.plan /\ t.source = s.source
        /\ t.target = s.target /\ t.ask = s.ask /\ t.excused = s.excused
    BY <1>s, <2>1 DEF SyncState
  <2> HIDE DEF t
  <2>3. sy'[f] = t
    BY <2>1, <1>s
  <2>4. Required(f)' = Required(f) /\ Differ(f)' = Differ(f)
    BY <2>2, <2>3 DEF Required, Differ
  <2>5. HasAll(f) => HasAll(f)'
    BY <2>1, <2>2, <2>3, <2>4 DEF HasAll
  <2> QED BY <2>1, <2>2, <2>5, <1>k, <1>q, <1>g DEF Syncing
<1>9. CASE EndChange(f) \/ ValidateTarget(f) \/ WriteCache(f) \/ CrashSync(f)
  <2>1. Syncing(f)
    BY <1>9 DEF EndChange, ValidateTarget, WriteCache, CrashSync, SyncAt, Syncing, SyncResting
  <2>2. \/ SyncEnds(f, "done") \/ SyncEnds(f, "failed")
        \/ \E at \in {"check", "cache"} : SyncGoes(f, at) /\ GoOn
    <3>1. EndChange(f) => \E at \in {"check", "cache"} : SyncGoes(f, at) /\ GoOn
      BY DEF EndChange
    <3>2. ValidateTarget(f) => SyncEnds(f, "failed") \/ (SyncGoes(f, "cache") /\ GoOn)
      BY Zenon DEF ValidateTarget
    <3>3. WriteCache(f) \/ CrashSync(f) => SyncEnds(f, "done") \/ SyncEnds(f, "failed")
      BY Zenon DEF WriteCache, CrashSync
    <3> QED BY <1>9, <3>1, <3>2, <3>3
  <2> QED BY <2>1, <2>2, <1>e, <1>m
<1>10. ASSUME NEW a \in Asset, EditFolder(f, a)
       PROVE  Had(f)' /\ \A g \in Folder \ {f} : sy'[g] = sy[g]
  <2> DEFINE t == [s EXCEPT !.at = "idle"]
  <2>1. sy' = [sy EXCEPT ![f] = t] /\ UNCHANGED <<running, overlapped, disturbed>>
    BY <1>10 DEF EditFolder
  <2>2. t.at = "idle"
    BY <1>s DEF SyncState
  <2> HIDE DEF t
  <2>3. sy'[f] = t
    BY <2>1, <1>s
  <2>4. HasAll(f)'
    BY <2>2, <2>3 DEF HasAll
  <2> QED BY <2>1, <2>2, <2>4, <1>g DEF SyncResting
<1> QED BY <1>1, <1>2, <1>3, <1>4, <1>5, <1>6, <1>7, <1>8, <1>9, <1>10 DEF FolderStep, SyncProgress

LEMMA HadInit == Init => HadInv
<1> SUFFICES ASSUME Init, NEW f \in Folder PROVE Had(f)
  BY DEF HadInv
<1>1. sy[f].at = "idle"
  BY DEF Init, FolderInit, IdleSync
<1> QED BY <1>1 DEF Had, HasAll, Syncing, SyncResting

LEMMA HadNext == TypesInv /\ SafeInv /\ HadInv /\ [Next]_vars => HadInv'
<1> SUFFICES ASSUME TypesInv, SafeInv, HadInv, [Next]_vars PROVE HadInv'
  OBVIOUS
<1>t. RunTypeOK /\ FolderTypeOK /\ Roles
  BY DEF TypesInv, StoreTypeOK, SafeInv
<1>1. CASE Uploads
  <2>1. PICK u \in Uploader : UploadStep(u)
    BY <1>1 DEF Uploads
  <2>2. PICK role \in {"read", "write"} : Runs(u, role)
    BY <2>1, UploadRuns
  <2>3. role \in Role /\ Grows /\ sy' = sy /\ u \notin Folder
    BY <1>1, <2>1, UploadsGrow, ProcessAssumption DEF Role, Uploads, folderVars
  <2> QED BY <1>t, <2>2, <2>3, HadBeside DEF HadInv
<1>2. CASE Clones
  <2>1. PICK c \in Cloner : CloneStep(c)
    BY <1>2 DEF Clones
  <2>2. Runs(c, "write") /\ "write" \in Role /\ Grows /\ sy' = sy /\ c \notin Folder
    BY <1>2, <2>1, CloneRuns, ClonesGrow, ProcessAssumption DEF Role, Clones, folderVars
  <2> QED BY <1>t, <2>2, HadBeside DEF HadInv
<1>3. CASE Prunes
  <2>1. PICK p \in Pruner : PruneStep(p)
    BY <1>3 DEF Prunes
  <2>2. Runs(p, "prune") /\ "prune" \in Role /\ sy' = sy /\ p \notin Folder
    BY <1>3, <2>1, PruneRuns, ProcessAssumption DEF Role, Prunes, folderVars
  <2>3. ASSUME NEW f \in Folder, Quiet(f), Syncing(f) PROVE Grows
    <3>1. "prune" \notin RolesOf(running)
      BY <2>3 DEF HadInv, Had
    <3>2. <<p, "prune">>[2] = "prune"
      OBVIOUS
    <3>3. <<p, "prune">> \notin running
      BY <3>1, <3>2 DEF RolesOf
    <3>4. pr[p].at \in PruneResting
      BY <1>t, <3>3 DEF Roles
    <3> QED BY <2>1, <3>4, RestingPruneKeeps
  <2> QED BY <1>t, <2>2, <2>3, HadBeside DEF HadInv
<1>4. CASE Syncs
  <2>1. PICK f \in Folder : FolderStep(f)
    BY <1>4 DEF Syncs
  <2>2. Had(f)' /\ \A g \in Folder \ {f} : sy'[g] = sy[g]
    BY <2>1, SyncHas DEF HadInv
  <2>3. Runs(f, "read") /\ "read" \in Role
    BY <1>t, <2>1, SyncRuns DEF Role
  <2>4. Grows
    BY <2>1 DEF FolderStep, StartSync, SyncProgress, CrashSync, EditFolder, ReadConfig,
           ReadSource, ReadTarget, QueryContent, DeleteCache, ChangeAsset, RemoveSeen, EndChange,
           ValidateTarget, WriteCache, fileVars, Grows
  <2>5. \A g \in Folder \ {f} : Had(g)'
    BY <1>t, <2>2, <2>3, <2>4, HadBeside DEF HadInv
  <2> QED BY <2>2, <2>5 DEF HadInv
<1>5. CASE UNCHANGED vars
  <2> SUFFICES ASSUME NEW f \in Folder PROVE Had(f)'
    BY DEF HadInv
  <2>1. UNCHANGED <<indexed, running, overlapped, disturbed, sy>>
    BY <1>5 DEF vars, storeVars, fileVars, runVars, folderVars
  <2>2. /\ Required(f)' = Required(f) /\ Differ(f)' = Differ(f) /\ Syncing(f)' = Syncing(f)
        /\ RolesOf(running)' = RolesOf(running) /\ Quiet(f)' = Quiet(f)
    BY <2>1 DEF Required, Differ, Syncing, RolesOf, Quiet
  <2>3. HasAll(f) => HasAll(f)'
    BY <2>1, <2>2 DEF HasAll
  <2>4. Had(f)
    BY DEF HadInv
  <2> QED BY <2>1, <2>2, <2>3, <2>4 DEF Had
<1> QED BY <1>1, <1>2, <1>3, <1>4, <1>5 DEF Next

(* A version that was uploaded and not pruned can be had: a sync that ends *)
(* for want of a block had a prune beside it, or read a version that was   *)
(* lost already or an .lsi that was out of date.                           *)
THEOREM UploadedTruth == Spec => []UploadedCanBeHad
<1>1. HadInv => UploadedCanBeHad
  <2> SUFFICES ASSUME HadInv, NEW f \in Folder, sy[f].at = "missing"
               PROVE  overlapped \/ f \in disturbed \/ sy[f].excused
    BY DEF UploadedCanBeHad
  <2> QED BY DEF HadInv, Had, HasAll, Quiet
<1>2. TypesInv /\ TypesInv' /\ SafeInv /\ SafeInv' /\ HadInv /\ [Next]_vars => HadInv'
  BY HadNext
<1> QED BY HadInit, TypesAlways, SafeAlways, <1>1, <1>2, PTL DEF Spec

===============================================================================
