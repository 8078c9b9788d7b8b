--------------------------- MODULE CommandsProgress ---------------------------
(***************************************************************************)
(* Why every command comes to an end.  Two facts make the argument: a      *)
(* command that runs can take a step in which no call fails, and each of   *)
(* its steps leaves less to do, whatever the others do meanwhile.  What is *)
(* left is a pair of numbers, <<stage, rest>>: the stages of the command   *)
(* that are still to come, and the rest of the work in this one.           *)
(***************************************************************************)
EXTENDS Commands

\* Blocks are named by hashes of 64 bits; a folder has finitely many paths.
ASSUME FinitenessAssumption == IsFiniteSet(Block) /\ IsFiniteSet(Asset)

\* Below is well-founded on pairs of natural numbers.
Below(p, q) == p[1] < q[1] \/ (p[1] = q[1] /\ p[2] < q[2])

-----------------------------------------------------------------------------
(* The step that a running command can take: the guards of its actions,    *)
(* without their faults.                                                   *)

UploadHasStep(u) ==
    LET needed == Needed(up[u].version) IN
    \/ up[u].at \in {"read", "publish", "local", "list", "close", "config"}
    \/ /\ At(u, "query")
       /\ IF up[u].kind = "index" THEN Existing(indexed, needed) # {}
          ELSE \E index \in WorthReusing(indexed, needed) :
               \E found \in Existing(index, needed) : Packings(needed \ Content(found)) # {}
    \/ At(u, "put") /\ (up[u].made \subseteq up[u].put \/ up[u].made \ up[u].put # {})
    \/ At(u, "rebuild") /\ (up[u].found = up[u].made \/ up[u].found \ up[u].made # {})

\* A goroutine of the gather loop that is at work can send a result.
JobHasStep(p, n) ==
    LET v == versionFile[n] IN
    \/ v = NoFile
    \/ pr[p].ask.local /\ ~pr[p].ask.rewrite /\ localIndex[n] # NoFile
    \/ Existing(IF pr[p].index = NoFile THEN indexed ELSE pr[p].index, Needed(v)) # {}

PruneHasStep(p) ==
    \/ PruneAt(p, "index")
    \/ PruneAt(p, "next") /\ Active(p) < PoolSize /\ pr[p].todo # <<>>
    \/ PruneAt(p, "next") /\ Active(p) = PoolSize /\ pr[p].results # {}
    \/ PruneAt(p, "drain")
    \/ PruneAt(p, "final") /\ (Active(p) = 0 \/ pr[p].results # {})
    \/ pr[p].at \in {"next", "final"} /\ \E n \in pr[p].jobs : JobHasStep(p, n)
    \/ PruneAt(p, "prune") /\ pr[p].ask.kind = "store"
    \/ PruneAt(p, "prune") /\ pr[p].ask.kind = "index" /\ pr[p].index # NoFile
    \/ PruneAt(p, "scan") /\ (pr[p].listed = NoFile \/ pr[p].err \/ pr[p].index = NoFile)
    \/ PruneAt(p, "scan") /\ pr[p].listed # NoFile /\ pr[p].index # NoFile
    \/ PruneAt(p, "delete") /\ pr[p].ask.kind = "store"
    \/ PruneAt(p, "delete") /\ pr[p].ask.kind = "blocks"

CloneHasStep(c) ==
    LET needed == Needed(cl[c].current)
        index == IF cl[c].cached = NoFile THEN indexed ELSE cl[c].cached
    IN
    \/ cl[c].at \in {"next", "unzip", "rescan", "publish", "local", "close"}
    \/ CloneAt(c, "change") /\ cl[c].current # NoFile
    \/ /\ CloneAt(c, "query") /\ cl[c].current # NoFile
       /\ \E worth \in WorthReusing(index, needed) :
          \E found \in Existing(worth, needed) : Packings(needed \ Content(found)) # {}
    \/ CloneAt(c, "put") /\ (cl[c].made \subseteq cl[c].put \/ cl[c].made \ cl[c].put # {})
    \/ CloneAt(c, "wait") /\ (cl[c].flush \in {"running", "ok"} \/ FlushFailed(c))

SyncHasStep(f) ==
    LET locals == {localIndex[n] : n \in NamesOf(f)}
        index == IF sy[f].ask.local /\ NoFile \notin locals THEN UNION locals ELSE indexed
    IN
    \/ sy[f].at \in {"config", "target", "clean", "check", "cache"}
    \/ SyncAt(f, "source") /\ sy[f].todo # <<>>
    \/ SyncAt(f, "query") /\ (sy[f].ask.kind = "unpack" \/ Existing(index, Required(f)) # {})
    \/ SyncAt(f, "change") /\ (sy[f].seen \/ sy[f].left = {})
    \/ SyncAt(f, "change") /\ \E a \in sy[f].left : CanFetch(f, a) \/ CanMiss(f, a)

\* A command that runs can go on without a call that fails, whatever its calls
\* returned before: a gather loop of a prune takes one result for each goroutine
\* that it starts, so that one it waits for has a goroutine that will send it;
\* clone-store waits for a flush that it started; every query has an answer.
EveryoneHasAStep ==
    /\ \A u \in Uploader : up[u].at \notin Resting => UploadHasStep(u)
    /\ \A p \in Pruner : pr[p].at \notin PruneResting => PruneHasStep(p)
    /\ \A c \in Cloner : cl[c].at \notin CloneResting => CloneHasStep(c)
    /\ \A f \in Folder : sy[f].at \notin SyncResting => SyncHasStep(f)

-----------------------------------------------------------------------------
(* What a command has left to do, from its record. *)

UploadStage(at) ==
    CASE at \in Resting -> 0 [] at = "config" -> 1 [] at = "close" -> 2
      [] at = "local" -> 3 [] at = "publish" -> 4 [] at \in {"put", "rebuild"} -> 5
      [] at \in {"query", "list"} -> 6 [] at = "read" -> 7

UploadRest(s) ==
    CASE s.at = "put" -> Cardinality(s.made \ s.put)
      [] s.at = "rebuild" -> Cardinality(s.found \ s.made)
      [] OTHER -> 0

UploadLeft(s) == <<UploadStage(s.at), UploadRest(s)>>

PruneStage(at) ==
    CASE at \in PruneResting -> 0 [] at = "delete" -> 1 [] at = "prune" -> 2
      [] at \in {"next", "drain", "final"} -> 3 [] at \in {"index", "scan"} -> 4

\* A version in the list costs the gather loop four steps: the goroutine is
\* started, it sends its result, the loop takes it, and finds no other ready.
Gathering(s) ==
    4 * Len(s.todo) + 2 * Cardinality(s.jobs) + Cardinality(s.results)
        + (IF s.at = "drain" THEN 1 ELSE 0)

Scanning(s) ==
    (IF s.index = NoFile /\ ~s.err THEN 1 ELSE 0) + (IF s.listed = NoFile THEN 1 ELSE 0)

PruneRest(s) ==
    CASE s.at \in {"next", "drain", "final"} -> Gathering(s)
      [] s.at = "scan" -> Scanning(s)
      [] s.at = "delete" -> Cardinality(s.doomed)
      [] OTHER -> 0

PruneLeft(s) == <<PruneStage(s.at), PruneRest(s)>>

CloneStage(at) ==
    CASE at \in CloneResting -> 0 [] at = "close" -> 1 [] at = "next" -> 2
      [] at = "wait" -> 3 [] at = "local" -> 4 [] at = "publish" -> 5 [] at = "put" -> 6
      [] at = "query" -> 7 [] at = "rescan" -> 8 [] at = "unzip" -> 9 [] at = "change" -> 10

CloneRest(s) ==
    CASE s.at = "put" -> Cardinality(s.made \ s.put)
      [] s.at # "put" /\ s.flush = "running" -> 1
      [] OTHER -> 0

\* A version in the list costs the stages from "next" round to "next".
CloneLeft(s) == <<9 * Len(s.todo) + CloneStage(s.at), CloneRest(s)>>

SyncStage(at) ==
    CASE at \in SyncResting -> 0 [] at = "cache" -> 1 [] at = "check" -> 2
      [] at = "change" -> 3 [] at = "clean" -> 4 [] at = "query" -> 5
      [] at = "target" -> 6 [] at = "source" -> 7 [] at = "config" -> 8

SyncRest(s) ==
    CASE s.at = "source" -> Len(s.todo)
      [] s.at = "change" -> Cardinality(s.left) + (IF s.seen THEN 1 ELSE 0)
      [] OTHER -> 0

SyncLeft(s) == <<SyncStage(s.at), SyncRest(s)>>

\* No command goes round in circles: each of its steps leaves it less to do.  A
\* gather loop takes each result once, a clone leaves its loop over the versions
\* whichever call fails, and a deletion that failed is not tried again.
NobodyGoesRound ==
    [][/\ \A u \in Uploader : UploadProgress(u) => Below(UploadLeft(up'[u]), UploadLeft(up[u]))
       /\ \A p \in Pruner : PruneProgress(p) => Below(PruneLeft(pr'[p]), PruneLeft(pr[p]))
       /\ \A c \in Cloner : CloneProgress(c) => Below(CloneLeft(cl'[c]), CloneLeft(cl[c]))
       /\ \A f \in Folder : SyncProgress(f) => Below(SyncLeft(sy'[f]), SyncLeft(sy[f]))]_vars

=============================================================================
