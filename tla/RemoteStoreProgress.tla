-------------------------- MODULE RemoteStoreProgress --------------------------
(***************************************************************************)
(* Why every call of an open remote store returns.  Two facts make the     *)
(* argument: as long as a call is out, some goroutine has a step to take   *)
(* in which no remote operation fails; and each step of a goroutine leaves *)
(* them all less to do.  So when the callers call no more, the goroutines  *)
(* come to rest, and when they rest all calls have returned.               *)
(***************************************************************************)
EXTENDS RemoteStore

\* Blocks are named by hashes of 64 bits.
ASSUME BlocksAreFinite == IsFiniteSet(Block)

-------------------------------------------------------------------------------
(* The steps that goroutines can take: the guards of their actions,        *)
(* without those of the faults.                                            *)

WorkerGoesOn(w) ==
    \/ wpc[w] = "top" /\ putChan = <<>> /\ (deleteChan = <<>> \/ close # "open")
    \/ Ready(w) /\ (putChan # <<>> \/ deleteChan # <<>>)
    \/ wpc[w] = "write"
    \/ wpc[w] = "announce" /\ Len(blockIndexChan) < IndexCap
    \/ /\ wpc[w] \in {"wait", "last"}
       /\ \/ tokens > 0 /\ replies < Cardinality(Worker)
          \/ close # "open" /\ putChan = <<>>

IndexGoesOn ==
    \/ ipc = "top" /\ queries = 0 /\ prune # "out" /\ blockIndexChan = <<>>
    \/ Turn /\ (blockIndexChan # <<>> \/ queries > 0 \/ prune = "out")
    \/ ipc = "serve" /\ Asked
    \/ ipc = "deletes" /\ (IF doomed = {} THEN deleting = 0
                                          ELSE Len(deleteChan) < DeleteCap)
    \/ ipc \in {"wait", "last"} /\ (indexToken \/ IndexClosed)
    \/ ipc = "end"
    \/ /\ ipc = "broken"
       /\ \/ indexToken \/ IndexClosed
          \/ blockIndexChan # <<>> \/ queries > 0 \/ prune = "out"

FlushGoesOn ==
    \/ flush = "tokens"
    \/ flush = "replies" /\ replies = Cardinality(Worker)
    \/ flush = "reply" /\ indexReply # "none"

CloseGoesOn ==
    \/ close = "workers" /\ ended >= EndsToCount
    \/ close = "index" /\ ended > 0

(* As long as a put, a query, a prune, a flush or the close is out, the    *)
(* goroutines do not all wait for one another: not the workers for room in *)
(* blockIndexChan, the content index worker for deletions, a flush for its *)
(* tokens, and Close for the ends of them all.                             *)
SomebodyGoesOn ==
    ~AllReturned =>
        \/ \E w \in Worker : WorkerGoesOn(w)
        \/ IndexGoesOn \/ FlushGoesOn \/ CloseGoesOn

-------------------------------------------------------------------------------
(* What the goroutines have left to do.  Each message and each phase is    *)
(* weighed by the steps that it still costs.                               *)

WorkersIn(phases) == Cardinality({w \in Worker : wpc[w] \in phases})

WorkersLeft ==
    WorkersIn({"top", "wait", "last", "write", "announce"})
        + WorkersIn({"top", "write", "announce"})
        + 3 * WorkersIn({"write", "announce"}) + WorkersIn({"write"})

MessagesLeft ==
    6 * Len(putChan) + 2 * Len(blockIndexChan) + 2 * Len(deleteChan)
        + 2 * queries + 2 * tokens + (IF indexToken THEN 2 ELSE 0)

PruneLeft ==
    CASE prune # "out" -> 0
      [] prune = "out" /\ ipc # "deletes" -> 3 * Cardinality(Block) + 4
      [] prune = "out" /\ ipc = "deletes" -> 3 * Cardinality(doomed) + 3

IndexLeft ==
    (CASE ipc = "top" -> 2 [] ipc = "gone" -> 0 [] OTHER -> 1)
        + (IF cached THEN 0 ELSE 1)

FlushLeft ==
    CASE flush = "tokens" -> 2 * Cardinality(Worker) + 5
      [] flush = "replies" -> 4 [] flush = "reply" -> 1 [] flush = "none" -> 0

CloseLeft ==
    CASE close = "open" -> 3 [] close = "workers" -> 2 [] close = "index" -> 1
      [] close = "closed" -> 0

WorkLeft ==
    WorkersLeft + MessagesLeft + PruneLeft + IndexLeft + FlushLeft + CloseLeft

(* The goroutines do not keep each other busy: whatever they do, whatever  *)
(* fails, and in whatever order they are scheduled, there is less left to  *)
(* do, unless a caller calls.                                              *)
WorkRunsOut == [][Call \/ WorkLeft' < WorkLeft]_vars
===============================================================================
