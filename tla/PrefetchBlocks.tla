---------------------------- MODULE PrefetchBlocks ----------------------------
(***************************************************************************)
(* How the workers of a remote block store hand out blocks: fetchBlock,    *)
(* prefetchBlock and flushPrefetch of src/remotestore/remotestore.go, and  *)
(* the part of remoteWorker that calls them.                               *)
(*                                                                         *)
(* All workers share the map prefetchBlocks, from a block to the fetch or  *)
(* prefetch that is under way for it, the prefetched block, or nil once    *)
(* that has been handed out.  They hold the map's lock only before and     *)
(* after the remote read, so between the two the entry may be taken,       *)
(* flushed, or be another one.  A get that finds a read under way leaves   *)
(* its callback with the entry.                                            *)
(*                                                                         *)
(* Abstractions:                                                           *)
(*   - a remote read succeeds or fails, with its retries;                  *)
(*   - every block has size 1 in prefetchMemory;                           *)
(*   - the callbacks of one answer are called in one step: they run after  *)
(*     the lock is released and touch nothing of the store;                *)
(*   - the channels have room (src/remotestore/remotestore.go:976-984);    *)
(*   - puts and deletes, which keep a worker busy but touch nothing here,  *)
(*     are left out.                                                       *)
(*                                                                         *)
(* The callers of the store are of two kinds.  The quiet ones never have   *)
(* two gets of one block out, because of the share block store in front    *)
(* (cmd_downsync.go:222-227, cmd_clonestore.go:607-613), and flush or      *)
(* close the store only when no get is out.  Any caller may do both.       *)
(***************************************************************************)
EXTENDS Integers, Sequences, FiniteSets

CONSTANTS
    Worker,         \* the worker goroutines
    Block,          \* the blocks of the store
    Get,            \* the calls of GetStoredBlock
    MaxMemory,      \* maxPrefetchMemory, in blocks
    Callers,        \* the kinds of callers: "quiet" and "any"
    MaxPrefetches,  \* bound: blocks that are preflighted
    MaxFlushes      \* bound: tokens sent to the workers by Flush

NoBlock == "no block"
NoGet == "no get"

ASSUME PrefetchAssumption ==
    /\ IsFiniteSet(Worker) /\ Worker # {}
    /\ NoBlock \notin Block
    /\ MaxMemory \in Nat
    /\ Callers \subseteq {"quiet", "any"}
    /\ MaxPrefetches \in Nat /\ MaxFlushes \in Nat

VARIABLES
    callers,        \* the kind of callers
    prefetchBlocks, \* the map
    prefetchMemory,
    getChan,        \* getBlockChan
    prefetchChan,   \* prefetchBlockChan
    flushChan,      \* the number of tokens in workerFlushChan
    closed,         \* Close was called
    pc,             \* where each worker is
    permit,         \* whether it saw room in prefetchMemory when it began to wait
    block,          \* the block it reads
    get,            \* the get it reads it for
    wanted,         \* the block each get asks for, once it was called
    answers,        \* how often its callback was called
    panicked,       \* a nil entry was used: the program is gone
    prefetches,     \* blocks preflighted so far
    flushes         \* tokens sent so far

chanVars == <<getChan, prefetchChan, flushChan, closed, prefetches, flushes>>
workVars == <<permit, block, get>>
vars == <<callers, prefetchBlocks, prefetchMemory, chanVars, pc, workVars, wanted,
          answers, panicked>>

(* A pendingPrefetchedBlock, or that the map has none or nil for a block.  *)
Slot == [is : {"absent", "nil", "entry"}, stored : BOOLEAN, err : BOOLEAN,
         waiting : Seq(Get)]

Without(is) == [is |-> is, stored |-> FALSE, err |-> FALSE, waiting |-> <<>>]

Waiting(b) == prefetchBlocks[b].waiting
Waiters(b) == {Waiting(b)[i] : i \in DOMAIN Waiting(b)}
IsEntry(b) == prefetchBlocks[b].is = "entry"
Prefetched == {b \in Block : prefetchBlocks[b].stored}

Phase == {"top", "wait", "fetching", "prefetching", "clear", "stop", "gone"}

TypeOK ==
    /\ callers \in {"quiet", "any"}
    /\ prefetchBlocks \in [Block -> Slot]
    /\ \A b \in Block : ~IsEntry(b) => prefetchBlocks[b] = Without(prefetchBlocks[b].is)
    /\ prefetchMemory \in Nat
    /\ getChan \in Seq(Get)
    /\ prefetchChan \in Seq(Block)
    /\ flushChan \in Nat
    /\ closed \in BOOLEAN
    /\ pc \in [Worker -> Phase]
    /\ permit \in [Worker -> BOOLEAN]
    /\ block \in [Worker -> Block \cup {NoBlock}]
    /\ get \in [Worker -> Get \cup {NoGet}]
    /\ \A w \in Worker : pc[w] \in {"fetching", "prefetching"} => block[w] \in Block
    /\ \A w \in Worker : pc[w] = "fetching" => get[w] \in Get
    /\ wanted \in [Get -> Block \cup {NoBlock}]
    /\ answers \in [Get -> Nat]
    /\ panicked \in BOOLEAN
    /\ prefetches \in Nat /\ flushes \in Nat

Init ==
    /\ callers \in Callers
    /\ prefetchBlocks = [b \in Block |-> Without("absent")]
    /\ prefetchMemory = 0
    /\ getChan = <<>>
    /\ prefetchChan = <<>>
    /\ flushChan = 0
    /\ closed = FALSE
    /\ pc = [w \in Worker |-> "top"]
    /\ permit = [w \in Worker |-> FALSE]
    /\ block = [w \in Worker |-> NoBlock]
    /\ get = [w \in Worker |-> NoGet]
    /\ wanted = [g \in Get |-> NoBlock]
    /\ answers = [g \in Get |-> 0]
    /\ panicked = FALSE
    /\ prefetches = 0
    /\ flushes = 0

-------------------------------------------------------------------------------
(* The callers of the store                                                *)

Quiet == callers = "quiet"

Called(g) == wanted[g] # NoBlock
Out(g) == Called(g) /\ answers[g] = 0

Flushing == flushChan > 0 \/ \E w \in Worker : pc[w] \in {"clear", "stop"}

GetStoredBlock(g, b) ==
    /\ ~Called(g) /\ ~closed
    /\ Quiet => ~Flushing /\ \A h \in Get : Out(h) => wanted[h] # b
    /\ wanted' = [wanted EXCEPT ![g] = b]
    /\ getChan' = Append(getChan, g)
    /\ UNCHANGED <<prefetchBlocks, prefetchMemory, prefetchChan, flushChan, closed,
                   prefetches, flushes, pc, workVars, answers, panicked>>

(* onPreflighMessage, one block of it.                                     *)
Preflight(b) ==
    /\ prefetches < MaxPrefetches /\ ~closed
    /\ prefetches' = prefetches + 1
    /\ prefetchChan' = Append(prefetchChan, b)
    /\ UNCHANGED <<prefetchBlocks, prefetchMemory, getChan, flushChan, closed,
                   flushes, pc, workVars, wanted, answers, panicked>>

MayFlush == Quiet => \A g \in Get : ~Out(g)

Flush ==
    /\ flushes < MaxFlushes /\ ~closed /\ MayFlush
    /\ flushes' = flushes + 1
    /\ flushChan' = flushChan + 1
    /\ UNCHANGED <<prefetchBlocks, prefetchMemory, getChan, prefetchChan, closed,
                   prefetches, pc, workVars, wanted, answers, panicked>>

Close ==
    /\ ~closed /\ MayFlush
    /\ closed' = TRUE
    /\ UNCHANGED <<prefetchBlocks, prefetchMemory, getChan, prefetchChan, flushChan,
                   prefetches, flushes, pc, workVars, wanted, answers, panicked>>

-------------------------------------------------------------------------------
(* A worker                                                                *)

Goto(w, phase) == pc' = [pc EXCEPT ![w] = phase]

SetSlot(b, slot) == prefetchBlocks' = [prefetchBlocks EXCEPT ![b] = slot]

Answer(gets) ==
    answers' = [g \in Get |-> IF g \in gets THEN answers[g] + 1 ELSE answers[g]]

(* MUTANT of HasRoom: one block more.                                      *)
HasRoomForMore == prefetchMemory <= MaxMemory

HasRoom == prefetchMemory < MaxMemory

(* The first select finds no get: the worker looks for room in             *)
(* prefetchMemory, and waits.                                              *)
Poll(w) ==
    /\ pc[w] = "top"
    /\ getChan = <<>> \/ closed
    /\ permit' = [permit EXCEPT ![w] = HasRoom]
    /\ Goto(w, "wait")
    /\ UNCHANGED <<prefetchBlocks, prefetchMemory, chanVars, block, get, wanted,
                   answers, panicked>>

(* fetchBlock, up to the remote read: it hands out a prefetched block or   *)
(* its error, leaves the callback with the read under way, or begins one.  *)
(* MUTANT of Released: without looking whether there is a block.           *)
ReleasedAlways(b) == 1

Released(b) == IF prefetchBlocks[b].stored THEN 1 ELSE 0

Fetch(w) ==
    /\ pc[w] \in {"top", "wait"} /\ getChan # <<>>
    /\ getChan' = Tail(getChan)
    /\ LET g == Head(getChan)
           b == wanted[g]
           slot == prefetchBlocks[b]
       IN  \/ /\ IsEntry(b) /\ (slot.stored \/ slot.err)
              /\ prefetchMemory' = prefetchMemory - Released(b)
              /\ SetSlot(b, Without("nil"))
              /\ Answer({g})
              /\ Goto(w, "top")
              /\ UNCHANGED <<block, get>>
           \/ /\ IsEntry(b) /\ ~slot.stored /\ ~slot.err
              /\ prefetchMemory' = prefetchMemory
              /\ SetSlot(b, [slot EXCEPT !.waiting = Append(@, g)])
              /\ Goto(w, "top")
              /\ UNCHANGED <<block, get, answers>>
           \/ /\ ~IsEntry(b)
              /\ SetSlot(b, Without("entry"))
              /\ block' = [block EXCEPT ![w] = b]
              /\ get' = [get EXCEPT ![w] = g]
              /\ Goto(w, "fetching")
              /\ UNCHANGED <<prefetchMemory, answers>>
    /\ UNCHANGED <<prefetchChan, flushChan, closed, prefetches, flushes, permit,
                   wanted, panicked>>

Done(w) ==
    /\ Goto(w, "top")
    /\ block' = [block EXCEPT ![w] = NoBlock]
    /\ get' = [get EXCEPT ![w] = NoGet]

(* fetchBlock, after the remote read: the callbacks left with the entry    *)
(* are called, then its own.  If the entry was taken it calls none, and if *)
(* it was flushed it uses a nil pointer.                                   *)
EndFetch(w) ==
    /\ pc[w] = "fetching"
    /\ LET b == block[w]
       IN  \/ /\ IsEntry(b)
              /\ SetSlot(b, Without("nil"))
              /\ Answer(Waiters(b) \cup {get[w]})
              /\ UNCHANGED panicked
           \/ /\ prefetchBlocks[b].is = "nil"
              /\ UNCHANGED <<prefetchBlocks, answers, panicked>>
           \/ /\ prefetchBlocks[b].is = "absent"
              /\ panicked' = TRUE
              /\ UNCHANGED <<prefetchBlocks, answers>>
    /\ Done(w)
    /\ UNCHANGED <<prefetchMemory, chanVars, permit, wanted>>

(* prefetchBlock, up to the remote read.                                   *)
Prefetch(w) ==
    /\ pc[w] = "wait" /\ permit[w] /\ prefetchChan # <<>>
    /\ prefetchChan' = Tail(prefetchChan)
    /\ LET b == Head(prefetchChan)
       IN  \/ /\ prefetchBlocks[b].is # "absent"
              /\ Goto(w, "top")
              /\ UNCHANGED <<prefetchBlocks, block>>
           \/ /\ prefetchBlocks[b].is = "absent"
              /\ SetSlot(b, Without("entry"))
              /\ block' = [block EXCEPT ![w] = b]
              /\ Goto(w, "prefetching")
    /\ UNCHANGED <<prefetchMemory, getChan, flushChan, closed, prefetches, flushes,
                   permit, get, wanted, answers, panicked>>

(* prefetchBlock finds its entry gone, or handed out.                      *)
(* MUTANT of DropsBlock: it tests for nil as fetchBlock does.              *)
DropsTaken(b) == prefetchBlocks[b].is = "nil"

DropsBlock(b) == ~IsEntry(b)

(* MUTANT of NobodyWaits: the callbacks are not looked at again.           *)
NeverWaits(b) == TRUE

NobodyWaits(b) == Waiting(b) = <<>>

(* The callbacks of the loop (remotestore.go:398), which leaves out the    *)
(* first and the last; the first is called after it.                       *)
(* MUTANT of CalledInLoop: all are called in the loop.                     *)
CalledAll(b) == DOMAIN Waiting(b)

CalledInLoop(b) == 2 .. Len(Waiting(b)) - 1

(* prefetchBlock, after the remote read: the block, or the error, is kept  *)
(* with the entry unless somebody waits for it.                            *)
EndPrefetch(w) ==
    /\ pc[w] = "prefetching"
    /\ LET b == block[w]
       IN  /\ panicked' = (~DropsBlock(b) /\ ~IsEntry(b))
           /\ \/ /\ ~IsEntry(b)
                 /\ UNCHANGED <<prefetchBlocks, prefetchMemory, answers>>
              \/ /\ IsEntry(b) /\ NobodyWaits(b)
                 /\ \/ /\ SetSlot(b, [prefetchBlocks[b] EXCEPT !.stored = TRUE,
                                                               !.err = FALSE])
                       /\ prefetchMemory' = prefetchMemory + 1
                    \/ /\ SetSlot(b, [prefetchBlocks[b] EXCEPT !.err = TRUE])
                       /\ UNCHANGED prefetchMemory
                 /\ UNCHANGED answers
              \/ /\ IsEntry(b) /\ ~NobodyWaits(b)
                 /\ SetSlot(b, Without("nil"))
                 /\ LET inLoop == {Waiting(b)[i] : i \in CalledInLoop(b)}
                        first == Waiting(b)[1]
                    IN  answers' = [g \in Get |->
                           answers[g] + (IF g \in inLoop THEN 1 ELSE 0)
                                      + (IF g = first THEN 1 ELSE 0)]
                 /\ UNCHANGED prefetchMemory
    /\ Done(w)
    /\ UNCHANGED <<chanVars, permit, wanted>>

(* flushPrefetch empties the channel,                                      *)
Drain(w, phase) ==
    /\ prefetchChan' = <<>>
    /\ Goto(w, phase)
    /\ UNCHANGED <<prefetchBlocks, prefetchMemory, getChan, closed, prefetches,
                   flushes, workVars, wanted, answers, panicked>>

TakeFlush(w) ==
    /\ pc[w] = "wait" /\ flushChan > 0
    /\ flushChan' = flushChan - 1
    /\ Drain(w, "clear")

Stop(w) ==
    /\ pc[w] = "wait" /\ closed
    /\ UNCHANGED flushChan
    /\ Drain(w, "stop")

(* and removes every entry that has no callback, with its block.           *)
Clear(w) ==
    /\ pc[w] \in {"clear", "stop"}
    /\ LET unwaited == {b \in Block : Waiting(b) = <<>>}
       IN  /\ prefetchBlocks' = [b \in Block |-> IF b \in unwaited
                                    THEN Without("absent") ELSE prefetchBlocks[b]]
           /\ prefetchMemory' = prefetchMemory - Cardinality(Prefetched \cap unwaited)
    /\ Goto(w, IF pc[w] = "stop" THEN "gone" ELSE "top")
    /\ UNCHANGED <<chanVars, workVars, wanted, answers, panicked>>

-------------------------------------------------------------------------------
Work(w) ==
    /\ ~panicked
    /\ UNCHANGED callers
    /\ \/ Poll(w) \/ Fetch(w) \/ EndFetch(w) \/ Prefetch(w) \/ EndPrefetch(w)
       \/ TakeFlush(w) \/ Stop(w) \/ Clear(w)

Call ==
    /\ ~panicked
    /\ UNCHANGED callers
    /\ \/ \E g \in Get, b \in Block : GetStoredBlock(g, b)
       \/ \E b \in Block : Preflight(b)
       \/ Flush \/ Close

Next == Call \/ \E w \in Worker : Work(w)

Spec == Init /\ [][Next]_vars

(* Every worker goes on while it can; nobody has to call the store.        *)
FairSpec == Spec /\ \A w \in Worker : WF_vars(Work(w))

-------------------------------------------------------------------------------
(* Properties                                                              *)

(* A worker will answer g itself, when its read ends.                      *)
InHand(g) ==
    \E w \in Worker : pc[w] = "fetching" /\ get[w] = g /\ IsEntry(block[w])

(* Or it left its callback with an entry that a worker has a read for.     *)
LeftBehind(g) ==
    \E w \in Worker :
        /\ pc[w] \in {"fetching", "prefetching"}
        /\ g \in Waiters(block[w])

(* No get is forgotten: from its call to its answer it is in the channel,  *)
(* in the hand of a worker, or its callback is with an entry that a worker *)
(* comes back to, whatever was prefetched, taken and flushed meanwhile     *)
(* (fetchBlock and prefetchBlock drop the lock around the remote read).    *)
NoGetIsForgotten ==
    Quiet =>
        \A g \in Get : Out(g) =>
            \/ \E i \in DOMAIN getChan : getChan[i] = g
            \/ InHand(g)
            \/ LeftBehind(g)

(* No callback is called twice.                                            *)
AnsweredOnce == \A g \in Get : answers[g] <= 1

(* No worker uses an entry that a flush removed during its remote read.    *)
NeverPanics == Quiet => ~panicked

(* prefetchMemory never drops below the blocks that are kept: else more    *)
(* than maxPrefetchMemory would be prefetched.                             *)
MemoryCovers == prefetchMemory >= Cardinality(Prefetched)

(* The limit is checked before a worker begins to wait for a prefetch, so  *)
(* it may be exceeded, but by less than one block for each worker.         *)
MemoryIsBounded == prefetchMemory < MaxMemory + Cardinality(Worker)

(* Every get is answered, with the block or an error.                      *)
GetsAreAnswered == \A g \in Get : Quiet /\ Out(g) ~> answers[g] > 0

(* Whoever left a callback with a read is answered when the read ends: the *)
(* block is copied "due to multiple waiters" (remotestore.go:309), and     *)
(* only kept when "Nobody is actively waiting for the block" (:385).       *)
WaitersAreServed ==
    [][\A w \in Worker :
          pc[w] \in {"fetching", "prefetching"} /\ pc'[w] = "top" =>
              \A g \in Waiters(block[w]) : answers'[g] > answers[g]]_vars
===============================================================================
