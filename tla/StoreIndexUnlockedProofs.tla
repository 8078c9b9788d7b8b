----------------------- MODULE StoreIndexUnlockedProofs -----------------------
(***************************************************************************)
(* Proofs about the unlocked store index, for any blocks, clients, added   *)
(* indexes, orders of file names and bounds.                               *)
(***************************************************************************)
EXTENDS StoreIndexUnlocked, StoreIndexProofs, TLAPS

-------------------------------------------------------------------------------
(* What a client makes of an index it read, and where it goes on           *)

LEMMA PreparedType ==
    ASSUME TypeOK, NEW c \in Client, NEW i \in Index
    PROVE  Prepared(c, i) \in Index
BY MergeType, PruneToType DEF Prepared, TypeOK

LEMMA AfterReadingType ==
    ASSUME NEW c \in Client
    PROVE  AfterReading(c) \in {"exists", "relist", "got"} /\ AfterReading(c) \in Phase
<1>1. CASE Busy(c, "add")
  BY <1>1 DEF AfterReading, Phase
<1>2. CASE ~Busy(c, "add") /\ Busy(c, "prune")
  BY <1>2 DEF AfterReading, Phase
<1>3. CASE ~Busy(c, "add") /\ ~Busy(c, "prune")
  BY <1>3 DEF AfterReading, Phase
<1>4. QED
  BY <1>1, <1>2, <1>3

LEMMA AfterReadingOf ==
    ASSUME NEW c \in Client
    PROVE  /\ Busy(c, "add") => AfterReading(c) = "exists"
           /\ Busy(c, "prune") => AfterReading(c) = "relist"
           /\ ~Busy(c, "add") /\ ~Busy(c, "prune") => AfterReading(c) = "got"
<1>1. CASE Busy(c, "add")
  BY <1>1 DEF AfterReading, Busy
<1>2. CASE ~Busy(c, "add") /\ Busy(c, "prune")
  BY <1>2 DEF AfterReading, Busy
<1>3. CASE ~Busy(c, "add") /\ ~Busy(c, "prune")
  BY <1>3 DEF AfterReading
<1>4. QED
  BY <1>1, <1>2, <1>3

-------------------------------------------------------------------------------
(* Type correctness                                                        *)

(* A prune that lists again has nothing left to read: without this, its    *)
(* new listing need not hold what is left of the old one.                  *)
AllReadAtRelist == \A c \in Client : pc[c] = "relist" => left[c] = {}

LEMMA ForgetType ==
    ASSUME TypeOK, NEW c \in Client, Forget(c)
    PROVE  /\ op' \in [Client -> {"none", "add", "prune", "read"}]
           /\ pc' \in [Client -> Phase]
           /\ added' \in [Client -> Index]
           /\ keep' \in [Client -> SUBSET Block]
           /\ items' \in [Client -> SUBSET Index]
           /\ left' \in [Client -> SUBSET Index]
           /\ \A d \in Client : left'[d] \subseteq items'[d]
           /\ merged' \in [Client -> Index]
           /\ errors' \in [Client -> 0 .. MaxErrors - 1]
           /\ asked' \in [Client -> SUBSET Block]
BY EmptyIndexType DEF TypeOK, Forget, Phase, MaxErrors

LEMMA RetryType ==
    ASSUME TypeOK, NEW c \in Client, Retry(c)
    PROVE  /\ op' \in [Client -> {"none", "add", "prune", "read"}]
           /\ pc' \in [Client -> Phase]
           /\ added' \in [Client -> Index]
           /\ keep' \in [Client -> SUBSET Block]
           /\ items' \in [Client -> SUBSET Index]
           /\ left' \in [Client -> SUBSET Index]
           /\ \A d \in Client : left'[d] \subseteq items'[d]
           /\ merged' \in [Client -> Index]
           /\ asked' \in [Client -> SUBSET Block]
BY EmptyIndexType DEF TypeOK, Retry, Goto, Phase

LEMMA ErrorType ==
    ASSUME TypeOK, NEW c \in Client, Error(c)
    PROVE  /\ op' \in [Client -> {"none", "add", "prune", "read"}]
           /\ pc' \in [Client -> Phase]
           /\ added' \in [Client -> Index]
           /\ keep' \in [Client -> SUBSET Block]
           /\ items' \in [Client -> SUBSET Index]
           /\ left' \in [Client -> SUBSET Index]
           /\ \A d \in Client : left'[d] \subseteq items'[d]
           /\ merged' \in [Client -> Index]
           /\ errors' \in [Client -> 0 .. MaxErrors - 1]
           /\ asked' \in [Client -> SUBSET Block]
<1>1. CASE Forget(c)
  BY <1>1, ForgetType
<1>2. CASE errors[c] + 1 # MaxErrors /\ Retry(c)
           /\ errors' = [errors EXCEPT ![c] = @ + 1]
  BY <1>2, RetryType DEF TypeOK, MaxErrors
<1>3. QED
  BY <1>1, <1>2 DEF Error

LEMMA DeleteThenType ==
    ASSUME TypeOK, NEW c \in Client, NEW doomed \in SUBSET items[c],
           DeleteThen(c, doomed)
    PROVE  /\ op' \in [Client -> {"none", "add", "prune", "read"}]
           /\ pc' \in [Client -> Phase]
           /\ added' \in [Client -> Index]
           /\ keep' \in [Client -> SUBSET Block]
           /\ items' \in [Client -> SUBSET Index]
           /\ left' \in [Client -> SUBSET Index]
           /\ \A d \in Client : left'[d] \subseteq items'[d]
           /\ merged' \in [Client -> Index]
           /\ errors' \in [Client -> 0 .. MaxErrors - 1]
           /\ asked' \in [Client -> SUBSET Block]
BY DEF TypeOK, DeleteThen, Goto, Phase

LEMMA TypeOKInit == Init => TypeOK /\ AllReadAtRelist
BY EmptyIndexType DEF Init, TypeOK, AllReadAtRelist, Phase, MaxErrors

LEMMA AllReadAtRelistStep ==
    TypeOK /\ AllReadAtRelist /\ [Next]_vars => AllReadAtRelist'
<1> SUFFICES ASSUME TypeOK, AllReadAtRelist, [Next]_vars PROVE AllReadAtRelist'
  OBVIOUS
<1> USE DEF TypeOK, AllReadAtRelist, Goto
<1>1. ASSUME NEW c \in Client, StartAdd(c) \/ StartRead(c) \/ StartPrune(c)
      PROVE  AllReadAtRelist'
  BY <1>1 DEF StartAdd, StartRead, StartPrune, Start
<1>2. ASSUME NEW c \in Client, List(c) PROVE AllReadAtRelist'
  BY <1>2 DEF List
<1>3. ASSUME NEW c \in Client, ReadItem(c) PROVE AllReadAtRelist'
  BY <1>3 DEF ReadItem, IsLast
<1>4. ASSUME NEW c \in Client, Relist(c) PROVE AllReadAtRelist'
  BY <1>4 DEF Relist
<1>5. ASSUME NEW c \in Client, Exists(c) \/ Write(c) PROVE AllReadAtRelist'
  BY <1>5 DEF Exists, Write, DeleteThen, Retry
<1>6. ASSUME NEW c \in Client, DeleteItem(c) \/ FailDelete(c)
      PROVE  AllReadAtRelist'
  BY <1>6 DEF DeleteItem, FailDelete
<1>7. ASSUME NEW c \in Client, Return(c) \/ Crash(c) PROVE AllReadAtRelist'
  BY <1>7 DEF Return, Succeed, Crash, Forget
<1>8. ASSUME NEW c \in Client, FailCall(c) \/ FailWrite(c)
      PROVE  AllReadAtRelist'
  BY <1>8 DEF FailCall, FailWrite, Error, Forget, Retry, DeleteThen
<1>9. CASE UNCHANGED vars
  BY <1>9 DEF vars, clientVars
<1>10. QED
  BY <1>1, <1>2, <1>3, <1>4, <1>5, <1>6, <1>7, <1>8, <1>9 DEF Next, Step

LEMMA TypeOKStep == TypeOK /\ AllReadAtRelist /\ [Next]_vars => TypeOK'
<1> SUFFICES ASSUME TypeOK, AllReadAtRelist, [Next]_vars PROVE TypeOK'
  OBVIOUS
<1>1. ASSUME NEW c \in Client, StartAdd(c) PROVE TypeOK'
  BY <1>1, UnlockedAssumption DEF TypeOK, StartAdd, Start, Goto, Phase
<1>2. ASSUME NEW c \in Client, StartRead(c) PROVE TypeOK'
  BY <1>2 DEF TypeOK, StartRead, Start, Goto, Phase
<1>3. ASSUME NEW c \in Client, StartPrune(c) PROVE TypeOK'
  BY <1>3, UnlockedAssumption DEF TypeOK, StartPrune, Start, Goto, Phase
<1>4. ASSUME NEW c \in Client, List(c) PROVE TypeOK'
  <2>1. AfterReading(c) \in Phase
    BY AfterReadingType
  <2>2. Prepared(c, EmptyIndex) \in Index
    BY EmptyIndexType, PreparedType
  <2>3. QED
    BY <1>4, <2>1, <2>2, EmptyIndexType DEF TypeOK, List, Goto, Phase
<1>5. ASSUME NEW c \in Client, ReadItem(c) PROVE TypeOK'
  <2>1. AfterReading(c) \in Phase
    BY AfterReadingType
  <2>2. PICK item \in left[c] :
          \/ /\ pc' = [pc EXCEPT ![c] = "list"]
             /\ items' = [items EXCEPT ![c] = {}]
             /\ left' = [left EXCEPT ![c] = {}]
             /\ merged' = [merged EXCEPT ![c] = EmptyIndex]
          \/ /\ left' = [left EXCEPT ![c] = @ \ {item}]
             /\ items' = items
             /\ \/ /\ merged' = [merged EXCEPT ![c] = Prepared(c, Merge(merged[c], item))]
                   /\ pc' = [pc EXCEPT ![c] = AfterReading(c)]
                \/ /\ merged' = [merged EXCEPT ![c] = Merge(merged[c], item)]
                   /\ pc' = pc
    BY <1>5 DEF ReadItem, Goto
  <2>3. Merge(merged[c], item) \in Index
    <3>1. merged[c] \in Index /\ item \in Index
      BY DEF TypeOK
    <3>2. QED
      BY <3>1, MergeType
  <2>4. Prepared(c, Merge(merged[c], item)) \in Index
    BY <2>3, PreparedType
  <2>5. /\ pc' \in [Client -> Phase]
        /\ items' \in [Client -> SUBSET Index]
        /\ left' \in [Client -> SUBSET Index]
        /\ \A d \in Client : left'[d] \subseteq items'[d]
        /\ merged' \in [Client -> Index]
    BY <2>1, <2>2, <2>3, <2>4, EmptyIndexType DEF TypeOK, Phase
  <2>6. QED
    BY <1>5, <2>5 DEF TypeOK, ReadItem
<1>6. ASSUME NEW c \in Client, Relist(c) PROVE TypeOK'
  <2>1. left' = left /\ items' = [items EXCEPT ![c] = files]
    BY <1>6 DEF Relist
  <2>2. QED
    BY <1>6, <2>1 DEF TypeOK, AllReadAtRelist, Relist, Goto, Phase
<1>7. ASSUME NEW c \in Client, Exists(c) PROVE TypeOK'
  <2>1. CASE DeleteThen(c, {}) \/ DeleteThen(c, Doomed(c))
    BY <1>7, <2>1, DeleteThenType DEF TypeOK, Exists, Doomed
  <2>2. CASE Retry(c) /\ UNCHANGED errors
    BY <1>7, <2>2, RetryType DEF TypeOK, Exists
  <2>3. CASE Goto(c, "write") /\ UNCHANGED <<op, added, keep, items, left, merged, errors, asked>>
    BY <1>7, <2>3 DEF TypeOK, Exists, Goto, Phase
  <2>4. QED
    BY <1>7, <2>1, <2>2, <2>3 DEF Exists
<1>8. ASSUME NEW c \in Client, Write(c) PROVE TypeOK'
  <2>1. Doomed(c) \subseteq items[c] /\ merged[c] \in Index
    BY DEF Doomed, TypeOK
  <2>2. QED
    BY <1>8, <2>1, DeleteThenType DEF TypeOK, Write
<1>9. ASSUME NEW c \in Client, DeleteItem(c) PROVE TypeOK'
  BY <1>9 DEF TypeOK, DeleteItem
<1>10. ASSUME NEW c \in Client, Return(c) PROVE TypeOK'
  <2>1. promised' \subseteq Block
    <3>1. added[c].blocks \subseteq Block
      BY DEF TypeOK, Index
    <3>2. QED
      BY <1>10, <3>1 DEF TypeOK, Return, Succeed
  <2>2. Forget(c) /\ UNCHANGED <<files, written, ops, faults>>
    BY <1>10 DEF Return, Succeed
  <2>3. QED
    BY <2>1, <2>2, ForgetType DEF TypeOK
<1>11. ASSUME NEW c \in Client, FailCall(c) PROVE TypeOK'
  BY <1>11, ErrorType DEF TypeOK, FailCall, Fault
<1>12. ASSUME NEW c \in Client, FailWrite(c) PROVE TypeOK'
  <2>1. merged[c] \in Index
    BY DEF TypeOK
  <2>2. CASE DeleteThen(c, {})
    BY <1>12, <2>1, <2>2, DeleteThenType DEF TypeOK, FailWrite, Fault
  <2>3. CASE Error(c)
    BY <1>12, <2>1, <2>3, ErrorType DEF TypeOK, FailWrite, Fault
  <2>4. QED
    BY <1>12, <2>2, <2>3 DEF FailWrite
<1>13. ASSUME NEW c \in Client, FailDelete(c) PROVE TypeOK'
  BY <1>13 DEF TypeOK, FailDelete, Fault
<1>14. ASSUME NEW c \in Client, Crash(c) PROVE TypeOK'
  BY <1>14, ForgetType DEF TypeOK, Crash, Fault
<1>15. CASE UNCHANGED vars
  BY <1>15 DEF TypeOK, vars, clientVars
<1>16. QED
  BY <1>1, <1>2, <1>3, <1>4, <1>5, <1>6, <1>7, <1>8, <1>9, <1>10, <1>11,
     <1>12, <1>13, <1>14, <1>15 DEF Next, Step

(* Every variable keeps its type, for any set of clients, blocks, indexes  *)
(* and bounds: in particular a client only ever has files left to read or  *)
(* to delete that its last listing returned.                               *)
THEOREM TypeCorrect == Spec => []TypeOK
<1>1. Spec => [](TypeOK /\ AllReadAtRelist)
  BY TypeOKInit, TypeOKStep, AllReadAtRelistStep, PTL DEF Spec
<1>2. QED
  BY <1>1, PTL
-------------------------------------------------------------------------------
(* The inductive invariant                                                 *)
(*                                                                         *)
(* What holds in every history, first.                                     *)

AtDeletion(c) == pc[c] \in {"exists", "write", "delete"}

(* A client at work is at a step of what it does.                          *)
StepsOfOp ==
    \A c \in Client :
        /\ op[c] = "none" <=> pc[c] = "idle"
        /\ pc[c] = "relist" => op[c] = "prune"
        /\ pc[c] = "got" => op[c] = "read"
        /\ AtDeletion(c) => op[c] \in {"add", "prune"}

(* Files and listings hold indexes that were written.                      *)
OnlyWritten ==
    /\ files \subseteq written
    /\ \A c \in Client : items[c] \subseteq written
    /\ \A c \in Client : op[c] = "add" /\ pc[c] = "delete" => merged[c] \in written

(* A prune runs alone and drops nothing that is promised.                  *)
PruneAlone ==
    \A p \in Client : op[p] = "prune" =>
        /\ promised \subseteq keep[p]
        /\ \A c \in Client \ {p} : op[c] \notin {"add", "prune"}

AskedWasPromised == \A c \in Client : asked[c] \subseteq promised

(* What an add has merged holds what it listed.                            *)
AddMergedListed ==
    \A c \in Client : op[c] = "add" =>
        /\ pc[c] = "read" =>
              BlocksIn(items[c]) \subseteq merged[c].blocks \cup BlocksIn(left[c])
        /\ AtDeletion(c) =>
              added[c].blocks \cup BlocksIn(items[c]) \subseteq merged[c].blocks

(* A writer deletes nothing but what it listed, and not its own file; a    *)
(* prune only once its own file is there.                                  *)
DeletesListed ==
    \A c \in Client : pc[c] = "delete" =>
        /\ left[c] \subseteq items[c] \ {merged[c]}
        /\ op[c] = "prune" /\ left[c] # {} => merged[c] \in files

(* What holds as long as no index was written in two orders.               *)

Covered(blocks) == \E f \in files : blocks \subseteq f.blocks

(* What a client may delete, or has merged and will delete the sources of, *)
(* is covered by one file that is there.                                   *)
AddsCovered ==
    \A c \in Client : op[c] = "add" =>
        /\ pc[c] = "read" \/ AtDeletion(c) =>
              \A i \in items[c] : Covered(i.blocks)
        /\ pc[c] = "delete" => Covered(merged[c].blocks)

(* A prune or a reader has, or has still to read, what it must find.       *)
FoundBy(c) ==
    /\ op[c] = "prune" /\ pc[c] = "read" =>
          promised \subseteq merged[c].blocks \cup BlocksIn(left[c])
    /\ op[c] = "prune" /\ (pc[c] = "relist" \/ AtDeletion(c)) =>
          promised \subseteq merged[c].blocks
    /\ op[c] = "read" /\ pc[c] = "read" =>
          asked[c] \subseteq merged[c].blocks \cup BlocksIn(left[c])
    /\ pc[c] = "got" => asked[c] \subseteq merged[c].blocks

Found == \A c \in Client : FoundBy(c)

Structure ==
    /\ TypeOK /\ AllReadAtRelist
    /\ StepsOfOp /\ OnlyWritten /\ PruneAlone /\ AskedWasPromised
    /\ AddMergedListed /\ DeletesListed

Cover == NoLostBlocks /\ AddsCovered /\ Found

IInv == Structure /\ (OneOrderOnly => Cover)
-------------------------------------------------------------------------------
(* Each part is kept by every step.                                        *)

LEMMA StepsOfOpStep ==
    TypeOK /\ StepsOfOp /\ [Next]_vars => StepsOfOp'
<1> SUFFICES ASSUME TypeOK, StepsOfOp, [Next]_vars PROVE StepsOfOp'
  OBVIOUS
<1> USE DEF TypeOK, StepsOfOp, AtDeletion, Goto, Busy
<1>1. ASSUME NEW c \in Client, StartAdd(c) PROVE StepsOfOp'
  BY <1>1 DEF StartAdd, Start
<1>2. ASSUME NEW c \in Client, StartRead(c) PROVE StepsOfOp'
  BY <1>2 DEF StartRead, Start
<1>3. ASSUME NEW c \in Client, StartPrune(c) PROVE StepsOfOp'
  BY <1>3 DEF StartPrune, Start, NoPrune, NoUpload
<1>4. ASSUME NEW c \in Client, List(c) PROVE StepsOfOp'
  BY <1>4, AfterReadingOf DEF List
<1>5. ASSUME NEW c \in Client, ReadItem(c) PROVE StepsOfOp'
  BY <1>5, AfterReadingOf DEF ReadItem, IsLast
<1>6. ASSUME NEW c \in Client, Relist(c) PROVE StepsOfOp'
  BY <1>6 DEF Relist
<1>7. ASSUME NEW c \in Client, Exists(c) PROVE StepsOfOp'
  BY <1>7 DEF Exists, AlreadyListed, Doomed, DeleteThen, Retry
<1>8. ASSUME NEW c \in Client, Write(c) PROVE StepsOfOp'
  BY <1>8 DEF Write, Doomed, DeleteThen
<1>9. ASSUME NEW c \in Client, DeleteItem(c) PROVE StepsOfOp'
  BY <1>9 DEF DeleteItem
<1>10. ASSUME NEW c \in Client, Return(c) PROVE StepsOfOp'
  BY <1>10 DEF Return, Succeed, Forget
<1>11. ASSUME NEW c \in Client, FailCall(c) PROVE StepsOfOp'
  BY <1>11 DEF FailCall, Error, Forget, Retry
<1>12. ASSUME NEW c \in Client, FailWrite(c) PROVE StepsOfOp'
  BY <1>12 DEF FailWrite, Error, Forget, Retry, CountsAsOk, DeleteThen
<1>13. ASSUME NEW c \in Client, FailDelete(c) PROVE StepsOfOp'
  BY <1>13 DEF FailDelete
<1>14. ASSUME NEW c \in Client, Crash(c) PROVE StepsOfOp'
  BY <1>14 DEF Crash, Forget
<1>15. CASE UNCHANGED vars
  BY <1>15 DEF vars, clientVars
<1>16. QED
  BY <1>1, <1>2, <1>3, <1>4, <1>5, <1>6, <1>7, <1>8, <1>9, <1>10, <1>11,
     <1>12, <1>13, <1>14, <1>15 DEF Next, Step

LEMMA OnlyWrittenStep ==
    TypeOK /\ StepsOfOp /\ OnlyWritten /\ [Next]_vars => OnlyWritten'
<1> SUFFICES ASSUME TypeOK, StepsOfOp, OnlyWritten, [Next]_vars PROVE OnlyWritten'
  OBVIOUS
<1> USE DEF TypeOK, StepsOfOp, AtDeletion, OnlyWritten, Goto, Busy
<1>1. ASSUME NEW c \in Client, StartAdd(c) PROVE OnlyWritten'
  BY <1>1 DEF StartAdd, Start
<1>2. ASSUME NEW c \in Client, StartRead(c) PROVE OnlyWritten'
  BY <1>2 DEF StartRead, Start
<1>3. ASSUME NEW c \in Client, StartPrune(c) PROVE OnlyWritten'
  BY <1>3 DEF StartPrune, Start, NoPrune, NoUpload
<1>4. ASSUME NEW c \in Client, List(c) PROVE OnlyWritten'
  BY <1>4, AfterReadingOf DEF List
<1>5. ASSUME NEW c \in Client, ReadItem(c) PROVE OnlyWritten'
  BY <1>5, AfterReadingOf DEF ReadItem, IsLast
<1>6. ASSUME NEW c \in Client, Relist(c) PROVE OnlyWritten'
  BY <1>6 DEF Relist
<1>7. ASSUME NEW c \in Client, Exists(c) PROVE OnlyWritten'
  BY <1>7 DEF Exists, AlreadyListed, Doomed, DeleteThen, Retry
<1>8. ASSUME NEW c \in Client, Write(c) PROVE OnlyWritten'
  BY <1>8 DEF Write, Doomed, DeleteThen
<1>9. ASSUME NEW c \in Client, DeleteItem(c) PROVE OnlyWritten'
  BY <1>9 DEF DeleteItem
<1>10. ASSUME NEW c \in Client, Return(c) PROVE OnlyWritten'
  BY <1>10 DEF Return, Succeed, Forget
<1>11. ASSUME NEW c \in Client, FailCall(c) PROVE OnlyWritten'
  BY <1>11 DEF FailCall, Error, Forget, Retry
<1>12. ASSUME NEW c \in Client, FailWrite(c) PROVE OnlyWritten'
  BY <1>12 DEF FailWrite, Error, Forget, Retry, CountsAsOk, DeleteThen
<1>13. ASSUME NEW c \in Client, FailDelete(c) PROVE OnlyWritten'
  BY <1>13 DEF FailDelete
<1>14. ASSUME NEW c \in Client, Crash(c) PROVE OnlyWritten'
  BY <1>14 DEF Crash, Forget
<1>15. CASE UNCHANGED vars
  BY <1>15 DEF vars, clientVars
<1>16. QED
  BY <1>1, <1>2, <1>3, <1>4, <1>5, <1>6, <1>7, <1>8, <1>9, <1>10, <1>11,
     <1>12, <1>13, <1>14, <1>15 DEF Next, Step

LEMMA PruneAloneStep ==
    TypeOK /\ PruneAlone /\ [Next]_vars => PruneAlone'
<1> SUFFICES ASSUME TypeOK, PruneAlone, [Next]_vars PROVE PruneAlone'
  OBVIOUS
<1> USE DEF TypeOK, PruneAlone, Goto, Busy
<1>1. ASSUME NEW c \in Client, StartAdd(c) PROVE PruneAlone'
  BY <1>1 DEF StartAdd, Start, NoPrune
<1>2. ASSUME NEW c \in Client, StartRead(c) PROVE PruneAlone'
  BY <1>2 DEF StartRead, Start
<1>3. ASSUME NEW c \in Client, StartPrune(c) PROVE PruneAlone'
  BY <1>3 DEF StartPrune, Start, NoPrune, NoUpload
<1>4. ASSUME NEW c \in Client, List(c) PROVE PruneAlone'
  BY <1>4 DEF List
<1>5. ASSUME NEW c \in Client, ReadItem(c) PROVE PruneAlone'
  BY <1>5 DEF ReadItem, IsLast
<1>6. ASSUME NEW c \in Client, Relist(c) PROVE PruneAlone'
  BY <1>6 DEF Relist
<1>7. ASSUME NEW c \in Client, Exists(c) PROVE PruneAlone'
  BY <1>7 DEF Exists, AlreadyListed, Doomed, DeleteThen, Retry
<1>8. ASSUME NEW c \in Client, Write(c) PROVE PruneAlone'
  BY <1>8 DEF Write, Doomed, DeleteThen
<1>9. ASSUME NEW c \in Client, DeleteItem(c) PROVE PruneAlone'
  BY <1>9 DEF DeleteItem
<1>10. ASSUME NEW c \in Client, Return(c) PROVE PruneAlone'
  BY <1>10 DEF Return, Succeed, Forget
<1>11. ASSUME NEW c \in Client, FailCall(c) PROVE PruneAlone'
  BY <1>11 DEF FailCall, Error, Forget, Retry
<1>12. ASSUME NEW c \in Client, FailWrite(c) PROVE PruneAlone'
  BY <1>12 DEF FailWrite, Error, Forget, Retry, CountsAsOk, DeleteThen
<1>13. ASSUME NEW c \in Client, FailDelete(c) PROVE PruneAlone'
  BY <1>13 DEF FailDelete
<1>14. ASSUME NEW c \in Client, Crash(c) PROVE PruneAlone'
  BY <1>14 DEF Crash, Forget
<1>15. CASE UNCHANGED vars
  BY <1>15 DEF vars, clientVars
<1>16. QED
  BY <1>1, <1>2, <1>3, <1>4, <1>5, <1>6, <1>7, <1>8, <1>9, <1>10, <1>11,
     <1>12, <1>13, <1>14, <1>15 DEF Next, Step

LEMMA AskedWasPromisedStep ==
    TypeOK /\ AskedWasPromised /\ [Next]_vars => AskedWasPromised'
<1> SUFFICES ASSUME TypeOK, AskedWasPromised, [Next]_vars PROVE AskedWasPromised'
  OBVIOUS
<1> USE DEF TypeOK, AskedWasPromised, Goto, Busy
<1>1. ASSUME NEW c \in Client, StartAdd(c) PROVE AskedWasPromised'
  BY <1>1 DEF StartAdd, Start
<1>2. ASSUME NEW c \in Client, StartRead(c) PROVE AskedWasPromised'
  BY <1>2 DEF StartRead, Start
<1>3. ASSUME NEW c \in Client, StartPrune(c) PROVE AskedWasPromised'
  BY <1>3 DEF StartPrune, Start, NoPrune, NoUpload
<1>4. ASSUME NEW c \in Client, List(c) PROVE AskedWasPromised'
  BY <1>4 DEF List
<1>5. ASSUME NEW c \in Client, ReadItem(c) PROVE AskedWasPromised'
  BY <1>5 DEF ReadItem, IsLast
<1>6. ASSUME NEW c \in Client, Relist(c) PROVE AskedWasPromised'
  BY <1>6 DEF Relist
<1>7. ASSUME NEW c \in Client, Exists(c) PROVE AskedWasPromised'
  BY <1>7 DEF Exists, AlreadyListed, Doomed, DeleteThen, Retry
<1>8. ASSUME NEW c \in Client, Write(c) PROVE AskedWasPromised'
  BY <1>8 DEF Write, Doomed, DeleteThen
<1>9. ASSUME NEW c \in Client, DeleteItem(c) PROVE AskedWasPromised'
  BY <1>9 DEF DeleteItem
<1>10. ASSUME NEW c \in Client, Return(c) PROVE AskedWasPromised'
  BY <1>10 DEF Return, Succeed, Forget
<1>11. ASSUME NEW c \in Client, FailCall(c) PROVE AskedWasPromised'
  BY <1>11 DEF FailCall, Error, Forget, Retry
<1>12. ASSUME NEW c \in Client, FailWrite(c) PROVE AskedWasPromised'
  BY <1>12 DEF FailWrite, Error, Forget, Retry, CountsAsOk, DeleteThen
<1>13. ASSUME NEW c \in Client, FailDelete(c) PROVE AskedWasPromised'
  BY <1>13 DEF FailDelete
<1>14. ASSUME NEW c \in Client, Crash(c) PROVE AskedWasPromised'
  BY <1>14 DEF Crash, Forget
<1>15. CASE UNCHANGED vars
  BY <1>15 DEF vars, clientVars
<1>16. QED
  BY <1>1, <1>2, <1>3, <1>4, <1>5, <1>6, <1>7, <1>8, <1>9, <1>10, <1>11,
     <1>12, <1>13, <1>14, <1>15 DEF Next, Step

LEMMA DeletesListedStep ==
    TypeOK /\ StepsOfOp /\ PruneAlone /\ DeletesListed /\ [Next]_vars => DeletesListed'
<1> SUFFICES ASSUME TypeOK, StepsOfOp, PruneAlone, DeletesListed, [Next]_vars PROVE DeletesListed'
  OBVIOUS
<1> USE DEF TypeOK, StepsOfOp, AtDeletion, PruneAlone, DeletesListed, Goto, Busy
<1>1. ASSUME NEW c \in Client, StartAdd(c) PROVE DeletesListed'
  BY <1>1 DEF StartAdd, Start
<1>2. ASSUME NEW c \in Client, StartRead(c) PROVE DeletesListed'
  BY <1>2 DEF StartRead, Start
<1>3. ASSUME NEW c \in Client, StartPrune(c) PROVE DeletesListed'
  BY <1>3 DEF StartPrune, Start, NoPrune, NoUpload
<1>4. ASSUME NEW c \in Client, List(c) PROVE DeletesListed'
  BY <1>4, AfterReadingOf DEF List
<1>5. ASSUME NEW c \in Client, ReadItem(c) PROVE DeletesListed'
  BY <1>5, AfterReadingOf DEF ReadItem, IsLast
<1>6. ASSUME NEW c \in Client, Relist(c) PROVE DeletesListed'
  BY <1>6 DEF Relist
<1>7. ASSUME NEW c \in Client, Exists(c) PROVE DeletesListed'
  BY <1>7 DEF Exists, AlreadyListed, Doomed, DeleteThen, Retry
<1>8. ASSUME NEW c \in Client, Write(c) PROVE DeletesListed'
  BY <1>8 DEF Write, Doomed, DeleteThen
<1>9. ASSUME NEW c \in Client, DeleteItem(c) PROVE DeletesListed'
  BY <1>9 DEF DeleteItem
<1>10. ASSUME NEW c \in Client, Return(c) PROVE DeletesListed'
  BY <1>10 DEF Return, Succeed, Forget
<1>11. ASSUME NEW c \in Client, FailCall(c) PROVE DeletesListed'
  BY <1>11 DEF FailCall, Error, Forget, Retry
<1>12. ASSUME NEW c \in Client, FailWrite(c) PROVE DeletesListed'
  BY <1>12 DEF FailWrite, Error, Forget, Retry, CountsAsOk, DeleteThen
<1>13. ASSUME NEW c \in Client, FailDelete(c) PROVE DeletesListed'
  BY <1>13 DEF FailDelete
<1>14. ASSUME NEW c \in Client, Crash(c) PROVE DeletesListed'
  BY <1>14 DEF Crash, Forget
<1>15. CASE UNCHANGED vars
  BY <1>15 DEF vars, clientVars
<1>16. QED
  BY <1>1, <1>2, <1>3, <1>4, <1>5, <1>6, <1>7, <1>8, <1>9, <1>10, <1>11,
     <1>12, <1>13, <1>14, <1>15 DEF Next, Step

(* What Prepared makes of the index a client has read.                     *)
LEMMA PreparedBlocks ==
    ASSUME TypeOK, NEW c \in Client, NEW i \in Index
    PROVE  /\ Busy(c, "add") => Prepared(c, i).blocks = i.blocks \cup added[c].blocks
           /\ Busy(c, "prune") => Prepared(c, i).blocks = i.blocks \cap keep[c]
           /\ ~Busy(c, "add") /\ ~Busy(c, "prune") => Prepared(c, i) = i
<1>1. added[c] \in Index /\ keep[c] \in SUBSET Block
  BY DEF TypeOK
<1>2. CASE Busy(c, "add")
  BY <1>1, <1>2, MergeType DEF Prepared, Busy
<1>3. CASE ~Busy(c, "add") /\ Busy(c, "prune")
  BY <1>1, <1>3, PruneToType DEF Prepared, Busy
<1>4. CASE ~Busy(c, "add") /\ ~Busy(c, "prune")
  BY <1>4 DEF Prepared
<1>5. QED
  BY <1>2, <1>3, <1>4

(* ReadItem, with what becomes of the index the client has merged.         *)
LEMMA ReadItemCases ==
    ASSUME TypeOK, NEW c \in Client, ReadItem(c)
    PROVE  \E item \in left[c] :
              \/ /\ pc' = [pc EXCEPT ![c] = "list"]
                 /\ items' = [items EXCEPT ![c] = {}]
              \/ /\ items' = items
                 /\ left' = [left EXCEPT ![c] = left[c] \ {item}]
                 /\ \E m \in Index :
                      /\ merged' = [merged EXCEPT ![c] = m]
                      /\ \/ /\ pc' = pc
                            /\ m.blocks = merged[c].blocks \cup item.blocks
                         \/ /\ pc' = [pc EXCEPT ![c] = AfterReading(c)]
                            /\ left[c] = {item}
                            /\ m = Prepared(c, Merge(merged[c], item))
<1>1. PICK item \in left[c] :
         \/ /\ pc' = [pc EXCEPT ![c] = "list"]
            /\ items' = [items EXCEPT ![c] = {}]
         \/ /\ items' = items
            /\ left' = [left EXCEPT ![c] = left[c] \ {item}]
            /\ \/ /\ left[c] = {item}
                  /\ merged' = [merged EXCEPT ![c] = Prepared(c, Merge(merged[c], item))]
                  /\ pc' = [pc EXCEPT ![c] = AfterReading(c)]
               \/ /\ merged' = [merged EXCEPT ![c] = Merge(merged[c], item)]
                  /\ pc' = pc
  BY DEF ReadItem, Goto, IsLast
<1>2. merged[c] \in Index /\ item \in Index
  BY DEF TypeOK
<1>3. /\ Merge(merged[c], item) \in Index
      /\ Merge(merged[c], item).blocks = merged[c].blocks \cup item.blocks
  BY <1>2, MergeType
<1>4. Prepared(c, Merge(merged[c], item)) \in Index
  BY <1>3, PreparedType
<1>5. QED
  BY <1>1, <1>3, <1>4

LEMMA AddMergedListedStep ==
    TypeOK /\ StepsOfOp /\ AddMergedListed /\ [Next]_vars => AddMergedListed'
<1> SUFFICES ASSUME TypeOK, StepsOfOp, AddMergedListed, [Next]_vars PROVE AddMergedListed'
  OBVIOUS
<1> USE DEF TypeOK, StepsOfOp, AtDeletion, AddMergedListed, Goto, Busy
<1>1. ASSUME NEW c \in Client, StartAdd(c) PROVE AddMergedListed'
  BY <1>1 DEF StartAdd, Start
<1>2. ASSUME NEW c \in Client, StartRead(c) PROVE AddMergedListed'
  BY <1>2 DEF StartRead, Start
<1>3. ASSUME NEW c \in Client, StartPrune(c) PROVE AddMergedListed'
  BY <1>3 DEF StartPrune, Start, NoPrune, NoUpload
<1>4. ASSUME NEW c \in Client, List(c) PROVE AddMergedListed'
  <2>1. CASE files = {}
    <3>1. merged'[c] = Prepared(c, EmptyIndex)
      BY <1>4, <2>1 DEF List
    <3>2. EmptyIndex.blocks = {}
      BY DEF EmptyIndex
    <3>3. Busy(c, "add") => merged'[c].blocks = added[c].blocks
      <4>1. Busy(c, "add") =>
               Prepared(c, EmptyIndex).blocks = EmptyIndex.blocks \cup added[c].blocks
        BY PreparedBlocks, EmptyIndexType
      <4>2. QED
        BY <3>1, <3>2, <4>1
    <3>4. op'[c] = "add" =>
             /\ pc'[c] = "exists"
             /\ added'[c].blocks \cup BlocksIn(items'[c]) \subseteq merged'[c].blocks
      <4>1. UNCHANGED <<op, added>> /\ items'[c] = {}
        BY <1>4, <2>1 DEF List
      <4>2. op[c] = "add" => pc'[c] = "exists"
        BY <1>4, <2>1, AfterReadingOf DEF List
      <4>3. QED
        BY <4>1, <4>2, <3>3, NothingRead
    <3>5. \A d \in Client \ {c} :
             /\ op'[d] = op[d] /\ pc'[d] = pc[d] /\ added'[d] = added[d]
             /\ items'[d] = items[d] /\ left'[d] = left[d] /\ merged'[d] = merged[d]
      BY <1>4 DEF List
    <3>6. QED
      BY <3>4, <3>5
  <2>2. CASE files # {}
    BY <1>4, <2>2 DEF List
  <2>3. QED
    BY <2>1, <2>2
<1>5. ASSUME NEW c \in Client, ReadItem(c) PROVE AddMergedListed'
  <2>1. UNCHANGED <<op, added>>
    BY <1>5 DEF ReadItem
  <2>2. PICK item \in left[c] :
           \/ /\ pc' = [pc EXCEPT ![c] = "list"]
              /\ items' = [items EXCEPT ![c] = {}]
           \/ /\ items' = items
              /\ left' = [left EXCEPT ![c] = left[c] \ {item}]
              /\ \E m \in Index :
                   /\ merged' = [merged EXCEPT ![c] = m]
                   /\ \/ /\ pc' = pc
                         /\ m.blocks = merged[c].blocks \cup item.blocks
                      \/ /\ pc' = [pc EXCEPT ![c] = AfterReading(c)]
                         /\ left[c] = {item}
                         /\ m = Prepared(c, Merge(merged[c], item))
    BY <1>5, ReadItemCases
  <2>3. pc[c] = "read"
    BY <1>5 DEF ReadItem
  <2>4. BlocksIn(left[c]) = item.blocks \cup BlocksIn(left[c] \ {item})
    BY ReadOne
  <2>5. left[c] = {item} => BlocksIn(left[c]) = item.blocks
    BY <2>4, NothingRead
  <2>6. merged[c] \in Index /\ item \in Index
    BY DEF TypeOK
  <2>7. /\ Merge(merged[c], item) \in Index
        /\ Merge(merged[c], item).blocks = merged[c].blocks \cup item.blocks
    BY <2>6, MergeType
  <2>8. Busy(c, "add") =>
           Prepared(c, Merge(merged[c], item)).blocks
              = merged[c].blocks \cup item.blocks \cup added[c].blocks
    BY <2>7, PreparedBlocks
  <2>9. \A d \in Client \ {c} :
           /\ op'[d] = op[d] /\ pc'[d] = pc[d] /\ added'[d] = added[d]
           /\ items'[d] = items[d] /\ left'[d] = left[d] /\ merged'[d] = merged[d]
    BY <1>5 DEF ReadItem
  <2>10. CASE pc'[c] \notin {"list", "got"} /\ op[c] = "add"
    <3>1. PICK m \in Index :
             /\ items'[c] = items[c] /\ left'[c] = left[c] \ {item}
             /\ merged'[c] = m
             /\ \/ /\ pc'[c] = "read"
                   /\ m.blocks = merged[c].blocks \cup item.blocks
                \/ /\ pc'[c] = "exists"
                   /\ left[c] = {item}
                   /\ m.blocks = merged[c].blocks \cup item.blocks \cup added[c].blocks
      BY <2>2, <2>3, <2>8, <2>10, AfterReadingOf
    <3>2. BlocksIn(items[c]) \subseteq merged[c].blocks \cup BlocksIn(left[c])
      BY <2>3, <2>10
    <3>3. /\ pc'[c] = "read" =>
                BlocksIn(items'[c]) \subseteq merged'[c].blocks \cup BlocksIn(left'[c])
          /\ pc'[c] # "read" =>
                added'[c].blocks \cup BlocksIn(items'[c]) \subseteq merged'[c].blocks
      BY <2>1, <2>4, <2>5, <3>1, <3>2
    <3>4. QED
      BY <2>1, <2>9, <3>1, <3>3
  <2>11. CASE pc'[c] \in {"list", "got"} \/ op[c] # "add"
    BY <2>1, <2>9, <2>11
  <2>12. QED
    BY <2>10, <2>11
<1>6. ASSUME NEW c \in Client, Relist(c) PROVE AddMergedListed'
  BY <1>6 DEF Relist
<1>7. ASSUME NEW c \in Client, Exists(c) PROVE AddMergedListed'
  BY <1>7 DEF Exists, AlreadyListed, Doomed, DeleteThen, Retry
<1>8. ASSUME NEW c \in Client, Write(c) PROVE AddMergedListed'
  BY <1>8 DEF Write, Doomed, DeleteThen
<1>9. ASSUME NEW c \in Client, DeleteItem(c) PROVE AddMergedListed'
  BY <1>9 DEF DeleteItem
<1>10. ASSUME NEW c \in Client, Return(c) PROVE AddMergedListed'
  BY <1>10 DEF Return, Succeed, Forget
<1>11. ASSUME NEW c \in Client, FailCall(c) PROVE AddMergedListed'
  BY <1>11 DEF FailCall, Error, Forget, Retry
<1>12. ASSUME NEW c \in Client, FailWrite(c) PROVE AddMergedListed'
  BY <1>12 DEF FailWrite, Error, Forget, Retry, CountsAsOk, DeleteThen
<1>13. ASSUME NEW c \in Client, FailDelete(c) PROVE AddMergedListed'
  BY <1>13 DEF FailDelete
<1>14. ASSUME NEW c \in Client, Crash(c) PROVE AddMergedListed'
  BY <1>14 DEF Crash, Forget
<1>15. CASE UNCHANGED vars
  BY <1>15 DEF vars, clientVars
<1>16. QED
  BY <1>1, <1>2, <1>3, <1>4, <1>5, <1>6, <1>7, <1>8, <1>9, <1>10, <1>11,
     <1>12, <1>13, <1>14, <1>15 DEF Next, Step

-------------------------------------------------------------------------------
(* As long as no index was written in two orders, no step uncovers         *)
(* anything but what a prune drops.                                        *)

LEMMA OneOrderBefore ==
    [Next]_vars /\ OneOrderOnly' => OneOrderOnly
<1> SUFFICES ASSUME [Next]_vars PROVE written \subseteq written'
  BY DEF OneOrderOnly
<1>1. ASSUME NEW c \in Client, Step(c) PROVE written \subseteq written'
  BY <1>1 DEF Step, StartAdd, StartRead, StartPrune, Start, List, ReadItem, Relist,
       Exists, Write, DeleteItem, Return, FailCall, FailWrite, FailDelete, Crash
<1>2. QED
  BY <1>1 DEF Next, vars

(* Files only go when a client deletes one that it listed.                 *)
LEMMA FilesStep ==
    ASSUME NEW c \in Client, Step(c)
    PROVE  \/ files \subseteq files'
           \/ /\ pc[c] = "delete"
              /\ UNCHANGED <<op, pc, added, keep, items, merged, promised, asked>>
              /\ \E item \in left[c] : /\ files' = files \ {item}
                                       /\ left' = [left EXCEPT ![c] = @ \ {item}]
BY DEF Step, StartAdd, StartRead, StartPrune, Start, List, ReadItem, Relist,
       Exists, Write, DeleteItem, Return, FailCall, FailWrite, FailDelete, Crash

(* The heart of the protocol: an adder that deletes a file has merged it   *)
(* into an index that is another one, so it has more blocks, and that      *)
(* index is covered by a file that is therefore not the deleted one.       *)
LEMMA AddDeletionCovers ==
    ASSUME Structure, AddsCovered, OneOrderOnly,
           NEW c \in Client, op[c] = "add", pc[c] = "delete",
           NEW item \in left[c], NEW X, Covered(X)
    PROVE  \E f \in files \ {item} : X \subseteq f.blocks
<1>1. PICK f \in files : X \subseteq f.blocks
  BY DEF Covered
<1>2. PICK g \in files : merged[c].blocks \subseteq g.blocks
  BY DEF AddsCovered, Covered
<1>3. item \in items[c] /\ item # merged[c]
  BY DEF Structure, DeletesListed
<1>4. item \in written /\ merged[c] \in written
  BY <1>3 DEF Structure, OnlyWritten
<1>5. item.blocks \subseteq merged[c].blocks
  BY <1>3 DEF Structure, AddMergedListed, AtDeletion, BlocksIn
<1>6. item.blocks # merged[c].blocks
  BY <1>3, <1>4 DEF OneOrderOnly
<1>7. g # item
  BY <1>2, <1>5, <1>6
<1>8. CASE f = item
  BY <1>1, <1>2, <1>5, <1>7, <1>8
<1>9. CASE f # item
  BY <1>1, <1>9
<1>10. QED
  BY <1>8, <1>9

LEMMA CoverKept ==
    ASSUME Structure, AddsCovered, OneOrderOnly, NoPrune,
           NEW c \in Client, Step(c), NEW X, Covered(X)
    PROVE  Covered(X)'
<1>1. CASE files \subseteq files'
  BY <1>1 DEF Covered
<1>2. ASSUME pc[c] = "delete",
             NEW item \in left[c], files' = files \ {item}
      PROVE  Covered(X)'
  <2>1. op[c] = "add"
    BY <1>2 DEF Structure, StepsOfOp, AtDeletion, NoPrune, Busy
  <2>2. \E f \in files \ {item} : X \subseteq f.blocks
    BY <1>2, <2>1, AddDeletionCovers
  <2>3. QED
    BY <1>2, <2>2 DEF Covered
<1>3. QED
  BY <1>1, <1>2, FilesStep

(* A promise is only ever made for what is covered.                        *)
LEMMA PromisedStep ==
    ASSUME NEW c \in Client, Step(c)
    PROVE  \/ promised' \subseteq promised
           \/ /\ op[c] = "add" /\ pc[c] \in {"delete", "got"} /\ files' = files
              /\ promised' = promised \cup added[c].blocks
BY DEF Step, StartAdd, StartRead, StartPrune, Start, List, ReadItem, Relist,
       Exists, Write, DeleteItem, Return, Succeed, Busy, FailCall, FailWrite,
       FailDelete, Crash

LEMMA NoLostBlocksStep ==
    ASSUME Structure, Cover, OneOrderOnly, NEW c \in Client, Step(c)
    PROVE  NoLostBlocks'
<1>1. promised \subseteq Indexed'
  <2>1. CASE NoPrune
    <3>1. ASSUME NEW b \in promised PROVE b \in Indexed'
      <4>1. Covered({b})
        BY DEF Cover, NoLostBlocks, Indexed, BlocksIn, Covered
      <4>2. Covered({b})'
        BY <2>1, <4>1, CoverKept DEF Cover
      <4>3. QED
        BY <4>2 DEF Covered, Indexed, BlocksIn
    <3>2. QED
      BY <3>1
  <2>2. CASE ~NoPrune
    <3>1. PICK p \in Client : op[p] = "prune"
      BY <2>2 DEF NoPrune, Busy
    <3>2. CASE files \subseteq files'
      BY <3>2 DEF Cover, NoLostBlocks, Indexed, BlocksIn
    <3>3. ASSUME pc[c] = "delete",
                 NEW item \in left[c], files' = files \ {item}
          PROVE  promised \subseteq Indexed'
      <4>1. op[c] = "prune"
        BY <3>1, <3>3 DEF Structure, PruneAlone, StepsOfOp, AtDeletion
      <4>2. merged[c] \in files'
        BY <3>3, <4>1 DEF Structure, DeletesListed
      <4>3. promised \subseteq merged[c].blocks
        BY <3>3, <4>1 DEF Cover, Found, FoundBy, AtDeletion
      <4>4. QED
        BY <4>2, <4>3 DEF Indexed, BlocksIn
    <3>4. QED
      BY <3>2, <3>3, FilesStep
  <2>3. QED
    BY <2>1, <2>2
<1>2. CASE promised' \subseteq promised
  BY <1>1, <1>2 DEF NoLostBlocks
<1>3. CASE /\ op[c] = "add" /\ pc[c] \in {"delete", "got"} /\ files' = files
           /\ promised' = promised \cup added[c].blocks
  <2>1. pc[c] = "delete"
    BY <1>3 DEF Structure, StepsOfOp
  <2>2. added[c].blocks \subseteq merged[c].blocks
    BY <1>3, <2>1 DEF Structure, AddMergedListed, AtDeletion
  <2>3. PICK f \in files : merged[c].blocks \subseteq f.blocks
    BY <1>3, <2>1 DEF Cover, AddsCovered, Covered
  <2>4. added[c].blocks \subseteq Indexed'
    BY <1>3, <2>2, <2>3 DEF Indexed, BlocksIn
  <2>5. QED
    BY <1>1, <1>3, <2>4 DEF NoLostBlocks
<1>4. QED
  BY <1>2, <1>3, PromisedStep

(* Where the listing and the merged index of an add come from.             *)
LEMMA AddStep ==
    ASSUME TypeOK, StepsOfOp, NEW c \in Client, Step(c), NEW d \in Client,
           op'[d] = "add", pc'[d] = "read" \/ AtDeletion(d)'
    PROVE  /\ \/ items'[d] = files /\ files' = files
              \/ /\ items'[d] = items[d] /\ op[d] = "add"
                 /\ pc[d] = "read" \/ AtDeletion(d)
           /\ pc'[d] = "delete" =>
                 \/ merged'[d] = merged[d] /\ op[d] = "add" /\ pc[d] = "delete"
                 \/ merged'[d] \in items'[d]
                 \/ merged'[d] \in files'
<1> USE DEF TypeOK, StepsOfOp, AtDeletion, Goto, Busy
<1>1. CASE StartAdd(c) \/ StartRead(c) \/ StartPrune(c)
  BY <1>1 DEF StartAdd, StartRead, StartPrune, Start
<1>2. CASE List(c)
  BY <1>2, AfterReadingOf DEF List
<1>3. CASE ReadItem(c)
  BY <1>3, AfterReadingOf DEF ReadItem
<1>4. CASE Relist(c)
  BY <1>4 DEF Relist
<1>5. CASE Exists(c)
  BY <1>5 DEF Exists, AlreadyListed, DeleteThen, Retry
<1>6. CASE Write(c)
  BY <1>6 DEF Write, DeleteThen
<1>7. CASE DeleteItem(c) \/ FailDelete(c)
  BY <1>7 DEF DeleteItem, FailDelete
<1>8. CASE Return(c) \/ Crash(c)
  BY <1>8 DEF Return, Succeed, Crash, Forget
<1>9. CASE FailCall(c)
  BY <1>9 DEF FailCall, Error, Retry, Forget
<1>10. CASE FailWrite(c)
  BY <1>10 DEF FailWrite, Error, Retry, Forget, CountsAsOk, DeleteThen
<1>11. QED
  BY <1>1, <1>2, <1>3, <1>4, <1>5, <1>6, <1>7, <1>8, <1>9, <1>10 DEF Step

(* No prune is there while an add is.                                      *)
LEMMA AddWithoutPrune ==
    ASSUME TypeOK, PruneAlone, NEW c \in Client, Step(c), NEW d \in Client,
           op'[d] = "add", pc'[d] = "read" \/ AtDeletion(d)'
    PROVE  NoPrune
<1>1. CASE op[d] = "add"
  BY <1>1 DEF PruneAlone, NoPrune, Busy
<1>2. CASE op[d] # "add"
  <2>1. StartAdd(c)
    BY <1>2 DEF TypeOK, Step, StartAdd, StartRead, StartPrune, List, ReadItem,
         Relist, Exists, Write, DeleteItem, Return, Succeed, FailCall, FailWrite,
         FailDelete, Crash, Error, Forget, Retry, DeleteThen
  <2>2. QED
    BY <2>1 DEF StartAdd
<1>3. QED
  BY <1>1, <1>2

LEMMA AddsCoveredStep ==
    ASSUME Structure, Cover, OneOrderOnly, NEW c \in Client, Step(c)
    PROVE  AddsCovered'
<1> SUFFICES ASSUME NEW d \in Client, op'[d] = "add", pc'[d] = "read" \/ AtDeletion(d)'
             PROVE  /\ \A i \in items'[d] : Covered(i.blocks)'
                    /\ pc'[d] = "delete" => Covered(merged[d].blocks)'
  BY DEF AddsCovered, AtDeletion
<1>1. NoPrune
  BY AddWithoutPrune DEF Structure
<1>2. \A X : Covered(X) => Covered(X)'
  BY <1>1, CoverKept DEF Cover
<1>3. /\ \/ items'[d] = files /\ files' = files
         \/ /\ items'[d] = items[d] /\ op[d] = "add"
            /\ pc[d] = "read" \/ AtDeletion(d)
      /\ pc'[d] = "delete" =>
            \/ merged'[d] = merged[d] /\ op[d] = "add" /\ pc[d] = "delete"
            \/ merged'[d] \in items'[d]
            \/ merged'[d] \in files'
  BY AddStep DEF Structure
<1>4. ASSUME NEW i \in items'[d] PROVE Covered(i.blocks)'
  <2>1. CASE items'[d] = files /\ files' = files
    BY <1>4, <2>1 DEF Covered
  <2>2. CASE items'[d] = items[d] /\ op[d] = "add" /\ (pc[d] = "read" \/ AtDeletion(d))
    <3>1. Covered(i.blocks)
      BY <1>4, <2>2 DEF Cover, AddsCovered
    <3>2. QED
      BY <1>2, <3>1
  <2>3. QED
    BY <1>3, <2>1, <2>2
<1>5. ASSUME pc'[d] = "delete" PROVE Covered(merged[d].blocks)'
  <2>1. CASE merged'[d] = merged[d] /\ op[d] = "add" /\ pc[d] = "delete"
    <3>1. Covered(merged[d].blocks)
      BY <2>1 DEF Cover, AddsCovered
    <3>2. QED
      BY <1>2, <2>1, <3>1 DEF Covered
  <2>2. CASE merged'[d] \in items'[d]
    BY <1>4, <2>2 DEF Covered
  <2>3. CASE merged'[d] \in files'
    BY <2>3 DEF Covered
  <2>4. QED
    BY <1>3, <1>5, <2>1, <2>2, <2>3
<1>6. QED
  BY <1>4, <1>5

(* A step leaves what another client has read alone, and takes nothing but *)
(* what a prune drops from what the other must find.                       *)
LEMMA OthersFind ==
    ASSUME Structure, Found, NEW c \in Client, Step(c),
           NEW d \in Client, d # c
    PROVE  FoundBy(d)'
<1>1. /\ op'[d] = op[d] /\ pc'[d] = pc[d] /\ left'[d] = left[d]
      /\ merged'[d] = merged[d] /\ asked'[d] \subseteq asked[d]
  BY DEF Structure, TypeOK, Step, StartAdd, StartRead, StartPrune, Start, Goto,
       List, ReadItem, Relist, Exists, Write, DeleteItem, Return, Succeed,
       FailCall, FailWrite, FailDelete, Crash, Error, Forget, Retry, DeleteThen
<1>2. op[d] = "prune" => promised' \subseteq promised
  BY PromisedStep DEF Structure, PruneAlone
<1>3. QED
  BY <1>1, <1>2 DEF Found, FoundBy, AtDeletion

LEMMA PromisedWhilePruning ==
    ASSUME Structure, NEW c \in Client, Step(c), op[c] = "prune"
    PROVE  promised' \subseteq promised
BY PromisedStep

LEMMA ListFinds ==
    ASSUME Structure, Cover, NEW c \in Client, List(c)
    PROVE  FoundBy(c)'
<1>1. promised \subseteq BlocksIn(files)
  BY DEF Cover, NoLostBlocks, Indexed
<1>2. asked[c] \subseteq promised
  BY DEF Structure, AskedWasPromised
<1>3. UNCHANGED <<op, promised, asked>>
  BY DEF List
<1>4. CASE files = {}
  <2>1. promised = {} /\ asked[c] = {}
    BY <1>1, <1>2, <1>4, NothingRead
  <2>2. pc'[c] # "read"
    BY <1>4, AfterReadingType DEF List, Goto, Structure, TypeOK
  <2>3. QED
    BY <1>3, <2>1, <2>2 DEF FoundBy
<1>5. CASE files # {}
  <2>1. pc'[c] = "read" /\ left'[c] = files
    BY <1>5 DEF List, Goto, Structure, TypeOK
  <2>2. QED
    BY <1>1, <1>2, <1>3, <2>1 DEF FoundBy, AtDeletion
<1>6. QED
  BY <1>4, <1>5

LEMMA ReadItemFinds ==
    ASSUME Structure, Cover, NEW c \in Client, ReadItem(c)
    PROVE  FoundBy(c)'
<1>1. /\ pc[c] = "read"
      /\ UNCHANGED <<op, keep, promised, asked>>
  BY DEF ReadItem
<1>2. TypeOK
  BY DEF Structure
<1>3. PICK item \in left[c] :
         \/ /\ pc' = [pc EXCEPT ![c] = "list"]
            /\ items' = [items EXCEPT ![c] = {}]
         \/ /\ items' = items
            /\ left' = [left EXCEPT ![c] = left[c] \ {item}]
            /\ \E m \in Index :
                 /\ merged' = [merged EXCEPT ![c] = m]
                 /\ \/ /\ pc' = pc
                       /\ m.blocks = merged[c].blocks \cup item.blocks
                    \/ /\ pc' = [pc EXCEPT ![c] = AfterReading(c)]
                       /\ left[c] = {item}
                       /\ m = Prepared(c, Merge(merged[c], item))
  BY <1>2, ReadItemCases
<1>4. BlocksIn(left[c]) = item.blocks \cup BlocksIn(left[c] \ {item})
  BY ReadOne
<1>5. left[c] = {item} => BlocksIn(left[c]) = item.blocks
  BY <1>4, NothingRead
<1>6. CASE pc'[c] = "list"
  BY <1>6 DEF FoundBy, AtDeletion
<1>7. CASE /\ left'[c] = left[c] \ {item} /\ pc'[c] = "read"
           /\ merged'[c].blocks = merged[c].blocks \cup item.blocks
  BY <1>1, <1>4, <1>7 DEF FoundBy, Cover, Found, AtDeletion
<1>8. CASE /\ pc'[c] = AfterReading(c) /\ left[c] = {item}
           /\ merged'[c] = Prepared(c, Merge(merged[c], item))
  <2>1. merged[c] \in Index /\ item \in Index
    BY <1>2 DEF TypeOK
  <2>2. /\ Merge(merged[c], item) \in Index
        /\ Merge(merged[c], item).blocks = merged[c].blocks \cup item.blocks
    BY <2>1, MergeType
  <2>3. CASE op[c] = "prune"
    <3>1. promised \subseteq merged[c].blocks \cup item.blocks
      BY <1>1, <1>5, <1>8, <2>3 DEF Cover, Found, FoundBy
    <3>2. promised \subseteq keep[c]
      BY <2>3 DEF Structure, PruneAlone
    <3>3. merged'[c].blocks = (merged[c].blocks \cup item.blocks) \cap keep[c]
      BY <1>2, <1>8, <2>2, <2>3, PreparedBlocks DEF Busy
    <3>4. pc'[c] = "relist"
      BY <1>8, <2>3, AfterReadingOf DEF Busy
    <3>5. QED
      BY <1>1, <2>3, <3>1, <3>2, <3>3, <3>4 DEF FoundBy
  <2>4. CASE op[c] = "add"
    <3>1. pc'[c] = "exists"
      BY <1>8, <2>4, AfterReadingOf DEF Busy
    <3>2. QED
      BY <1>1, <2>4, <3>1 DEF FoundBy
  <2>5. CASE op[c] \notin {"add", "prune"}
    <3>1. op[c] = "read"
      BY <1>1, <1>2, <2>5 DEF Structure, StepsOfOp, TypeOK
    <3>2. asked[c] \subseteq merged[c].blocks \cup item.blocks
      BY <1>1, <1>5, <1>8, <3>1 DEF Cover, Found, FoundBy
    <3>3. merged'[c].blocks = merged[c].blocks \cup item.blocks
      BY <1>2, <1>8, <2>2, <2>5, PreparedBlocks DEF Busy
    <3>4. pc'[c] = "got"
      BY <1>8, <2>5, AfterReadingOf DEF Busy
    <3>5. QED
      BY <1>1, <3>1, <3>2, <3>3, <3>4 DEF FoundBy
  <2>6. QED
    BY <2>3, <2>4, <2>5
<1>9. QED
  BY <1>1, <1>2, <1>3, <1>6, <1>7, <1>8 DEF TypeOK

(* The other steps neither start to read nor change what was merged.       *)
LEMMA OtherStepsFind ==
    ASSUME Structure, Cover, NEW c \in Client, Step(c), ~List(c), ~ReadItem(c)
    PROVE  FoundBy(c)'
<1>1. /\ TypeOK /\ StepsOfOp
      /\ op[c] = "prune" => promised' \subseteq promised
  BY PromisedWhilePruning DEF Structure
<1>2. CASE pc'[c] \in {"idle", "list"}
  BY <1>2 DEF FoundBy, AtDeletion
<1>3. CASE /\ pc'[c] \notin {"idle", "list", "read", "got"} /\ op'[c] = op[c]
           /\ op[c] = "prune" => merged'[c] = merged[c]
           /\ pc[c] = "relist" \/ AtDeletion(c)
  BY <1>1, <1>3 DEF FoundBy, Cover, Found
<1>4. pc'[c] \in {"idle", "list"}
         \/ /\ pc'[c] \notin {"idle", "list", "read", "got"} /\ op'[c] = op[c]
            /\ op[c] = "prune" => merged'[c] = merged[c]
            /\ pc[c] = "relist" \/ AtDeletion(c)
  BY <1>1 DEF TypeOK, StepsOfOp, AtDeletion, Goto, Busy, Step, StartAdd,
       StartRead, StartPrune, Start, Relist, Exists, Write, DeleteItem, Return,
       Succeed, FailCall, FailWrite, FailDelete, Crash, Error, Forget, Retry,
       DeleteThen
<1>5. QED
  BY <1>2, <1>3, <1>4

LEMMA FoundStep ==
    ASSUME Structure, Cover, NEW c \in Client, Step(c)
    PROVE  Found'
<1>1. FoundBy(c)'
  BY ListFinds, ReadItemFinds, OtherStepsFind
<1>2. \A d \in Client \ {c} : FoundBy(d)'
  BY OthersFind DEF Cover
<1>3. QED
  BY <1>1, <1>2 DEF Found

-------------------------------------------------------------------------------
(* The inductive invariant is one.                                         *)

LEMMA IInvInit == Init => IInv
<1> SUFFICES ASSUME Init PROVE IInv
  OBVIOUS
<1>1. TypeOK /\ AllReadAtRelist
  BY TypeOKInit
<1>2. StepsOfOp /\ OnlyWritten /\ PruneAlone /\ AskedWasPromised
  BY DEF Init, StepsOfOp, OnlyWritten, PruneAlone, AskedWasPromised, AtDeletion
<1>3. AddMergedListed /\ DeletesListed
  BY DEF Init, AddMergedListed, DeletesListed, AtDeletion
<1>4. NoLostBlocks /\ AddsCovered /\ Found
  BY DEF Init, NoLostBlocks, AddsCovered, Found, FoundBy, AtDeletion
<1>5. QED
  BY <1>1, <1>2, <1>3, <1>4 DEF IInv, Structure, Cover

LEMMA StructureStep == Structure /\ [Next]_vars => Structure'
BY TypeOKStep, AllReadAtRelistStep, StepsOfOpStep, OnlyWrittenStep,
   PruneAloneStep, AskedWasPromisedStep, AddMergedListedStep, DeletesListedStep
   DEF Structure

LEMMA IInvStep == IInv /\ [Next]_vars => IInv'
<1> SUFFICES ASSUME IInv, [Next]_vars PROVE IInv'
  OBVIOUS
<1>1. Structure'
  BY StructureStep DEF IInv
<1>2. ASSUME OneOrderOnly' PROVE Cover'
  <2>1. OneOrderOnly
    BY <1>2, OneOrderBefore
  <2>2. Structure /\ Cover
    BY <2>1 DEF IInv
  <2>3. ASSUME NEW c \in Client, Step(c) PROVE Cover'
    BY <2>1, <2>2, <2>3, NoLostBlocksStep, AddsCoveredStep, FoundStep DEF Cover
  <2>4. CASE UNCHANGED vars
    BY <2>2, <2>4 DEF vars, clientVars, Cover, NoLostBlocks, Indexed, BlocksIn,
         AddsCovered, Found, FoundBy, AtDeletion, Covered
  <2>5. QED
    BY <2>3, <2>4 DEF Next
<1>3. QED
  BY <1>1, <1>2 DEF IInv

(* The inductive invariant holds in every reachable state; the theorems    *)
(* below are what it means.                                                *)
THEOREM Invariance == Spec => []IInv
BY IInvInit, IInvStep, PTL DEF Spec

-------------------------------------------------------------------------------
(* What it means for the users of a store                                  *)

(* No block is lost whose addToRemoteStoreIndex returned success, however  *)
(* many clients list, write and delete index files at the same time, fail  *)
(* and crash - in every history in which no set of blocks was written in   *)
(* two orders.                                                             *)
THEOREM PromisedBlocksAreIndexed == Spec => []NoLostBlocksInOneOrder
<1>1. IInv => NoLostBlocksInOneOrder
  BY DEF IInv, Cover, NoLostBlocksInOneOrder
<1>2. QED
  BY <1>1, Invariance, PTL

(* In the same histories readRemoteStoreIndex returns every block that was *)
(* promised when it was called and was not pruned since.                   *)
THEOREM ReadersFindPromised == Spec => []ReadersSeePromised
<1>1. IInv => ReadersSeePromised
  BY DEF IInv, Cover, Found, FoundBy, ReadersSeePromised
<1>2. QED
  BY <1>1, Invariance, PTL

(* In the same histories a writer that is deleting the files it merged has *)
(* what it merged in a file: a crash between two deletions is harmless.    *)
THEOREM DeletionsAreSafe == Spec => []MergedIsStored
<1>1. IInv => MergedIsStored
  <2>1. SUFFICES ASSUME IInv, OneOrderOnly, NEW c \in Client, pc[c] = "delete",
                        left[c] # {} \/ op[c] = "add"
                 PROVE  \E f \in files : merged[c].blocks \subseteq f.blocks
    BY DEF MergedIsStored, Busy
  <2>2. CASE op[c] = "add"
    BY <2>1, <2>2 DEF IInv, Cover, AddsCovered, Covered
  <2>3. CASE op[c] # "add"
    <3>1. op[c] = "prune"
      BY <2>1, <2>3 DEF IInv, Structure, StepsOfOp, AtDeletion
    <3>2. merged[c] \in files
      BY <2>1, <2>3, <3>1 DEF IInv, Structure, DeletesListed
    <3>3. QED
      BY <3>2
  <2>4. QED
    BY <2>2, <2>3
<1>2. QED
  BY <1>1, Invariance, PTL

(* Where a failed write is never taken for a success, a prune that comes   *)
(* to delete index files, or to return, has written its own.               *)
THEOREM PrunesAreWritten ==
    ASSUME ~WriteErrorIsOk
    PROVE  Spec => []PrunedIndexIsStored
<1>1. Init => PrunedIndexIsStored
  BY DEF Init, PrunedIndexIsStored
<1>2. Structure /\ PrunedIndexIsStored /\ [Next]_vars => PrunedIndexIsStored'
  <2> SUFFICES ASSUME Structure, PrunedIndexIsStored, [Next]_vars,
                      NEW d \in Client, op'[d] = "prune", pc'[d] = "delete"
               PROVE  merged'[d] \in files'
    BY DEF PrunedIndexIsStored, Busy
  <2>1. ASSUME NEW c \in Client, Step(c) PROVE merged'[d] \in files'
    <3>1. \/ /\ op[d] = "prune" /\ pc[d] = "delete" /\ merged'[d] = merged[d]
          \/ merged'[d] \in files'
      BY <2>1 DEF Structure, TypeOK, Goto, Busy, Step, StartAdd, StartRead,
         StartPrune, Start, List, ReadItem, Relist, Exists, AlreadyListed, Write,
         DeleteItem, Return, Succeed, FailCall, FailWrite, FailDelete, Crash,
         Error, Forget, Retry, DeleteThen, CountsAsOk, AfterReading
    <3>2. CASE op[d] = "prune" /\ pc[d] = "delete" /\ merged'[d] = merged[d]
      <4>1. merged[d] \in files
        BY <3>2 DEF PrunedIndexIsStored, Busy
      <4>2. CASE files \subseteq files'
        BY <3>2, <4>1, <4>2
      <4>3. ASSUME pc[c] = "delete",
                   NEW item \in left[c], files' = files \ {item}
            PROVE  merged'[d] \in files'
        <5>1. c = d
          BY <3>2, <4>3 DEF Structure, PruneAlone, StepsOfOp, AtDeletion
        <5>2. item # merged[d]
          BY <4>3, <5>1 DEF Structure, DeletesListed
        <5>3. QED
          BY <3>2, <4>1, <4>3, <5>2
      <4>4. QED
        BY <2>1, <4>2, <4>3, FilesStep
    <3>3. QED
      BY <3>1, <3>2
  <2>2. CASE UNCHANGED vars
    BY <2>2 DEF vars, clientVars, PrunedIndexIsStored, Busy
  <2>3. QED
    BY <2>1, <2>2 DEF Next
<1>3. IInv => Structure
  BY DEF IInv
<1>4. QED
  BY <1>1, <1>2, <1>3, Invariance, PTL DEF Spec
-------------------------------------------------------------------------------
(* The refinement.  The unlocked store index implements IndexPromise in    *)
(* every history in which no set of blocks was written in two orders: its  *)
(* steps are steps of the promise or change nothing that it speaks of.     *)

(* A prune works on what a reader of the index finds: it has merged        *)
(* nothing else, and all of it that it keeps.                              *)
PruneSees ==
    \A p \in Client : op[p] = "prune" =>
        /\ pc[p] = "read" =>
              /\ left[p] \subseteq files
              /\ Indexed \cap keep[p] \subseteq merged[p].blocks \cup BlocksIn(left[p])
        /\ pc[p] = "relist" \/ AtDeletion(p) =>
              Indexed \cap keep[p] \subseteq merged[p].blocks
        /\ pc[p] \in {"read", "relist"} \/ AtDeletion(p) =>
              merged[p].blocks \subseteq Indexed

-------------------------------------------------------------------------------
(* No other client touches the files while a prune runs.                   *)
LEMMA FilesRestWhilePruning ==
    ASSUME Structure, NEW c \in Client, Step(c),
           NEW p \in Client, p # c, op[p] = "prune"
    PROVE  files' = files
<1>1. op[c] \notin {"add", "prune"}
  BY DEF Structure, PruneAlone
<1>2. pc[c] \notin {"write", "delete"}
  BY <1>1 DEF Structure, StepsOfOp, AtDeletion
<1>3. QED
  BY <1>2 DEF Step, StartAdd, StartRead, StartPrune, Start, List, ReadItem,
       Relist, Exists, Write, DeleteItem, Return, FailCall, FailWrite,
       FailDelete, Crash

(* A prune writes what is indexed, and deletes only while its own file,    *)
(* which it does not delete, is there.                                     *)
LEMMA PruneFilesStep ==
    ASSUME Structure, PruneSees, NEW c \in Client, Step(c), op[c] = "prune"
    PROVE  /\ Indexed' \subseteq Indexed
           /\ Indexed \cap keep[c] \subseteq Indexed'
           /\ \/ Indexed' = Indexed
              \/ pc'[c] = "delete" /\ merged'[c] = merged[c] /\ merged[c] \in files'
<1>1. CASE files' = files
  BY <1>1 DEF Indexed
<1>2. CASE pc[c] = "write" /\ files' = files \cup {merged[c]}
  <2>1. merged[c].blocks \subseteq Indexed
    BY <1>2 DEF PruneSees, AtDeletion
  <2>2. QED
    BY <1>2, <2>1 DEF Indexed, BlocksIn
<1>3. ASSUME pc[c] = "delete", UNCHANGED <<pc, merged>>,
             NEW item \in left[c], files' = files \ {item}
      PROVE  /\ Indexed' \subseteq Indexed
             /\ Indexed \cap keep[c] \subseteq Indexed'
             /\ pc'[c] = "delete" /\ merged'[c] = merged[c] /\ merged[c] \in files'
  <2>1. merged[c] \in files'
    BY <1>3 DEF Structure, DeletesListed
  <2>2. Indexed \cap keep[c] \subseteq merged[c].blocks
    BY <1>3 DEF PruneSees, AtDeletion
  <2>3. QED
    BY <1>3, <2>1, <2>2 DEF Indexed, BlocksIn
<1>4. \/ files' = files
      \/ pc[c] = "write" /\ files' = files \cup {merged[c]}
      \/ /\ pc[c] = "delete" /\ UNCHANGED <<pc, merged>>
         /\ \E item \in left[c] : files' = files \ {item}
  BY DEF Step, StartAdd, StartRead, StartPrune, Start, List, ReadItem, Relist,
       Exists, Write, DeleteItem, Return, FailCall, FailWrite, FailDelete, Crash
<1>5. QED
  BY <1>1, <1>2, <1>3, <1>4

LEMMA PruneReadItemSees ==
    ASSUME Structure, PruneSees, NEW c \in Client, op[c] = "prune", ReadItem(c)
    PROVE  PruneSees'
<1>1. /\ pc[c] = "read"
      /\ UNCHANGED <<files, op, keep>>
  BY DEF ReadItem
<1>2. TypeOK
  BY DEF Structure
<1>3. \A p \in Client : op[p] = "prune" => p = c
  BY DEF Structure, PruneAlone
<1>4. PICK item \in left[c] :
         \/ /\ pc' = [pc EXCEPT ![c] = "list"]
            /\ items' = [items EXCEPT ![c] = {}]
         \/ /\ items' = items
            /\ left' = [left EXCEPT ![c] = left[c] \ {item}]
            /\ \E m \in Index :
                 /\ merged' = [merged EXCEPT ![c] = m]
                 /\ \/ /\ pc' = pc
                       /\ m.blocks = merged[c].blocks \cup item.blocks
                    \/ /\ pc' = [pc EXCEPT ![c] = AfterReading(c)]
                       /\ left[c] = {item}
                       /\ m = Prepared(c, Merge(merged[c], item))
  BY <1>2, ReadItemCases
<1>5. BlocksIn(left[c]) = item.blocks \cup BlocksIn(left[c] \ {item})
  BY ReadOne
<1>6. left[c] = {item} => BlocksIn(left[c]) = item.blocks
  BY <1>5, NothingRead
<1>7. /\ item.blocks \subseteq Indexed
      /\ merged[c].blocks \subseteq Indexed
      /\ Indexed \cap keep[c] \subseteq merged[c].blocks \cup BlocksIn(left[c])
      /\ left[c] \subseteq files
  BY <1>1 DEF PruneSees, Indexed, BlocksIn
<1>8. CASE pc'[c] = "list"
  BY <1>1, <1>3, <1>8 DEF PruneSees, AtDeletion
<1>9. CASE /\ left'[c] = left[c] \ {item} /\ pc'[c] = "read"
           /\ merged'[c].blocks = merged[c].blocks \cup item.blocks
  BY <1>1, <1>3, <1>5, <1>7, <1>9 DEF PruneSees, Indexed, AtDeletion
<1>10. CASE /\ pc'[c] = AfterReading(c) /\ left[c] = {item}
            /\ merged'[c] = Prepared(c, Merge(merged[c], item))
  <2>1. merged[c] \in Index /\ item \in Index
    BY <1>2 DEF TypeOK
  <2>2. /\ Merge(merged[c], item) \in Index
        /\ Merge(merged[c], item).blocks = merged[c].blocks \cup item.blocks
    BY <2>1, MergeType
  <2>3. merged'[c].blocks = (merged[c].blocks \cup item.blocks) \cap keep[c]
    BY <1>2, <1>10, <2>2, PreparedBlocks DEF Busy
  <2>4. pc'[c] = "relist"
    BY <1>10, AfterReadingOf DEF Busy
  <2>5. QED
    BY <1>1, <1>3, <1>6, <1>7, <1>10, <2>3, <2>4 DEF PruneSees, Indexed
<1>11. QED
  BY <1>1, <1>2, <1>4, <1>8, <1>9, <1>10 DEF TypeOK

LEMMA PruneListSees ==
    ASSUME Structure, PruneSees, NEW c \in Client, op[c] = "prune", List(c)
    PROVE  PruneSees'
<1>1. /\ UNCHANGED <<files, op, keep>>
      /\ TypeOK
  BY DEF List, Structure
<1>2. \A p \in Client : op[p] = "prune" => p = c
  BY DEF Structure, PruneAlone
<1>3. CASE files = {}
  <2>1. pc'[c] = "relist" /\ merged'[c] = Prepared(c, EmptyIndex)
    BY <1>1, <1>3, AfterReadingOf DEF List, Goto, TypeOK, Busy
  <2>2. Prepared(c, EmptyIndex).blocks = EmptyIndex.blocks \cap keep[c]
    BY <1>1, PreparedBlocks, EmptyIndexType DEF Busy
  <2>3. Indexed = {}
    BY <1>3, NothingRead DEF Indexed
  <2>4. QED
    BY <1>1, <1>2, <2>1, <2>2, <2>3 DEF PruneSees, Indexed, EmptyIndex
<1>4. CASE files # {}
  <2>1. pc'[c] = "read" /\ left'[c] = files /\ merged'[c] = EmptyIndex
    BY <1>1, <1>4 DEF List, Goto, TypeOK
  <2>2. EmptyIndex.blocks = {}
    BY DEF EmptyIndex
  <2>3. QED
    BY <1>1, <1>2, <2>1, <2>2 DEF PruneSees, Indexed, AtDeletion
<1>5. QED
  BY <1>3, <1>4

LEMMA PruneSeesStep ==
    ASSUME Structure, PruneSees, NEW c \in Client, Step(c)
    PROVE  PruneSees'
<1>1. ASSUME NEW p \in Client, p # c, op'[p] = "prune"
      PROVE  PruneSees'
  <2>1. /\ op[p] = "prune" /\ pc'[p] = pc[p] /\ left'[p] = left[p]
        /\ merged'[p] = merged[p] /\ keep'[p] = keep[p]
    BY <1>1 DEF Structure, TypeOK, Step, StartAdd, StartRead, StartPrune, Start,
       Goto, List, ReadItem, Relist, Exists, Write, DeleteItem, Return, Succeed,
       FailCall, FailWrite, FailDelete, Crash, Error, Forget, Retry, DeleteThen
  <2>2. files' = files
    BY <1>1, <2>1, FilesRestWhilePruning
  <2>3. \A d \in Client : op'[d] = "prune" => d = p
    <3>1. PruneAlone'
      BY PruneAloneStep DEF Structure, Next
    <3>2. QED
      BY <1>1, <3>1 DEF PruneAlone
  <2>4. QED
    BY <2>1, <2>2, <2>3 DEF PruneSees, Indexed, AtDeletion
<1>2. CASE op[c] = "prune" /\ (List(c) \/ ReadItem(c))
  BY <1>2, PruneListSees, PruneReadItemSees
<1>3. ASSUME op'[c] = "prune", \A p \in Client : op'[p] = "prune" => p = c,
             ~(op[c] = "prune" /\ (List(c) \/ ReadItem(c)))
      PROVE  PruneSees'
  <2>1. \/ pc'[c] = "list"
        \/ /\ op[c] = "prune" /\ pc'[c] # "read"
           /\ merged'[c] = merged[c] /\ keep'[c] = keep[c]
           /\ pc[c] = "relist" \/ AtDeletion(c)
    BY <1>3 DEF Structure, TypeOK, StepsOfOp, AtDeletion, Goto, Busy, Step,
       StartAdd, StartRead, StartPrune, Start, List, ReadItem, Relist, Exists,
       Write, DeleteItem, Return, Succeed, FailCall, FailWrite, FailDelete,
       Crash, Error, Forget, Retry, DeleteThen
  <2>2. CASE pc'[c] = "list"
    BY <1>3, <2>2 DEF PruneSees, AtDeletion
  <2>3. CASE /\ op[c] = "prune" /\ pc'[c] # "read"
             /\ merged'[c] = merged[c] /\ keep'[c] = keep[c]
             /\ pc[c] = "relist" \/ AtDeletion(c)
    <3>1. /\ Indexed \cap keep[c] \subseteq merged[c].blocks
          /\ merged[c].blocks \subseteq Indexed
      BY <2>3 DEF PruneSees
    <3>2. /\ Indexed' \subseteq Indexed
          /\ \/ Indexed' = Indexed
             \/ merged[c] \in files'
      BY <2>3, PruneFilesStep
    <3>3. merged[c].blocks \subseteq Indexed'
      BY <3>1, <3>2 DEF Indexed, BlocksIn
    <3>4. QED
      BY <1>3, <2>3, <3>1, <3>2, <3>3 DEF PruneSees
  <2>4. QED
    BY <2>1, <2>2, <2>3
<1>4. CASE \A p \in Client : op'[p] # "prune"
  BY <1>4 DEF PruneSees
<1>5. QED
  BY <1>1, <1>2, <1>3, <1>4

(* While a prune runs, no client changes the files but the prune itself.   *)
THEOREM PruneSeesIndexed == Spec => []PruneSees
<1>1. Init => PruneSees
  BY DEF Init, PruneSees
<1>2. Structure /\ PruneSees /\ UNCHANGED vars => PruneSees'
  BY DEF vars, clientVars, PruneSees, Indexed, AtDeletion
<1>3. Structure /\ PruneSees /\ [Next]_vars => PruneSees'
  BY <1>2, PruneSeesStep DEF Next
<1>4. IInv => Structure
  BY DEF IInv
<1>5. QED
  BY <1>1, <1>3, <1>4, Invariance, PTL DEF Spec
-------------------------------------------------------------------------------
(* The steps of the promise                                                *)

LEMMA KeptBy ==
    ASSUME PruneAlone
    PROVE  /\ NoPrune => Kept = Block
           /\ \A p \in Client : op[p] = "prune" => Kept = keep[p]
<1>1. ASSUME NEW p \in Client, op[p] = "prune" PROVE Kept = keep[p]
  <2>1. {c \in Client : op[c] = "prune"} = {p}
    BY <1>1 DEF PruneAlone
  <2>2. ~NoPrune
    BY <1>1 DEF NoPrune, Busy
  <2>3. {keep[c] : c \in {p}} = {keep[p]}
    OBVIOUS
  <2>4. QED
    BY <2>1, <2>2, <2>3 DEF Kept, Busy
<1>2. QED
  BY <1>1 DEF Kept

LEMMA InitPromises == Init => Promise!Init
<1> SUFFICES ASSUME Init PROVE Promise!Init
  OBVIOUS
<1>1. Indexed = {}
  BY NothingRead DEF Init, Indexed
<1>2. Kept = Block
  BY DEF Init, Kept, NoPrune, Busy
<1>3. QED
  BY <1>1, <1>2 DEF Init, Promise!Init

(* A prune's own steps take out what it does not keep.                     *)
LEMMA PruneStepPromises ==
    ASSUME Structure, Structure', PruneSees,
           NEW c \in Client, Step(c), op[c] = "prune"
    PROVE  [Promise!Next]_(Promise!vars)
<1>1. promised' = promised
  BY DEF Structure, TypeOK, StepsOfOp, Step, StartAdd, StartRead, StartPrune,
     Start, List, ReadItem, Relist, Exists, Write, DeleteItem, Return, Succeed,
     Busy, FailCall, FailWrite, FailDelete, Crash
<1>2. Kept = keep[c]
  BY KeptBy DEF Structure
<1>3. Kept' \in {Kept, Block}
  <2>1. CASE op'[c] = "prune"
    <3>1. keep'[c] = keep[c]
      BY <2>1 DEF Structure, TypeOK, StepsOfOp, Step, StartAdd, StartRead,
         StartPrune, Start, List, ReadItem, Relist, Exists, Write, DeleteItem,
         Return, Succeed, FailCall, FailWrite, FailDelete, Crash, Error, Forget,
         Retry, DeleteThen
    <3>2. Kept' = keep'[c]
      <4>1. {d \in Client : op'[d] = "prune"} = {c}
        BY <2>1 DEF Structure, PruneAlone
      <4>2. ~NoPrune'
        BY <2>1 DEF NoPrune, Busy
      <4>3. {keep'[d] : d \in {c}} = {keep'[c]}
        OBVIOUS
      <4>4. QED
        BY <4>1, <4>2, <4>3 DEF Kept, Busy
    <3>3. QED
      BY <1>2, <3>1, <3>2
  <2>2. CASE op'[c] # "prune"
    <3>1. \A d \in Client \ {c} : op[d] # "prune" /\ op'[d] = op[d]
      BY DEF Structure, PruneAlone, TypeOK, StepsOfOp, Step, StartAdd, StartRead,
         StartPrune, Start, List, ReadItem, Relist, Exists, Write, DeleteItem,
         Return, Succeed, FailCall, FailWrite, FailDelete, Crash, Error, Forget,
         Retry, DeleteThen
    <3>2. NoPrune'
      BY <2>2, <3>1 DEF NoPrune, Busy
    <3>3. QED
      BY <3>2 DEF Kept
  <2>3. QED
    BY <2>1, <2>2
<1>4. /\ Indexed' \subseteq Indexed
      /\ Indexed \cap Kept \subseteq Indexed'
  BY <1>2, PruneFilesStep
<1>5. DEFINE gone == Indexed \ Indexed'
<1>6. gone \in SUBSET (Indexed \ Kept) /\ Indexed' = Indexed \ gone
  BY <1>4
<1>7. Promise!Unpublish
  BY <1>1, <1>3, <1>6 DEF Promise!Unpublish
<1>8. QED
  BY <1>7 DEF Promise!Next

(* An add never takes anything out, and promises what is indexed.          *)
LEMMA AddStepPromises ==
    ASSUME Structure, Structure', Cover, OneOrderOnly,
           NEW c \in Client, Step(c), op[c] = "add"
    PROVE  [Promise!Next]_(Promise!vars)
<1>1. NoPrune /\ NoPrune'
  BY DEF Structure, PruneAlone, TypeOK, StepsOfOp, NoPrune, Busy, Step, StartAdd,
     StartRead, StartPrune, Start, List, ReadItem, Relist, Exists, Write,
     DeleteItem, Return, Succeed, FailCall, FailWrite, FailDelete, Crash, Error,
     Forget, Retry, DeleteThen
<1>2. Kept' = Kept
  BY <1>1 DEF Kept
<1>3. Indexed \subseteq Indexed'
  <2>1. ASSUME NEW b \in Indexed PROVE b \in Indexed'
    <3>1. Covered({b})
      BY DEF Indexed, BlocksIn, Covered
    <3>2. Covered({b})'
      BY <1>1, <3>1, CoverKept DEF Cover
    <3>3. QED
      BY <3>2 DEF Covered, Indexed, BlocksIn
  <2>2. QED
    BY <2>1
<1>4. Indexed' \in SUBSET Block /\ Indexed' = Indexed \cup Indexed'
  BY <1>3 DEF Structure, TypeOK, Indexed, BlocksIn, Index
<1>5. CASE promised' = promised
  <2>1. Promise!Publish
    BY <1>2, <1>4, <1>5 DEF Promise!Publish
  <2>2. QED
    BY <2>1 DEF Promise!Next
<1>6. CASE promised' = promised \cup added[c].blocks
  <2>1. CASE added[c].blocks \subseteq promised
    BY <1>5, <1>6, <2>1
  <2>2. CASE ~(added[c].blocks \subseteq promised)
    <3>1. NoLostBlocks'
      BY NoLostBlocksStep
    <3>2. added[c].blocks \in SUBSET Indexed'
      BY <1>6, <3>1 DEF NoLostBlocks
    <3>3. Promise!Acknowledge
      BY <1>2, <1>4, <1>6, <3>2 DEF Promise!Acknowledge
    <3>4. QED
      BY <3>3 DEF Promise!Next
  <2>3. QED
    BY <2>1, <2>2
<1>7. promised' = promised \/ promised' = promised \cup added[c].blocks
  BY DEF Structure, StepsOfOp, Step, StartAdd, StartRead, StartPrune, Start, List,
     ReadItem, Relist, Exists, Write, DeleteItem, Return, Succeed, FailCall,
     FailWrite, FailDelete, Crash
<1>8. QED
  BY <1>5, <1>6, <1>7

(* A reader, and a client that starts, leave the files as they are.        *)
LEMMA ReadStepPromises ==
    ASSUME Structure, Structure',
           NEW c \in Client, Step(c), op[c] \in {"none", "read"}
    PROVE  [Promise!Next]_(Promise!vars)
<1>1. Indexed' = Indexed
  <2>1. files' = files
    BY DEF Structure, StepsOfOp, AtDeletion, Step, StartAdd, StartRead, StartPrune,
       Start, List, ReadItem, Relist, Exists, Write, DeleteItem, Return,
       FailCall, FailWrite, FailDelete, Crash
  <2>2. QED
    BY <2>1 DEF Indexed
<1>2. CASE StartPrune(c)
  <2>1. PICK blocks \in KeptBlocks : /\ keep' = [keep EXCEPT ![c] = blocks]
                                     /\ promised' = promised \cap blocks
    BY <1>2 DEF StartPrune
  <2>2. op'[c] = "prune" /\ keep'[c] = blocks
    BY <1>2, <2>1 DEF StartPrune, Structure, TypeOK
  <2>3. Kept = Block
    BY <1>2 DEF StartPrune, Kept
  <2>4. Kept' = blocks
    <3>1. {d \in Client : op'[d] = "prune"} = {c}
      BY <2>2 DEF Structure, PruneAlone
    <3>2. ~NoPrune'
      BY <2>2 DEF NoPrune, Busy
    <3>3. {keep'[d] : d \in {c}} = {keep'[c]}
      OBVIOUS
    <3>4. QED
      BY <2>2, <3>1, <3>2, <3>3 DEF Kept, Busy
  <2>5. blocks \in SUBSET Block
    BY UnlockedAssumption
  <2>6. Promise!Withdraw
    BY <1>1, <2>1, <2>3, <2>4, <2>5 DEF Promise!Withdraw
  <2>7. QED
    BY <2>6 DEF Promise!Next
<1>3. CASE ~StartPrune(c)
  <2>1. promised' = promised
    BY <1>3 DEF Structure, StepsOfOp, Step, StartAdd, StartRead, Start, List,
       ReadItem, Relist, Exists, Write, DeleteItem, Return, Succeed, Busy,
       FailCall, FailWrite, FailDelete, Crash
  <2>2. \A d \in Client : (op'[d] = "prune") = (op[d] = "prune")
    BY <1>3 DEF Structure, TypeOK, StepsOfOp, Step, StartAdd, StartRead, Start,
       List, ReadItem, Relist, Exists, Write, DeleteItem, Return, Succeed,
       FailCall, FailWrite, FailDelete, Crash, Error, Forget, Retry, DeleteThen
  <2>3. \A d \in Client : op[d] = "prune" => keep'[d] = keep[d]
    BY <1>3 DEF Structure, TypeOK, StepsOfOp, Step, StartAdd, StartRead, Start,
       List, ReadItem, Relist, Exists, Write, DeleteItem, Return, Succeed,
       FailCall, FailWrite, FailDelete, Crash, Error, Forget, Retry, DeleteThen
  <2>4. Kept' = Kept
    <3>1. {d \in Client : op'[d] = "prune"} = {d \in Client : op[d] = "prune"}
      BY <2>2
    <3>2. {keep'[e] : e \in {d \in Client : op[d] = "prune"}}
             = {keep[e] : e \in {d \in Client : op[d] = "prune"}}
      BY <2>3
    <3>3. NoPrune' = NoPrune
      BY <2>2 DEF NoPrune, Busy
    <3>4. QED
      BY <3>1, <3>2, <3>3 DEF Kept, Busy
  <2>5. QED
    BY <1>1, <2>1, <2>4 DEF Promise!vars
<1>4. QED
  BY <1>2, <1>3

LEMMA StepPromises ==
    ASSUME IInv, IInv', PruneSees, OneOrderOnly, [Next]_vars
    PROVE  [Promise!Next]_(Promise!vars)
<1>1. Structure /\ Structure' /\ Cover
  BY DEF IInv
<1>2. ASSUME NEW c \in Client, Step(c) PROVE [Promise!Next]_(Promise!vars)
  <2>1. op[c] \in {"none", "add", "prune", "read"}
    BY <1>1 DEF Structure, TypeOK
  <2>2. QED
    BY <1>1, <1>2, <2>1, PruneStepPromises, AddStepPromises, ReadStepPromises
<1>3. CASE UNCHANGED vars
  BY <1>3 DEF vars, clientVars, Promise!vars, Indexed, Kept, NoPrune, Busy
<1>4. QED
  BY <1>2, <1>3 DEF Next

(* The listing, merging, writing and deleting of index files by any number *)
(* of clients is the promise of one shared index: uploads only add to what *)
(* a reader finds, what is acknowledged is findable, and only a prune      *)
(* takes anything out, which is what it does not keep.  It holds in every  *)
(* history in which no set of blocks was written in two orders.            *)
THEOREM UnlockedImplementsPromise ==
    Spec /\ []OneOrderOnly => ImplementsPromise
<1>1. Spec => [](IInv /\ PruneSees)
  BY Invariance, PruneSeesIndexed, PTL
<1>2. Spec => [][Next]_vars
  BY PTL DEF Spec
<1>3. Spec => Promise!Init
  BY InitPromises DEF Spec
<1>4. IInv /\ IInv' /\ PruneSees /\ OneOrderOnly /\ [Next]_vars
         => [Promise!Next]_(Promise!vars)
  BY StepPromises
<1>5. QED
  BY <1>1, <1>2, <1>3, <1>4, PTL DEF ImplementsPromise, Promise!Spec
===============================================================================
