------------------------ MODULE StoreIndexLockedProofs ------------------------
(***************************************************************************)
(* Proofs about the locked store index, for any blocks, clients, added     *)
(* indexes and bounds, and both kinds of store.                            *)
(***************************************************************************)
EXTENDS StoreIndexLocked, StoreIndexProofs, TLAPS

-------------------------------------------------------------------------------
(* The inductive invariant                                                 *)

InFile(c) == pc[c] \in {"fill", "stamp"}

(* A client at work is at a step of what it does.                          *)
StepsOfOp ==
    \A c \in Client :
        /\ op[c] = "none" => pc[c] = "idle"
        /\ op[c] = "add" => pc[c] \in {"lock", "fetch", "write", "fill", "stamp"}
        /\ op[c] = "read" => pc[c] \in {"list", "read", "got"}
        /\ op[c] = "prune" =>
              pc[c] \in {"list", "read", "lock", "write", "fill", "stamp"}
        /\ InFile(c) => store = "file"

(* A prune runs alone and drops nothing that is promised.                  *)
PruneAlone ==
    \A p \in Client : op[p] = "prune" =>
        /\ promised \subseteq keep[p]
        /\ \A c \in Client \ {p} : op[c] \notin {"add", "prune"}

AskedWasPromised == \A c \in Client : asked[c] \subseteq promised

(* The rest holds until a write of a file is left unfinished: the file is  *)
(* empty only while its writer fills it,                                   *)
Shaped ==
    /\ shape # "partial"
    /\ (shape = "empty") <=> \E c \in Client : pc[c] = "fill"
    /\ shape = "absent" => writes = 0 /\ generation = 0 /\ content = EmptyIndex

(* the generation counts the writes, with the one that is not stamped yet, *)
(* and what a client noted is how it knows of later ones,                  *)
Counted ==
    /\ holder = {} => generation = writes
    /\ \A c \in holder : version[c] = generation /\ writes = generation + 1
    /\ \A c \in Client : pc[c] \in {"fetch", "write"} =>
          version[c] = seen[c] /\ seen[c] <= generation

(* what is promised is in the index, or is being put there,                *)
Promised ==
    /\ promised \subseteq content.blocks
    /\ \A c \in Client : op[c] = "add" =>
        /\ (pc[c] = "write" /\ seen[c] = writes) \/ InFile(c) =>
              content.blocks \cup added[c].blocks \subseteq merged[c].blocks
        /\ pc[c] = "stamp" => content = merged[c]

(* and a prune or a reader has found it.                                   *)
Found ==
    \A c \in Client :
        /\ op[c] = "prune" /\ pc[c] \notin {"list", "read"} =>
              promised \subseteq merged[c].blocks
        /\ pc[c] = "got" => \/ asked[c] \subseteq merged[c].blocks
                            \/ store = "file" /\ merged[c] = EmptyIndex

Structure == TypeOK /\ StepsOfOp /\ PruneAlone /\ AskedWasPromised
Uncut == Shaped /\ Counted /\ Promised /\ Found

IInv == Structure /\ (~cut => Uncut)
-------------------------------------------------------------------------------
(* Each part is kept by every step.                                        *)

LEMMA AddedBlocksType == TypeOK => \A c \in Client : added[c].blocks \subseteq Block
BY DEF TypeOK, Index

LEMMA TypeOKStep ==
    ASSUME TypeOK, StepsOfOp, [Next]_vars
    PROVE  TypeOK'
<1> USE DEF TypeOK, Phase, MaxErrors, Goto, Busy, objectVars, clientVars, historyVars
<1>1. ASSUME NEW c \in Client, StartAdd(c) PROVE TypeOK'
  BY <1>1, LockedAssumption DEF StartAdd, Start, NoPrune
<1>2. ASSUME NEW c \in Client, StartRead(c) PROVE TypeOK'
  BY <1>2 DEF StartRead, Start
<1>3. ASSUME NEW c \in Client, StartPrune(c) PROVE TypeOK'
  BY <1>3, LockedAssumption DEF StartPrune, Start, NoPrune, NoUpload
<1>4. ASSUME NEW c \in Client, List(c) PROVE TypeOK'
  BY <1>4, EmptyIndexType, PruneToType DEF List, Got
<1>5. ASSUME NEW c \in Client, Read(c) PROVE TypeOK'
  BY <1>5, PruneToType DEF Read, Got, LockIsFree
<1>6. ASSUME NEW c \in Client, Lock(c) PROVE TypeOK'
  BY <1>6 DEF Lock, Noted, LockIsFree
<1>7. ASSUME NEW c \in Client, Fetch(c) PROVE TypeOK'
  BY <1>7, MergeType DEF Fetch, LockIsFree
<1>8. ASSUME NEW c \in Client, WriteRefused(c) PROVE TypeOK'
  BY <1>8, EmptyIndexType DEF WriteRefused, Retry, LockIsFree, SameVersion
<1>9. ASSUME NEW c \in Client, WriteObject(c) PROVE TypeOK'
  BY <1>9, EmptyIndexType, AddedBlocksType DEF WriteObject, Put, Succeed,
     Forget, SameVersion
<1>10. ASSUME NEW c \in Client, Truncate(c) PROVE TypeOK'
  BY <1>10 DEF Truncate, LockIsFree, SameVersion
<1>11. ASSUME NEW c \in Client, Fill(c) PROVE TypeOK'
  BY <1>11 DEF Fill
<1>12. ASSUME NEW c \in Client, Stamp(c) PROVE TypeOK'
  BY <1>12, EmptyIndexType, AddedBlocksType DEF Stamp, NextGeneration,
     Succeed, Forget
<1>13. ASSUME NEW c \in Client, Return(c) PROVE TypeOK'
  BY <1>13, EmptyIndexType, AddedBlocksType DEF Return, Succeed, Forget
<1>14. ASSUME NEW c \in Client, ParseError(c) PROVE TypeOK'
  BY <1>14, EmptyIndexType DEF ParseError, Error, Forget, Retry, LockIsFree
<1>15. ASSUME NEW c \in Client, FailCall(c) PROVE TypeOK'
  BY <1>15, EmptyIndexType DEF FailCall, Fault, Error, Forget, Retry
<1>16. ASSUME NEW c \in Client, FailAnswer(c) PROVE TypeOK'
  BY <1>16, EmptyIndexType DEF FailAnswer, Fault, Put, Error, Forget, Retry,
     SameVersion
<1>17. ASSUME NEW c \in Client, FailSilently(c) PROVE TypeOK'
  BY <1>17, EmptyIndexType DEF FailSilently, Fault, Put, Retry, SameVersion
<1>18. ASSUME NEW c \in Client, FailFile(c) PROVE TypeOK'
  BY <1>18, EmptyIndexType DEF FailFile, Fault, CutShort, Error, Forget,
     Retry
<1>19. ASSUME NEW c \in Client, Crash(c) PROVE TypeOK'
  BY <1>19, EmptyIndexType DEF Crash, Fault, CutShort, Forget
<1>20. CASE UNCHANGED vars
  BY <1>20 DEF vars
<1>21. QED
  BY <1>1, <1>2, <1>3, <1>4, <1>5, <1>6, <1>7, <1>8, <1>9, <1>10, <1>11,
     <1>12, <1>13, <1>14, <1>15, <1>16, <1>17, <1>18, <1>19, <1>20 DEF Next,
     Step, Progress

LEMMA StepsOfOpStep ==
    ASSUME TypeOK, StepsOfOp, [Next]_vars
    PROVE  StepsOfOp'
<1> USE DEF TypeOK, StepsOfOp, InFile, Goto, Busy, objectVars, clientVars, historyVars
<1>1. ASSUME NEW c \in Client, StartAdd(c) PROVE StepsOfOp'
  BY <1>1 DEF StartAdd, Start, NoPrune
<1>2. ASSUME NEW c \in Client, StartRead(c) PROVE StepsOfOp'
  BY <1>2 DEF StartRead, Start
<1>3. ASSUME NEW c \in Client, StartPrune(c) PROVE StepsOfOp'
  BY <1>3 DEF StartPrune, Start, NoPrune, NoUpload
<1>4. ASSUME NEW c \in Client, List(c) PROVE StepsOfOp'
  BY <1>4 DEF List, Got
<1>5. ASSUME NEW c \in Client, Read(c) PROVE StepsOfOp'
  BY <1>5 DEF Read, Got, LockIsFree
<1>6. ASSUME NEW c \in Client, Lock(c) PROVE StepsOfOp'
  BY <1>6 DEF Lock, Noted, LockIsFree
<1>7. ASSUME NEW c \in Client, Fetch(c) PROVE StepsOfOp'
  BY <1>7 DEF Fetch, LockIsFree
<1>8. ASSUME NEW c \in Client, WriteRefused(c) PROVE StepsOfOp'
  BY <1>8 DEF WriteRefused, Retry, LockIsFree, SameVersion
<1>9. ASSUME NEW c \in Client, WriteObject(c) PROVE StepsOfOp'
  BY <1>9 DEF WriteObject, Put, Succeed, Forget, SameVersion
<1>10. ASSUME NEW c \in Client, Truncate(c) PROVE StepsOfOp'
  BY <1>10 DEF Truncate, LockIsFree, SameVersion
<1>11. ASSUME NEW c \in Client, Fill(c) PROVE StepsOfOp'
  BY <1>11 DEF Fill
<1>12. ASSUME NEW c \in Client, Stamp(c) PROVE StepsOfOp'
  BY <1>12 DEF Stamp, NextGeneration, Succeed, Forget
<1>13. ASSUME NEW c \in Client, Return(c) PROVE StepsOfOp'
  BY <1>13 DEF Return, Succeed, Forget
<1>14. ASSUME NEW c \in Client, ParseError(c) PROVE StepsOfOp'
  BY <1>14 DEF ParseError, Error, Forget, Retry, LockIsFree
<1>15. ASSUME NEW c \in Client, FailCall(c) PROVE StepsOfOp'
  BY <1>15 DEF FailCall, Fault, Error, Forget, Retry
<1>16. ASSUME NEW c \in Client, FailAnswer(c) PROVE StepsOfOp'
  BY <1>16 DEF FailAnswer, Fault, Put, Error, Forget, Retry, SameVersion
<1>17. ASSUME NEW c \in Client, FailSilently(c) PROVE StepsOfOp'
  BY <1>17 DEF FailSilently, Fault, Put, Retry, SameVersion
<1>18. ASSUME NEW c \in Client, FailFile(c) PROVE StepsOfOp'
  BY <1>18 DEF FailFile, Fault, CutShort, Error, Forget, Retry
<1>19. ASSUME NEW c \in Client, Crash(c) PROVE StepsOfOp'
  BY <1>19 DEF Crash, Fault, CutShort, Forget
<1>20. CASE UNCHANGED vars
  BY <1>20 DEF vars
<1>21. QED
  BY <1>1, <1>2, <1>3, <1>4, <1>5, <1>6, <1>7, <1>8, <1>9, <1>10, <1>11,
     <1>12, <1>13, <1>14, <1>15, <1>16, <1>17, <1>18, <1>19, <1>20 DEF Next,
     Step, Progress

LEMMA PruneAloneStep ==
    ASSUME TypeOK, StepsOfOp, PruneAlone, [Next]_vars
    PROVE  PruneAlone'
<1> USE DEF TypeOK, StepsOfOp, PruneAlone, Goto, Busy, objectVars, clientVars, historyVars
<1>1. ASSUME NEW c \in Client, StartAdd(c) PROVE PruneAlone'
  BY <1>1 DEF StartAdd, Start, NoPrune
<1>2. ASSUME NEW c \in Client, StartRead(c) PROVE PruneAlone'
  BY <1>2 DEF StartRead, Start
<1>3. ASSUME NEW c \in Client, StartPrune(c) PROVE PruneAlone'
  BY <1>3 DEF StartPrune, Start, NoPrune, NoUpload
<1>4. ASSUME NEW c \in Client, List(c) PROVE PruneAlone'
  BY <1>4 DEF List, Got
<1>5. ASSUME NEW c \in Client, Read(c) PROVE PruneAlone'
  BY <1>5 DEF Read, Got, LockIsFree
<1>6. ASSUME NEW c \in Client, Lock(c) PROVE PruneAlone'
  BY <1>6 DEF Lock, Noted, LockIsFree
<1>7. ASSUME NEW c \in Client, Fetch(c) PROVE PruneAlone'
  BY <1>7 DEF Fetch, LockIsFree
<1>8. ASSUME NEW c \in Client, WriteRefused(c) PROVE PruneAlone'
  BY <1>8 DEF WriteRefused, Retry, LockIsFree, SameVersion
<1>9. ASSUME NEW c \in Client, WriteObject(c) PROVE PruneAlone'
  BY <1>9 DEF WriteObject, Put, Succeed, Forget, SameVersion
<1>10. ASSUME NEW c \in Client, Truncate(c) PROVE PruneAlone'
  BY <1>10 DEF Truncate, LockIsFree, SameVersion
<1>11. ASSUME NEW c \in Client, Fill(c) PROVE PruneAlone'
  BY <1>11 DEF Fill
<1>12. ASSUME NEW c \in Client, Stamp(c) PROVE PruneAlone'
  BY <1>12 DEF Stamp, NextGeneration, Succeed, Forget
<1>13. ASSUME NEW c \in Client, Return(c) PROVE PruneAlone'
  BY <1>13 DEF Return, Succeed, Forget
<1>14. ASSUME NEW c \in Client, ParseError(c) PROVE PruneAlone'
  BY <1>14 DEF ParseError, Error, Forget, Retry, LockIsFree
<1>15. ASSUME NEW c \in Client, FailCall(c) PROVE PruneAlone'
  BY <1>15 DEF FailCall, Fault, Error, Forget, Retry
<1>16. ASSUME NEW c \in Client, FailAnswer(c) PROVE PruneAlone'
  BY <1>16 DEF FailAnswer, Fault, Put, Error, Forget, Retry, SameVersion
<1>17. ASSUME NEW c \in Client, FailSilently(c) PROVE PruneAlone'
  BY <1>17 DEF FailSilently, Fault, Put, Retry, SameVersion
<1>18. ASSUME NEW c \in Client, FailFile(c) PROVE PruneAlone'
  BY <1>18 DEF FailFile, Fault, CutShort, Error, Forget, Retry
<1>19. ASSUME NEW c \in Client, Crash(c) PROVE PruneAlone'
  BY <1>19 DEF Crash, Fault, CutShort, Forget
<1>20. CASE UNCHANGED vars
  BY <1>20 DEF vars
<1>21. QED
  BY <1>1, <1>2, <1>3, <1>4, <1>5, <1>6, <1>7, <1>8, <1>9, <1>10, <1>11,
     <1>12, <1>13, <1>14, <1>15, <1>16, <1>17, <1>18, <1>19, <1>20 DEF Next,
     Step, Progress

LEMMA AskedWasPromisedStep ==
    ASSUME TypeOK, AskedWasPromised, [Next]_vars
    PROVE  AskedWasPromised'
<1> USE DEF TypeOK, AskedWasPromised, Goto, Busy, objectVars, clientVars, historyVars
<1>1. ASSUME NEW c \in Client, StartAdd(c) PROVE AskedWasPromised'
  BY <1>1 DEF StartAdd, Start, NoPrune
<1>2. ASSUME NEW c \in Client, StartRead(c) PROVE AskedWasPromised'
  BY <1>2 DEF StartRead, Start
<1>3. ASSUME NEW c \in Client, StartPrune(c) PROVE AskedWasPromised'
  BY <1>3 DEF StartPrune, Start, NoPrune, NoUpload
<1>4. ASSUME NEW c \in Client, List(c) PROVE AskedWasPromised'
  BY <1>4 DEF List, Got
<1>5. ASSUME NEW c \in Client, Read(c) PROVE AskedWasPromised'
  BY <1>5 DEF Read, Got, LockIsFree
<1>6. ASSUME NEW c \in Client, Lock(c) PROVE AskedWasPromised'
  BY <1>6 DEF Lock, Noted, LockIsFree
<1>7. ASSUME NEW c \in Client, Fetch(c) PROVE AskedWasPromised'
  BY <1>7 DEF Fetch, LockIsFree
<1>8. ASSUME NEW c \in Client, WriteRefused(c) PROVE AskedWasPromised'
  BY <1>8 DEF WriteRefused, Retry, LockIsFree, SameVersion
<1>9. ASSUME NEW c \in Client, WriteObject(c) PROVE AskedWasPromised'
  BY <1>9 DEF WriteObject, Put, Succeed, Forget, SameVersion
<1>10. ASSUME NEW c \in Client, Truncate(c) PROVE AskedWasPromised'
  BY <1>10 DEF Truncate, LockIsFree, SameVersion
<1>11. ASSUME NEW c \in Client, Fill(c) PROVE AskedWasPromised'
  BY <1>11 DEF Fill
<1>12. ASSUME NEW c \in Client, Stamp(c) PROVE AskedWasPromised'
  BY <1>12 DEF Stamp, NextGeneration, Succeed, Forget
<1>13. ASSUME NEW c \in Client, Return(c) PROVE AskedWasPromised'
  BY <1>13 DEF Return, Succeed, Forget
<1>14. ASSUME NEW c \in Client, ParseError(c) PROVE AskedWasPromised'
  BY <1>14 DEF ParseError, Error, Forget, Retry, LockIsFree
<1>15. ASSUME NEW c \in Client, FailCall(c) PROVE AskedWasPromised'
  BY <1>15 DEF FailCall, Fault, Error, Forget, Retry
<1>16. ASSUME NEW c \in Client, FailAnswer(c) PROVE AskedWasPromised'
  BY <1>16 DEF FailAnswer, Fault, Put, Error, Forget, Retry, SameVersion
<1>17. ASSUME NEW c \in Client, FailSilently(c) PROVE AskedWasPromised'
  BY <1>17 DEF FailSilently, Fault, Put, Retry, SameVersion
<1>18. ASSUME NEW c \in Client, FailFile(c) PROVE AskedWasPromised'
  BY <1>18 DEF FailFile, Fault, CutShort, Error, Forget, Retry
<1>19. ASSUME NEW c \in Client, Crash(c) PROVE AskedWasPromised'
  BY <1>19 DEF Crash, Fault, CutShort, Forget
<1>20. CASE UNCHANGED vars
  BY <1>20 DEF vars
<1>21. QED
  BY <1>1, <1>2, <1>3, <1>4, <1>5, <1>6, <1>7, <1>8, <1>9, <1>10, <1>11,
     <1>12, <1>13, <1>14, <1>15, <1>16, <1>17, <1>18, <1>19, <1>20 DEF Next,
     Step, Progress

-------------------------------------------------------------------------------
(* As long as no write of a file is left unfinished, so is the rest.       *)

LEMMA UncutBefore ==
    ASSUME TypeOK, StepsOfOp, [Next]_vars, ~cut'
    PROVE  ~cut
<1>1. ASSUME NEW c \in Client, Step(c) PROVE ~cut
  BY <1>1 DEF TypeOK, Step, Progress, StartAdd, StartRead, StartPrune, Start, List,
     Read, Lock, Fetch, WriteRefused, WriteObject, Truncate, Fill, Stamp, Return,
     ParseError, FailCall, FailAnswer, FailSilently, FailFile, CutShort, Crash,
     historyVars
<1>2. QED
  BY <1>1 DEF Next, vars, historyVars

LEMMA ShapedStep ==
    ASSUME TypeOK, StepsOfOp, ~cut', Shaped, Counted, [Next]_vars
    PROVE  Shaped'
<1> USE DEF TypeOK, StepsOfOp, InFile, Goto, Busy, objectVars, clientVars, historyVars, Shaped, Counted
<1>1. ASSUME NEW c \in Client, StartAdd(c) PROVE Shaped'
  BY <1>1 DEF StartAdd, Start, NoPrune
<1>2. ASSUME NEW c \in Client, StartRead(c) PROVE Shaped'
  BY <1>2 DEF StartRead, Start
<1>3. ASSUME NEW c \in Client, StartPrune(c) PROVE Shaped'
  BY <1>3 DEF StartPrune, Start, NoPrune, NoUpload
<1>4. ASSUME NEW c \in Client, List(c) PROVE Shaped'
  BY <1>4 DEF List, Got
<1>5. ASSUME NEW c \in Client, Read(c) PROVE Shaped'
  BY <1>5 DEF Read, Got, LockIsFree
<1>6. ASSUME NEW c \in Client, Lock(c) PROVE Shaped'
  BY <1>6 DEF Lock, Noted, LockIsFree
<1>7. ASSUME NEW c \in Client, Fetch(c) PROVE Shaped'
  BY <1>7 DEF Fetch, LockIsFree
<1>8. ASSUME NEW c \in Client, WriteRefused(c) PROVE Shaped'
  BY <1>8 DEF WriteRefused, Retry, LockIsFree, SameVersion
<1>9. ASSUME NEW c \in Client, WriteObject(c) PROVE Shaped'
  BY <1>9 DEF WriteObject, Put, Succeed, Forget, SameVersion
<1>10. ASSUME NEW c \in Client, Truncate(c) PROVE Shaped'
  BY <1>10 DEF Truncate, LockIsFree, SameVersion
<1>11. ASSUME NEW c \in Client, Fill(c) PROVE Shaped'
  BY <1>11 DEF Fill
<1>12. ASSUME NEW c \in Client, Stamp(c) PROVE Shaped'
  BY <1>12 DEF Stamp, NextGeneration, Succeed, Forget
<1>13. ASSUME NEW c \in Client, Return(c) PROVE Shaped'
  BY <1>13 DEF Return, Succeed, Forget
<1>14. ASSUME NEW c \in Client, ParseError(c) PROVE Shaped'
  BY <1>14 DEF ParseError, Error, Forget, Retry, LockIsFree
<1>15. ASSUME NEW c \in Client, FailCall(c) PROVE Shaped'
  BY <1>15 DEF FailCall, Fault, Error, Forget, Retry
<1>16. ASSUME NEW c \in Client, FailAnswer(c) PROVE Shaped'
  BY <1>16 DEF FailAnswer, Fault, Put, Error, Forget, Retry, SameVersion
<1>17. ASSUME NEW c \in Client, FailSilently(c) PROVE Shaped'
  BY <1>17 DEF FailSilently, Fault, Put, Retry, SameVersion
<1>18. ASSUME NEW c \in Client, FailFile(c) PROVE Shaped'
  BY <1>18 DEF FailFile, Fault, CutShort, Error, Forget, Retry
<1>19. ASSUME NEW c \in Client, Crash(c) PROVE Shaped'
  BY <1>19 DEF Crash, Fault, CutShort, Forget
<1>20. CASE UNCHANGED vars
  BY <1>20 DEF vars
<1>21. QED
  BY <1>1, <1>2, <1>3, <1>4, <1>5, <1>6, <1>7, <1>8, <1>9, <1>10, <1>11,
     <1>12, <1>13, <1>14, <1>15, <1>16, <1>17, <1>18, <1>19, <1>20 DEF Next,
     Step, Progress

LEMMA CountedStep ==
    ASSUME TypeOK, StepsOfOp, ~cut', Shaped, Counted, [Next]_vars
    PROVE  Counted'
<1> USE DEF TypeOK, StepsOfOp, InFile, Goto, Busy, objectVars, clientVars, historyVars, Shaped, Counted
<1>1. ASSUME NEW c \in Client, StartAdd(c) PROVE Counted'
  BY <1>1 DEF StartAdd, Start, NoPrune
<1>2. ASSUME NEW c \in Client, StartRead(c) PROVE Counted'
  BY <1>2 DEF StartRead, Start
<1>3. ASSUME NEW c \in Client, StartPrune(c) PROVE Counted'
  BY <1>3 DEF StartPrune, Start, NoPrune, NoUpload
<1>4. ASSUME NEW c \in Client, List(c) PROVE Counted'
  BY <1>4 DEF List, Got
<1>5. ASSUME NEW c \in Client, Read(c) PROVE Counted'
  BY <1>5 DEF Read, Got, LockIsFree
<1>6. ASSUME NEW c \in Client, Lock(c) PROVE Counted'
  BY <1>6 DEF Lock, Noted, LockIsFree
<1>7. ASSUME NEW c \in Client, Fetch(c) PROVE Counted'
  BY <1>7 DEF Fetch, LockIsFree
<1>8. ASSUME NEW c \in Client, WriteRefused(c) PROVE Counted'
  BY <1>8 DEF WriteRefused, Retry, LockIsFree, SameVersion
<1>9. ASSUME NEW c \in Client, WriteObject(c) PROVE Counted'
  BY <1>9 DEF WriteObject, Put, Succeed, Forget, SameVersion
<1>10. ASSUME NEW c \in Client, Truncate(c) PROVE Counted'
  BY <1>10 DEF Truncate, LockIsFree, SameVersion
<1>11. ASSUME NEW c \in Client, Fill(c) PROVE Counted'
  BY <1>11 DEF Fill
<1>12. ASSUME NEW c \in Client, Stamp(c) PROVE Counted'
  BY <1>12 DEF Stamp, NextGeneration, Succeed, Forget
<1>13. ASSUME NEW c \in Client, Return(c) PROVE Counted'
  BY <1>13 DEF Return, Succeed, Forget
<1>14. ASSUME NEW c \in Client, ParseError(c) PROVE Counted'
  BY <1>14 DEF ParseError, Error, Forget, Retry, LockIsFree
<1>15. ASSUME NEW c \in Client, FailCall(c) PROVE Counted'
  BY <1>15 DEF FailCall, Fault, Error, Forget, Retry
<1>16. ASSUME NEW c \in Client, FailAnswer(c) PROVE Counted'
  BY <1>16 DEF FailAnswer, Fault, Put, Error, Forget, Retry, SameVersion
<1>17. ASSUME NEW c \in Client, FailSilently(c) PROVE Counted'
  BY <1>17 DEF FailSilently, Fault, Put, Retry, SameVersion
<1>18. ASSUME NEW c \in Client, FailFile(c) PROVE Counted'
  BY <1>18 DEF FailFile, Fault, CutShort, Error, Forget, Retry
<1>19. ASSUME NEW c \in Client, Crash(c) PROVE Counted'
  <2>1. c \notin holder
    BY <1>19 DEF Crash, CutShort
  <2>2. holder' = holder /\ UNCHANGED <<generation, writes>>
    BY <1>19, <2>1 DEF Crash, Forget
  <2>3. /\ pc' = [pc EXCEPT ![c] = "idle"]
        /\ version' = [version EXCEPT ![c] = 0] /\ seen' = [seen EXCEPT ![c] = 0]
    BY <1>19 DEF Crash, Forget
  <2>4. QED
    BY <2>1, <2>2, <2>3
<1>20. CASE UNCHANGED vars
  BY <1>20 DEF vars
<1>21. QED
  BY <1>1, <1>2, <1>3, <1>4, <1>5, <1>6, <1>7, <1>8, <1>9, <1>10, <1>11,
     <1>12, <1>13, <1>14, <1>15, <1>16, <1>17, <1>18, <1>19, <1>20 DEF Next,
     Step, Progress

LEMMA NoBlocks == EmptyIndex.blocks = {}
BY DEF EmptyIndex

LEMMA PromisedStep ==
    ASSUME TypeOK, StepsOfOp, ~cut', PruneAlone, Shaped, Counted, Promised, Found, [Next]_vars
    PROVE  Promised'
<1> USE DEF TypeOK, StepsOfOp, InFile, Goto, Busy, objectVars, clientVars, historyVars, PruneAlone, Shaped, Counted, Promised, Found
<1>1. ASSUME NEW c \in Client, StartAdd(c) PROVE Promised'
  BY <1>1 DEF StartAdd, Start, NoPrune
<1>2. ASSUME NEW c \in Client, StartRead(c) PROVE Promised'
  BY <1>2 DEF StartRead, Start
<1>3. ASSUME NEW c \in Client, StartPrune(c) PROVE Promised'
  BY <1>3 DEF StartPrune, Start, NoPrune, NoUpload
<1>4. ASSUME NEW c \in Client, List(c) PROVE Promised'
  BY <1>4 DEF List, Got
<1>5. ASSUME NEW c \in Client, Read(c) PROVE Promised'
  BY <1>5 DEF Read, Got, LockIsFree
<1>6. ASSUME NEW c \in Client, Lock(c) PROVE Promised'
  BY <1>6, NoBlocks DEF Lock, Noted, LockIsFree
<1>7. ASSUME NEW c \in Client, Fetch(c) PROVE Promised'
  BY <1>7, MergeType DEF Fetch, LockIsFree
<1>8. ASSUME NEW c \in Client, WriteRefused(c) PROVE Promised'
  BY <1>8 DEF WriteRefused, Retry, LockIsFree, SameVersion
<1>9. ASSUME NEW c \in Client, WriteObject(c) PROVE Promised'
  BY <1>9 DEF WriteObject, Put, Succeed, Forget, SameVersion
<1>10. ASSUME NEW c \in Client, Truncate(c) PROVE Promised'
  BY <1>10 DEF Truncate, LockIsFree, SameVersion
<1>11. ASSUME NEW c \in Client, Fill(c) PROVE Promised'
  BY <1>11 DEF Fill
<1>12. ASSUME NEW c \in Client, Stamp(c) PROVE Promised'
  BY <1>12 DEF Stamp, NextGeneration, Succeed, Forget
<1>13. ASSUME NEW c \in Client, Return(c) PROVE Promised'
  BY <1>13 DEF Return, Succeed, Forget
<1>14. ASSUME NEW c \in Client, ParseError(c) PROVE Promised'
  BY <1>14 DEF ParseError, Error, Forget, Retry, LockIsFree
<1>15. ASSUME NEW c \in Client, FailCall(c) PROVE Promised'
  BY <1>15 DEF FailCall, Fault, Error, Forget, Retry
<1>16. ASSUME NEW c \in Client, FailAnswer(c) PROVE Promised'
  BY <1>16 DEF FailAnswer, Fault, Put, Error, Forget, Retry, SameVersion
<1>17. ASSUME NEW c \in Client, FailSilently(c) PROVE Promised'
  BY <1>17 DEF FailSilently, Fault, Put, Retry, SameVersion
<1>18. ASSUME NEW c \in Client, FailFile(c) PROVE Promised'
  BY <1>18 DEF FailFile, Fault, CutShort, Error, Forget, Retry
<1>19. ASSUME NEW c \in Client, Crash(c) PROVE Promised'
  BY <1>19 DEF Crash, Fault, CutShort, Forget
<1>20. CASE UNCHANGED vars
  BY <1>20 DEF vars
<1>21. QED
  BY <1>1, <1>2, <1>3, <1>4, <1>5, <1>6, <1>7, <1>8, <1>9, <1>10, <1>11,
     <1>12, <1>13, <1>14, <1>15, <1>16, <1>17, <1>18, <1>19, <1>20 DEF Next,
     Step, Progress

LEMMA FoundStep ==
    ASSUME TypeOK, StepsOfOp, ~cut', PruneAlone, AskedWasPromised, Shaped, Counted, Promised, Found, [Next]_vars
    PROVE  Found'
<1> USE DEF TypeOK, StepsOfOp, InFile, Goto, Busy, objectVars, clientVars, historyVars, PruneAlone, AskedWasPromised, Shaped, Counted, Promised, Found
<1>1. ASSUME NEW c \in Client, StartAdd(c) PROVE Found'
  BY <1>1 DEF StartAdd, Start, NoPrune
<1>2. ASSUME NEW c \in Client, StartRead(c) PROVE Found'
  BY <1>2 DEF StartRead, Start
<1>3. ASSUME NEW c \in Client, StartPrune(c) PROVE Found'
  BY <1>3 DEF StartPrune, Start, NoPrune, NoUpload
<1>4. ASSUME NEW c \in Client, List(c) PROVE Found'
  BY <1>4, NoBlocks, EmptyIndexType, PruneToType DEF List, Got
<1>5. ASSUME NEW c \in Client, Read(c) PROVE Found'
  BY <1>5, PruneToType DEF Read, Got, LockIsFree
<1>6. ASSUME NEW c \in Client, Lock(c) PROVE Found'
  BY <1>6 DEF Lock, Noted, LockIsFree
<1>7. ASSUME NEW c \in Client, Fetch(c) PROVE Found'
  BY <1>7 DEF Fetch, LockIsFree
<1>8. ASSUME NEW c \in Client, WriteRefused(c) PROVE Found'
  BY <1>8 DEF WriteRefused, Retry, LockIsFree, SameVersion
<1>9. ASSUME NEW c \in Client, WriteObject(c) PROVE Found'
  BY <1>9 DEF WriteObject, Put, Succeed, Forget, SameVersion
<1>10. ASSUME NEW c \in Client, Truncate(c) PROVE Found'
  BY <1>10 DEF Truncate, LockIsFree, SameVersion
<1>11. ASSUME NEW c \in Client, Fill(c) PROVE Found'
  BY <1>11 DEF Fill
<1>12. ASSUME NEW c \in Client, Stamp(c) PROVE Found'
  BY <1>12 DEF Stamp, NextGeneration, Succeed, Forget
<1>13. ASSUME NEW c \in Client, Return(c) PROVE Found'
  BY <1>13 DEF Return, Succeed, Forget
<1>14. ASSUME NEW c \in Client, ParseError(c) PROVE Found'
  BY <1>14 DEF ParseError, Error, Forget, Retry, LockIsFree
<1>15. ASSUME NEW c \in Client, FailCall(c) PROVE Found'
  BY <1>15 DEF FailCall, Fault, Error, Forget, Retry
<1>16. ASSUME NEW c \in Client, FailAnswer(c) PROVE Found'
  BY <1>16 DEF FailAnswer, Fault, Put, Error, Forget, Retry, SameVersion
<1>17. ASSUME NEW c \in Client, FailSilently(c) PROVE Found'
  BY <1>17 DEF FailSilently, Fault, Put, Retry, SameVersion
<1>18. ASSUME NEW c \in Client, FailFile(c) PROVE Found'
  BY <1>18 DEF FailFile, Fault, CutShort, Error, Forget, Retry
<1>19. ASSUME NEW c \in Client, Crash(c) PROVE Found'
  BY <1>19 DEF Crash, Fault, CutShort, Forget
<1>20. CASE UNCHANGED vars
  BY <1>20 DEF vars
<1>21. QED
  BY <1>1, <1>2, <1>3, <1>4, <1>5, <1>6, <1>7, <1>8, <1>9, <1>10, <1>11,
     <1>12, <1>13, <1>14, <1>15, <1>16, <1>17, <1>18, <1>19, <1>20 DEF Next,
     Step, Progress

-------------------------------------------------------------------------------
(* The inductive invariant is one.                                         *)

LEMMA IInvInit == Init => IInv
<1> SUFFICES ASSUME Init PROVE IInv
  OBVIOUS
<1>1. TypeOK
  <2>1. holder = {c \in Client : pc[c] \in {"fill", "stamp"}}
    BY DEF Init
  <2>2. store \in {"object", "file"}
    BY LockedAssumption DEF Init
  <2>3. /\ errors \in [Client -> 0 .. MaxErrors - 1]
        /\ pc \in [Client -> Phase]
        /\ \A c, d \in holder : c = d
    BY DEF Init, Phase, MaxErrors
  <2>4. /\ op \in [Client -> {"none", "add", "prune", "read"}]
        /\ added \in [Client -> Index] /\ merged \in [Client -> Index]
        /\ content \in Index
    BY EmptyIndexType DEF Init
  <2>5. QED
    BY <2>1, <2>2, <2>3, <2>4 DEF Init, TypeOK
<1>2. StepsOfOp /\ PruneAlone /\ AskedWasPromised
  BY DEF Init, StepsOfOp, PruneAlone, AskedWasPromised, InFile
<1>3. Shaped /\ Counted /\ Promised /\ Found
  BY NoBlocks DEF Init, Shaped, Counted, Promised, Found, InFile
<1>4. QED
  BY <1>1, <1>2, <1>3 DEF IInv, Structure, Uncut

LEMMA StructureStep == Structure /\ [Next]_vars => Structure'
BY TypeOKStep, StepsOfOpStep, PruneAloneStep, AskedWasPromisedStep DEF Structure

LEMMA IInvStep == IInv /\ [Next]_vars => IInv'
<1> SUFFICES ASSUME IInv, [Next]_vars PROVE IInv'
  OBVIOUS
<1>1. Structure'
  BY StructureStep DEF IInv
<1>2. ASSUME ~cut' PROVE Uncut'
  <2>1. ~cut
    BY <1>2, UncutBefore DEF IInv, Structure
  <2>2. QED
    BY <1>2, <2>1, ShapedStep, CountedStep, PromisedStep, FoundStep
       DEF IInv, Structure, Uncut
<1>3. QED
  BY <1>1, <1>2 DEF IInv

(* The inductive invariant holds in every reachable state; the theorems    *)
(* below are what it means.                                                *)
THEOREM Invariance == Spec => []IInv
BY IInvInit, IInvStep, PTL DEF Spec

-------------------------------------------------------------------------------
(* What it means for the users of a store                                  *)

(* Every variable keeps its type, and at most one client is in the middle  *)
(* of writing a file, under its lock.                                      *)
THEOREM TypeCorrect == Spec => []TypeOK
<1>1. IInv => TypeOK
  BY DEF IInv, Structure
<1>2. QED
  BY <1>1, Invariance, PTL

(* No add is lost to another, in an object store whatever fails, in a file *)
(* store as long as no write was left unfinished.                          *)
THEOREM PromisedBlocksAreIndexed == Spec => []NoLostBlocks
<1>1. IInv => NoLostBlocks
  <2> SUFFICES ASSUME IInv, holder = {}, ~cut PROVE promised \subseteq Indexed
    BY DEF NoLostBlocks, Settled
  <2>1. TypeOK /\ Uncut
    BY DEF IInv, Structure
  <2>2. \A c \in Client : pc[c] # "fill"
    BY <2>1 DEF TypeOK
  <2>3. shape \in {"absent", "whole"}
    BY <2>1, <2>2 DEF Uncut, Shaped, TypeOK
  <2>4. QED
    BY <2>1, <2>3, NoBlocks DEF Uncut, Shaped, Promised, Indexed
<1>2. QED
  BY <1>1, Invariance, PTL

(* A reader gets all that was promised when it started, or finds a file    *)
(* that is being written and gets nothing.                                 *)
THEOREM ReadersGetPromised == Spec => []ReadersGetAllOrNothing
<1>1. IInv => ReadersGetAllOrNothing
  BY DEF IInv, Uncut, Found, ReadersGetAllOrNothing
<1>2. QED
  BY <1>1, Invariance, PTL

(* The version lock does what blobStore.go says of it: a write succeeds    *)
(* only if the object is as it was when its generation was noted.  In a    *)
(* file store that ends with the first unfinished write.                   *)
THEOREM VersionLockWorks == Spec => LockedWriteFailsIfChangedUncut
<1>1. IInv /\ [Next]_vars =>
        [\A c \in Client : Overwrites(c) /\ ~cut => seen[c] = writes]_vars
  <2> SUFFICES ASSUME IInv, ~cut, NEW c \in Client, Overwrites(c),
                      NEW d \in Client, Step(d)
               PROVE  seen[c] = writes
    BY DEF Next
  <2>1. TypeOK /\ Counted
    BY DEF IInv, Structure, Uncut
  <2>2. d = c
    BY <2>1 DEF Overwrites, TypeOK, Step, Progress, StartAdd, StartRead, StartPrune,
       Start, Goto, List, Read, Got, Lock, Fetch, WriteRefused, WriteObject,
       Truncate, Fill, Stamp, Return, Succeed, ParseError, FailCall, FailAnswer,
       FailSilently, FailFile, Crash, Error, Forget, Retry
  <2>3. SameVersion(c) /\ holder = {}
    <3>1. \/ store = "object" /\ SameVersion(c)
          \/ LockIsFree /\ SameVersion(c)
      BY <2>1, <2>2 DEF Overwrites, TypeOK, Step, Progress, StartAdd, StartRead,
         StartPrune, Start, Goto, List, Read, Got, Lock, Fetch, WriteRefused,
         WriteObject, Truncate, Fill, Stamp, Return, Succeed, ParseError, FailCall,
         FailAnswer, FailSilently, FailFile, Crash, Error, Forget, Retry, historyVars
    <3>2. store = "object" => holder = {}
      BY DEF IInv, Structure, StepsOfOp, InFile, TypeOK
    <3>3. QED
      BY <3>1, <3>2 DEF LockIsFree
  <2>4. QED
    BY <2>1, <2>3 DEF Overwrites, Counted, SameVersion
<1>2. QED
  BY <1>1, Invariance, PTL DEF Spec, LockedWriteFailsIfChangedUncut

-------------------------------------------------------------------------------
(* Refinement: the locked store index implements IndexPromise until a      *)
(* write of a file is left unfinished.  Its steps are steps of the promise *)
(* or change nothing the promise speaks of.                                *)

(* A prune writes what store.lsi holds and it keeps.                       *)
PruneSees ==
    \A p \in Client : op[p] = "prune" /\ pc[p] \in {"lock", "write", "fill"} =>
        /\ content.blocks \cap keep[p] \subseteq merged[p].blocks
        /\ merged[p].blocks \subseteq content.blocks

(* Only a writer changes the index, into what it merged; the files of a    *)
(* client that fails in between are not the promise's concern any more.    *)
LEMMA ContentStep ==
    ASSUME TypeOK, NEW c \in Client, Step(c)
    PROVE  \/ content' = content
           \/ /\ content' = merged[c]
              /\ pc[c] = "fill" \/ (pc[c] = "write" /\ store = "object" /\ SameVersion(c))
BY DEF TypeOK, Step, Progress, StartAdd, StartRead, StartPrune, Start, List, Read,
       Lock, Fetch, WriteRefused, WriteObject, Put, Truncate, Fill, Stamp, Return,
       ParseError, FailCall, FailAnswer, FailSilently, FailFile, Crash, objectVars

LEMMA PromisedStepOf ==
    ASSUME Structure, NEW c \in Client, Step(c), ~StartPrune(c)
    PROVE  \/ promised' = promised
           \/ op[c] = "add" /\ promised' = promised \cup added[c].blocks
BY DEF Structure, StepsOfOp, Step, Progress, StartAdd, StartRead, Start, List, Read,
   Lock, Fetch, WriteRefused, WriteObject, Truncate, Fill, Stamp, Return, Succeed,
   Busy, ParseError, FailCall, FailAnswer, FailSilently, FailFile, Crash, historyVars

(* Another client's operation stays what it is.                            *)
LEMMA OthersStay ==
    ASSUME TypeOK, NEW c \in Client, Step(c), NEW d \in Client \ {c}
    PROVE  op'[d] = op[d] /\ pc'[d] = pc[d] /\ keep'[d] = keep[d] /\ merged'[d] = merged[d]
BY DEF TypeOK, Step, Progress, StartAdd, StartRead, StartPrune, Start, Goto, List,
       Read, Got, Lock, Fetch, WriteRefused, WriteObject, Truncate, Fill, Stamp,
       Return, Succeed, ParseError, FailCall, FailAnswer, FailSilently, FailFile,
       Crash, Error, Forget, Retry, clientVars

(* A client keeps its operation until it is idle again.                    *)
LEMMA OperationStays ==
    ASSUME TypeOK, StepsOfOp, NEW c \in Client, Step(c), op[c] # "none"
    PROVE  \/ op'[c] = op[c] /\ keep'[c] = keep[c]
           \/ op'[c] = "none"
BY DEF TypeOK, StepsOfOp, Step, Progress, StartAdd, StartRead, StartPrune, Start,
       List, Read, Lock, Fetch, WriteRefused, WriteObject, Truncate, Fill, Stamp,
       Return, Succeed, ParseError, FailCall, FailAnswer, FailSilently, FailFile,
       Crash, Error, Forget, Retry, clientVars

LEMMA ReadersWriteNothing ==
    ASSUME Structure, NEW c \in Client, Step(c), op[c] \in {"none", "read"}
    PROVE  content' = content
BY ContentStep DEF Structure, StepsOfOp

-------------------------------------------------------------------------------
LEMMA PruneSeesOwnStep ==
    ASSUME Structure, Uncut, PruneSees, NEW c \in Client, Step(c), ~cut',
           op'[c] = "prune", pc'[c] \in {"lock", "write", "fill"}
    PROVE  /\ content'.blocks \cap keep'[c] \subseteq merged'[c].blocks
           /\ merged'[c].blocks \subseteq content'.blocks
<1>1. TypeOK /\ StepsOfOp
  BY DEF Structure
<1>2. content \in Index /\ keep[c] \in SUBSET Block
  BY <1>1 DEF TypeOK
<1>3. op[c] = "prune" /\ keep'[c] = keep[c] /\ ~StartPrune(c)
  BY <1>1, OperationStays DEF TypeOK, StepsOfOp, Step, Progress, StartAdd, StartRead,
     StartPrune, Start, Goto, List, Read, Lock, Fetch, WriteRefused, WriteObject,
     Truncate, Fill, Stamp, Return, Succeed, ParseError, FailCall, FailAnswer,
     FailSilently, FailFile, Crash, Error, Forget, Retry
<1>4. CASE List(c)
  <2>1. shape = "absent"
    <3>1. \A d \in Client : pc[d] # "fill"
      <4>1. pc[c] = "list"
        BY <1>4 DEF List
      <4>2. \A d \in Client \ {c} : op[d] \notin {"add", "prune"}
        BY <1>3 DEF Structure, PruneAlone
      <4>3. \A d \in Client \ {c} : op[d] \in {"none", "read"}
        BY <1>1, <4>2 DEF TypeOK
      <4>4. QED
        BY <1>1, <4>1, <4>3 DEF StepsOfOp
    <3>2. pc'[c] # "read"
      BY <1>4
    <3>3. QED
      BY <1>1, <1>4, <3>1, <3>2 DEF List, Goto, Uncut, Shaped, TypeOK
  <2>2. content.blocks = {}
    BY <2>1, NoBlocks DEF Uncut, Shaped
  <2>3. merged'[c] = PruneTo(EmptyIndex, keep[c]) /\ content' = content
    BY <1>1, <1>3, <1>4, <2>1 DEF List, Got, Busy, TypeOK, objectVars
  <2>4. QED
    BY <1>2, <2>2, <2>3, NoBlocks, EmptyIndexType, PruneToType
<1>5. CASE Read(c)
  <2>1. merged'[c] = PruneTo(content, keep[c]) /\ content' = content
    BY <1>1, <1>3, <1>5 DEF Read, Got, Goto, Busy, TypeOK, objectVars
  <2>2. QED
    BY <1>2, <1>3, <2>1, PruneToType
<1>6. CASE ~List(c) /\ ~Read(c)
  <2>1. /\ pc[c] \in {"lock", "write", "fill"} /\ merged'[c] = merged[c]
        /\ content' = content \/ content' = merged[c]
    <3>1. pc[c] # "stamp"
      BY <1>1, <1>3, <1>6 DEF TypeOK, Goto, Busy, Step, Progress,
         StartAdd, StartRead, Start, Lock, Fetch, WriteRefused, WriteObject,
         Truncate, Fill, Stamp, Return, Succeed, ParseError, FailCall, FailAnswer,
         FailSilently, FailFile, CutShort, Crash, Error, Forget, Retry
    <3>2. pc[c] \in {"lock", "write", "fill"} /\ merged'[c] = merged[c]
      BY <1>1, <1>3, <1>6, <3>1 DEF TypeOK, StepsOfOp, Goto, Busy, Step, Progress,
         StartAdd, StartRead, Start, Lock, Fetch, WriteRefused, WriteObject,
         Truncate, Fill, Stamp, Return, Succeed, ParseError, FailCall, FailAnswer,
         FailSilently, FailFile, Crash, Error, Forget, Retry, clientVars
    <3>3. QED
      BY <1>1, <3>2, ContentStep
  <2>2. QED
    BY <1>3, <2>1 DEF PruneSees
<1>7. QED
  BY <1>4, <1>5, <1>6

LEMMA PruneSeesStep ==
    ASSUME Structure, Structure', Uncut, PruneSees, NEW c \in Client, Step(c), ~cut'
    PROVE  PruneSees'
<1> SUFFICES ASSUME NEW p \in Client, op'[p] = "prune",
                    pc'[p] \in {"lock", "write", "fill"}
             PROVE  /\ content'.blocks \cap keep'[p] \subseteq merged'[p].blocks
                    /\ merged'[p].blocks \subseteq content'.blocks
  BY DEF PruneSees
<1>1. CASE p = c
  BY <1>1, PruneSeesOwnStep
<1>2. CASE p # c
  <2>1. /\ op'[p] = op[p] /\ pc'[p] = pc[p]
        /\ keep'[p] = keep[p] /\ merged'[p] = merged[p]
    BY <1>2, OthersStay DEF Structure
  <2>2. op[c] \in {"none", "read"}
    BY <1>2, <2>1 DEF Structure, PruneAlone, TypeOK
  <2>3. content' = content
    BY <2>2, ReadersWriteNothing
  <2>4. QED
    BY <2>1, <2>3 DEF PruneSees
<1>3. QED
  BY <1>1, <1>2

(* While a prune runs, no client changes the index but the prune itself.   *)
THEOREM PruneSeesContent == Spec => [](~cut => PruneSees)
<1>1. Init => PruneSees
  BY DEF Init, PruneSees
<1>2. ASSUME IInv, IInv', ~cut => PruneSees, ~cut', [Next]_vars PROVE PruneSees'
  <2>1. ~cut
    BY <1>2, UncutBefore DEF IInv, Structure
  <2>2. CASE UNCHANGED vars
    BY <1>2, <2>1, <2>2 DEF vars, objectVars, clientVars, PruneSees
  <2>3. QED
    BY <1>2, <2>1, <2>2, PruneSeesStep DEF IInv, Next
<1>3. IInv /\ IInv' /\ (~cut => PruneSees) /\ [Next]_vars => (~cut => PruneSees)'
  BY <1>2
<1>4. QED
  BY <1>1, <1>3, Invariance, PTL DEF Spec

-------------------------------------------------------------------------------
(* The steps of the promise                                                *)

(* A write of an add keeps what was there.                                 *)
LEMMA AddKeeps ==
    ASSUME Structure, Uncut, NEW c \in Client, Step(c), op[c] = "add"
    PROVE  content.blocks \subseteq content'.blocks
<1>1. CASE pc[c] = "fill"
  BY <1>1, ContentStep DEF Structure, Uncut, Promised, InFile
<1>2. CASE pc[c] = "write" /\ store = "object" /\ SameVersion(c)
  <2>1. holder = {}
    BY <1>2 DEF Structure, StepsOfOp, InFile, TypeOK
  <2>2. seen[c] = writes
    BY <1>2, <2>1 DEF Uncut, Counted, SameVersion
  <2>3. QED
    BY <1>2, <2>2, ContentStep DEF Structure, Uncut, Promised
<1>3. QED
  BY <1>1, <1>2, ContentStep DEF Structure

(* What may go is what the prune under way does not keep.                  *)
LEMMA KeptByPrune ==
    ASSUME PruneAlone, NEW c \in Client, op[c] = "prune"
    PROVE  Kept = keep[c]
<1>1. {p \in Client : op[p] = "prune"} = {c}
  BY DEF PruneAlone
<1>2. ~NoPrune
  BY DEF NoPrune, Busy
<1>3. QED
  BY <1>1, <1>2 DEF Kept, Busy

LEMMA InitPromises == Init => Promise!Init
BY NoBlocks DEF Init, Promise!Init, Kept, NoPrune, Busy

(* A prune's own steps take out what it does not keep.                     *)
LEMMA PruneStepPromises ==
    ASSUME Structure, Structure', PruneSees,
           NEW c \in Client, Step(c), op[c] = "prune"
    PROVE  [Promise!Next]_(Promise!vars)
<1>1. ~StartPrune(c) /\ promised' = promised
  BY PromisedStepOf DEF StartPrune, NoPrune, Busy
<1>2. Kept = keep[c]
  BY KeptByPrune DEF Structure
<1>3. Kept' \in {Kept, Block}
  <2>1. CASE op'[c] = "prune"
    <3>1. keep'[c] = keep[c]
      BY <2>1, OperationStays DEF Structure
    <3>2. {p \in Client : op'[p] = "prune"} = {c}
      BY <2>1 DEF Structure, PruneAlone
    <3>3. ~NoPrune'
      BY <2>1 DEF NoPrune, Busy
    <3>4. {keep'[p] : p \in {c}} = {keep'[c]}
      OBVIOUS
    <3>5. QED
      BY <1>2, <3>1, <3>2, <3>3, <3>4 DEF Kept, Busy
  <2>2. CASE op'[c] # "prune"
    <3>1. \A d \in Client \ {c} : op[d] # "prune" /\ op'[d] = op[d]
      BY OthersStay DEF Structure, PruneAlone
    <3>2. NoPrune'
      BY <2>2, <3>1 DEF NoPrune, Busy
    <3>3. QED
      BY <3>2 DEF Kept
  <2>3. QED
    BY <2>1, <2>2
<1>4. /\ content'.blocks \subseteq content.blocks
      /\ content.blocks \cap Kept \subseteq content'.blocks
  BY <1>2, ContentStep DEF PruneSees, Structure
<1>5. DEFINE gone == content.blocks \ content'.blocks
<1>6. gone \in SUBSET (content.blocks \ Kept) /\ content'.blocks = content.blocks \ gone
  BY <1>4
<1>7. Promise!Unpublish
  BY <1>1, <1>3, <1>6 DEF Promise!Unpublish
<1>8. QED
  BY <1>7 DEF Promise!Next

(* An add never takes anything out, and promises what is indexed.          *)
LEMMA AddStepPromises ==
    ASSUME Structure, Structure', Uncut, Uncut',
           NEW c \in Client, Step(c), op[c] = "add"
    PROVE  [Promise!Next]_(Promise!vars)
<1>1. NoPrune /\ NoPrune'
  <2>1. \A d \in Client : op[d] # "prune"
    BY DEF Structure, PruneAlone
  <2>2. \A d \in Client : op'[d] # "prune"
    BY <2>1, OthersStay, OperationStays DEF Structure
  <2>3. QED
    BY <2>1, <2>2 DEF NoPrune, Busy
<1>2. Kept' = Kept /\ ~StartPrune(c)
  BY <1>1 DEF Kept, StartPrune, NoUpload, Busy
<1>3. /\ content'.blocks \in SUBSET Block
      /\ content'.blocks = content.blocks \cup content'.blocks
  BY AddKeeps DEF Structure, TypeOK, Index
<1>4. CASE promised' = promised
  <2>1. Promise!Publish
    BY <1>2, <1>3, <1>4 DEF Promise!Publish
  <2>2. QED
    BY <2>1 DEF Promise!Next
<1>5. CASE promised' = promised \cup added[c].blocks
  <2>1. added[c].blocks \in SUBSET content'.blocks
    BY <1>5 DEF Uncut, Promised
  <2>2. Promise!Acknowledge
    BY <1>2, <1>3, <1>5, <2>1 DEF Promise!Acknowledge
  <2>3. QED
    BY <2>2 DEF Promise!Next
<1>6. QED
  BY <1>2, <1>4, <1>5, PromisedStepOf

(* A reader, and a client that starts, leave the index as it is.           *)
LEMMA ReadStepPromises ==
    ASSUME Structure, Structure',
           NEW c \in Client, Step(c), op[c] \in {"none", "read"}
    PROVE  [Promise!Next]_(Promise!vars)
<1>1. content' = content
  BY ReadersWriteNothing
<1>2. CASE StartPrune(c)
  <2>1. PICK blocks \in KeptBlocks : /\ keep' = [keep EXCEPT ![c] = blocks]
                                     /\ promised' = promised \cap blocks
    BY <1>2 DEF StartPrune
  <2>2. op'[c] = "prune" /\ keep'[c] = blocks
    BY <1>2, <2>1 DEF StartPrune, Structure, TypeOK
  <2>3. Kept = Block
    BY <1>2 DEF StartPrune, Kept
  <2>4. Kept' = blocks
    <3>1. {d \in Client : op'[d] = "prune"} = {c}
      BY <2>2 DEF Structure, PruneAlone
    <3>2. ~NoPrune'
      BY <2>2 DEF NoPrune, Busy
    <3>3. {keep'[d] : d \in {c}} = {keep'[c]}
      OBVIOUS
    <3>4. QED
      BY <2>2, <3>1, <3>2, <3>3 DEF Kept, Busy
  <2>5. blocks \in SUBSET Block
    BY LockedAssumption
  <2>6. Promise!Withdraw
    BY <1>1, <2>1, <2>3, <2>4, <2>5 DEF Promise!Withdraw
  <2>7. QED
    BY <2>6 DEF Promise!Next
<1>3. CASE ~StartPrune(c)
  <2>1. promised' = promised
    BY <1>3, PromisedStepOf
  <2>2. op[c] # "prune" /\ op'[c] # "prune"
    BY <1>3 DEF Structure, TypeOK, StepsOfOp, Busy, Goto, clientVars, objectVars, Step, Progress, StartAdd, StartRead,
       Start, List, Read, Lock, Fetch, WriteRefused, WriteObject, Truncate, Fill,
       Stamp, Return, Succeed, ParseError, FailCall, FailAnswer, FailSilently,
       FailFile, Crash, Error, Forget, Retry
  <2>3. \A d \in Client : (op'[d] = "prune") = (op[d] = "prune")
    BY <2>2, OthersStay DEF Structure
  <2>4. \A d \in Client : op[d] = "prune" => keep'[d] = keep[d]
    BY <2>2, OthersStay DEF Structure
  <2>5. Kept' = Kept
    <3>1. {d \in Client : op'[d] = "prune"} = {d \in Client : op[d] = "prune"}
      BY <2>3
    <3>2. {keep'[e] : e \in {d \in Client : op[d] = "prune"}}
             = {keep[e] : e \in {d \in Client : op[d] = "prune"}}
      BY <2>4
    <3>3. NoPrune' = NoPrune
      BY <2>3 DEF NoPrune, Busy
    <3>4. QED
      BY <3>1, <3>2, <3>3 DEF Kept, Busy
  <2>6. QED
    BY <1>1, <2>1, <2>5 DEF Promise!vars
<1>4. QED
  BY <1>2, <1>3

LEMMA StepPromises ==
    ASSUME IInv, IInv', ~cut => PruneSees, [Next]_vars
    PROVE  [Promise!Next \/ cut']_(Promise!vars)
<1>1. Structure /\ Structure'
  BY DEF IInv
<1>2. ASSUME NEW c \in Client, Step(c), ~cut'
      PROVE  [Promise!Next]_(Promise!vars)
  <2>1. ~cut
    BY <1>1, <1>2, UncutBefore DEF Structure, Next
  <2>2. Uncut /\ Uncut' /\ PruneSees
    BY <1>2, <2>1 DEF IInv
  <2>3. op[c] \in {"none", "add", "prune", "read"}
    BY <1>1 DEF Structure, TypeOK
  <2>4. QED
    BY <1>1, <1>2, <2>2, <2>3, PruneStepPromises, AddStepPromises, ReadStepPromises
<1>3. CASE UNCHANGED vars
  BY <1>3 DEF vars, objectVars, clientVars, historyVars, Promise!vars, Kept,
     NoPrune, Busy
<1>4. QED
  BY <1>2, <1>3 DEF Next

(* The conditional writes of any number of clients to store.lsi are the    *)
(* promise of one shared index, with every fault the model has, until a    *)
(* write of a file is left unfinished.                                     *)
THEOREM LockedImplementsPromise == Spec => ImplementsPromise
<1>1. Spec => [](IInv /\ (~cut => PruneSees))
  BY Invariance, PruneSeesContent, PTL
<1>2. Spec => [][Next]_vars
  BY PTL DEF Spec
<1>3. Spec => Promise!Init
  BY InitPromises DEF Spec
<1>4. IInv /\ IInv' /\ (~cut => PruneSees) /\ [Next]_vars
         => [Promise!Next \/ cut']_(Promise!vars)
  BY StepPromises
<1>5. QED
  BY <1>1, <1>2, <1>3, <1>4, PTL DEF ImplementsPromise
===============================================================================
