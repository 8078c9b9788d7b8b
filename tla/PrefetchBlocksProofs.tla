------------------------- MODULE PrefetchBlocksProofs -------------------------
(***************************************************************************)
(* Proofs about the blocks that the workers of a store fetch and prefetch, *)
(* for any workers, blocks, gets and bounds: wherever a get is, it is in   *)
(* one place only; no get of quiet callers is lost; and prefetchMemory     *)
(* counts at least what is kept, and little more than it may.              *)
(***************************************************************************)
EXTENDS PrefetchBlocks, FiniteSetTheorems, TLAPS

-------------------------------------------------------------------------------
(* The inductive invariant                                                 *)

Reads(w) == pc[w] \in {"fetching", "prefetching"}

(* Where a get is from its call to its answer.                             *)
InChan(g) == \E i \in DOMAIN getChan : getChan[i] = g
Waits(g, b) == \E i \in DOMAIN Waiting(b) : Waiting(b)[i] = g
Held(g, w) == pc[w] = "fetching" /\ get[w] = g

(* It is in one of them at most, once, and not answered yet.               *)
Apart ==
    /\ \A i, j \in DOMAIN getChan : getChan[i] = getChan[j] => i = j
    /\ \A b \in Block : \A i, j \in DOMAIN Waiting(b) : Waiting(b)[i] = Waiting(b)[j] => i = j
    /\ \A g \in Get : InChan(g) =>
          Out(g) /\ (\A b \in Block : ~Waits(g, b)) /\ (\A w \in Worker : ~Held(g, w))
    /\ \A g \in Get, b \in Block : Waits(g, b) =>
          Out(g) /\ wanted[g] = b /\ (\A w \in Worker : ~Held(g, w))
    /\ \A g \in Get, w \in Worker : Held(g, w) =>
          Out(g) /\ wanted[g] = block[w] /\ (\A v \in Worker : Held(g, v) => v = w)
    /\ \A g \in Get : ~Called(g) => answers[g] = 0

(* Nobody waits for a block that is there, and a worker comes back to an   *)
(* entry that has neither block nor error.                                 *)
Attends(b) ==
    /\ prefetchBlocks[b].stored \/ prefetchBlocks[b].err => Waiting(b) = <<>>
    /\ IsEntry(b) => \/ prefetchBlocks[b].stored \/ prefetchBlocks[b].err
                     \/ \E w \in Worker : Reads(w) /\ block[w] = b

Attended == \A b \in Block : Attends(b)

(* With quiet callers, one get of a block is out at most, none while a     *)
(* flush is under way, and each has somebody who comes to it.              *)
Placed(g) ==
    \/ InChan(g)
    \/ \E w \in Worker : Held(g, w) /\ IsEntry(block[w])
    \/ \E w \in Worker : Reads(w) /\ Waits(g, block[w])

Kept ==
    Quiet =>
        /\ ~panicked
        /\ Flushing \/ closed => \A g \in Get : ~Out(g)
        /\ \A g, h \in Get : Out(g) /\ Out(h) /\ wanted[g] = wanted[h] => g = h
        /\ \A g \in Get : Out(g) => Placed(g)

(* Workers that saw room, and have still to add what they prefetch.        *)
Adding == {w \in Worker : pc[w] = "prefetching" \/ (pc[w] = "wait" /\ permit[w])}

Counted ==
    /\ IsFiniteSet(Prefetched)
    /\ prefetchMemory >= Cardinality(Prefetched)
    /\ prefetchMemory + Cardinality(Adding) < MaxMemory + Cardinality(Worker)

IInv == TypeOK /\ Apart /\ AnsweredOnce /\ Attended /\ Kept /\ Counted

-------------------------------------------------------------------------------
(* Steps that leave the gets where they are                                *)

LEMMA HeadOfChan ==
    ASSUME TypeOK, Apart, getChan # <<>>, getChan' = Tail(getChan)
    PROVE  /\ Head(getChan) \in Get /\ InChan(Head(getChan)) /\ Out(Head(getChan))
           /\ wanted[Head(getChan)] \in Block
           /\ getChan' \in Seq(Get)
           /\ \A i, j \in DOMAIN getChan' : getChan'[i] = getChan'[j] => i = j
           /\ \A g \in Get : InChan(g)' <=> InChan(g) /\ g # Head(getChan)
<1> DEFINE s == getChan
           t == Tail(getChan)
<1>1. s \in Seq(Get) /\ s # <<>>
  BY DEF TypeOK
<1>2. /\ Head(s) = s[1] /\ Head(s) \in Get /\ t \in Seq(Get)
      /\ DOMAIN s = 1 .. Len(s) /\ DOMAIN t = 1 .. (Len(s) - 1) /\ Len(s) \in Nat \ {0}
      /\ \A i \in 1 .. (Len(s) - 1) : t[i] = s[i + 1]
  BY <1>1
<1>3. \A i, j \in DOMAIN s : s[i] = s[j] => i = j
  BY DEF Apart
<1> HIDE DEF s, t
<1>4. \A i, j \in DOMAIN t : t[i] = t[j] => i = j
  <2> SUFFICES ASSUME NEW i \in DOMAIN t, NEW j \in DOMAIN t, t[i] = t[j] PROVE i = j
    OBVIOUS
  <2>1. i + 1 \in DOMAIN s /\ j + 1 \in DOMAIN s /\ s[i + 1] = s[j + 1]
    BY <1>2
  <2>2. i + 1 = j + 1
    BY <2>1, <1>3
  <2> QED BY <2>2, <1>2
<1>5. \A g \in Get : (\E i \in DOMAIN t : t[i] = g) <=> (\E i \in DOMAIN s : s[i] = g) /\ g # s[1]
  <2> SUFFICES ASSUME NEW g \in Get
               PROVE (\E i \in DOMAIN t : t[i] = g) <=> (\E i \in DOMAIN s : s[i] = g) /\ g # s[1]
    OBVIOUS
  <2>1. ASSUME NEW i \in DOMAIN t, t[i] = g PROVE (\E k \in DOMAIN s : s[k] = g) /\ g # s[1]
    <3>1. i + 1 \in DOMAIN s /\ 1 \in DOMAIN s /\ i + 1 # 1 /\ s[i + 1] = g
      BY <1>2, <2>1
    <3> QED BY <3>1, <1>3
  <2>2. ASSUME NEW i \in DOMAIN s, s[i] = g, g # s[1] PROVE \E k \in DOMAIN t : t[k] = g
    <3>1. i - 1 \in DOMAIN t /\ (i - 1) + 1 = i
      BY <1>2, <2>2
    <3>2. t[i - 1] = g
      BY <3>1, <1>2, <2>2
    <3> QED BY <3>1, <3>2
  <2> QED BY <2>1, <2>2
<1>6. InChan(s[1])
  BY <1>2 DEF InChan, s
<1>7. Out(s[1])
  BY <1>2, <1>6 DEF Apart
<1>8. wanted[s[1]] \in Block
  BY <1>2, <1>7 DEF Out, Called, TypeOK
<1> QED BY <1>2, <1>4, <1>5, <1>6, <1>7, <1>8 DEF InChan, s, t

(* A get that enters the channel, or leaves its callback with an entry.    *)
LEMMA AppendHas ==
    ASSUME NEW s \in Seq(Get), NEW g \in Get
    PROVE  /\ \A h : (\E i \in DOMAIN Append(s, g) : Append(s, g)[i] = h)
                      <=> (\E i \in DOMAIN s : s[i] = h) \/ h = g
           /\ (\A i, j \in DOMAIN s : s[i] = s[j] => i = j) /\ (\A i \in DOMAIN s : s[i] # g)
              => \A i, j \in DOMAIN Append(s, g) : Append(s, g)[i] = Append(s, g)[j] => i = j
<1> DEFINE t == Append(s, g)
<1>1. /\ DOMAIN s = 1 .. Len(s) /\ DOMAIN t = 1 .. (Len(s) + 1) /\ Len(s) \in Nat
      /\ t[Len(s) + 1] = g /\ \A i \in 1 .. Len(s) : t[i] = s[i]
  OBVIOUS
<1> HIDE DEF t
<1>2. /\ Len(s) + 1 \in DOMAIN t /\ \A i \in DOMAIN s : i \in DOMAIN t /\ t[i] = s[i]
      /\ \A i \in DOMAIN t : i \in DOMAIN s \/ t[i] = g
  BY <1>1
<1>3. \A h : (\E i \in DOMAIN t : t[i] = h) <=> (\E i \in DOMAIN s : s[i] = h) \/ h = g
  <2> SUFFICES ASSUME NEW h
               PROVE (\E i \in DOMAIN t : t[i] = h) <=> (\E i \in DOMAIN s : s[i] = h) \/ h = g
    OBVIOUS
  <2> QED BY <1>1, <1>2
<1>4. (\A i, j \in DOMAIN s : s[i] = s[j] => i = j) /\ (\A i \in DOMAIN s : s[i] # g)
      => \A i, j \in DOMAIN t : t[i] = t[j] => i = j
  BY <1>1
<1> QED BY <1>3, <1>4 DEF t

(* Gets that leave a place, or are answered when they have left it.        *)
LEMMA ApartWhenLeaving ==
    ASSUME Apart, AnsweredOnce, wanted' = wanted,
           \A i, j \in DOMAIN getChan' : getChan'[i] = getChan'[j] => i = j,
           \A g \in Get : InChan(g)' => InChan(g),
           \A b \in Block : Waiting(b)' = Waiting(b) \/ Waiting(b)' = <<>>,
           \A g \in Get, w \in Worker : Held(g, w)' => Held(g, w) /\ block'[w] = block[w],
           \A g \in Get :
               \/ answers'[g] = answers[g]
               \/ /\ Out(g) /\ answers'[g] = 1 /\ ~InChan(g)'
                  /\ \A b \in Block : ~Waits(g, b)'
                  /\ \A w \in Worker : ~Held(g, w)'
    PROVE  Apart' /\ AnsweredOnce'
<1>1. \A g \in Get, b \in Block : Waits(g, b)' => Waits(g, b)
  <2> SUFFICES ASSUME NEW g \in Get, NEW b \in Block, Waits(g, b)' PROVE Waits(g, b)
    OBVIOUS
  <2>1. DOMAIN <<>> = {}
    OBVIOUS
  <2> QED BY <2>1 DEF Waits
<1>2. \A b \in Block : \A i, j \in DOMAIN Waiting(b)' : Waiting(b)'[i] = Waiting(b)'[j] => i = j
  <2> SUFFICES ASSUME NEW b \in Block
               PROVE \A i, j \in DOMAIN Waiting(b)' : Waiting(b)'[i] = Waiting(b)'[j] => i = j
    OBVIOUS
  <2>1. DOMAIN <<>> = {}
    OBVIOUS
  <2>2. CASE Waiting(b)' = <<>>
    BY <2>1, <2>2
  <2>3. CASE Waiting(b)' = Waiting(b)
    BY <2>3 DEF Apart
  <2> QED BY <2>2, <2>3
<1>3. \A g \in Get : InChan(g)' =>
          Out(g)' /\ (\A b \in Block : ~Waits(g, b)') /\ (\A w \in Worker : ~Held(g, w)')
  BY <1>1 DEF Apart, Out, Called
<1>4. \A g \in Get, b \in Block : Waits(g, b)' =>
          Out(g)' /\ wanted'[g] = b /\ (\A w \in Worker : ~Held(g, w)')
  BY <1>1 DEF Apart, Out, Called
<1>5. \A g \in Get, w \in Worker : Held(g, w)' =>
          Out(g)' /\ wanted'[g] = block'[w] /\ (\A v \in Worker : Held(g, v)' => v = w)
  BY DEF Apart, Out, Called
<1>6. \A g \in Get : ~Called(g)' => answers'[g] = 0
  BY DEF Apart, Out, Called
<1>7. AnsweredOnce'
  BY DEF AnsweredOnce
<1> QED BY <1>2, <1>3, <1>4, <1>5, <1>6, <1>7 DEF Apart

(* The slots of the map.                                                   *)
LEMMA EmptySlot ==
    ASSUME NEW is \in {"absent", "nil", "entry"}
    PROVE  /\ Without(is) \in Slot /\ Without(is).is = is /\ Without(is).waiting = <<>>
           /\ ~Without(is).stored /\ ~Without(is).err
BY DEF Without, Slot

LEMMA SlotSet ==
    ASSUME TypeOK, NEW b \in Block, NEW slot \in Slot, SetSlot(b, slot)
    PROVE  /\ prefetchBlocks' \in [Block -> Slot]
           /\ prefetchBlocks'[b] = slot /\ Waiting(b)' = slot.waiting
           /\ \A c \in Block \ {b} :
                 prefetchBlocks'[c] = prefetchBlocks[c] /\ Waiting(c)' = Waiting(c)
BY DEF TypeOK, SetSlot, Waiting

LEMMA WaitingGets ==
    ASSUME TypeOK, NEW b \in Block
    PROVE  /\ prefetchBlocks[b] \in Slot /\ Waiting(b) \in Seq(Get)
           /\ \A g \in Get : g \in Waiters(b) <=> Waits(g, b)
BY DEF TypeOK, Slot, Waiting, Waiters, Waits

-------------------------------------------------------------------------------
(* Types                                                                   *)

LEMMA SlotTypes ==
    ASSUME TypeOK, NEW b \in Block, NEW slot \in Slot, SetSlot(b, slot),
           slot.is # "entry" => slot = Without(slot.is)
    PROVE  /\ prefetchBlocks' \in [Block -> Slot]
           /\ \A c \in Block : ~IsEntry(c)' => prefetchBlocks'[c] = Without(prefetchBlocks'[c].is)
<1>1. \A c \in Block : ~IsEntry(c) => prefetchBlocks[c] = Without(prefetchBlocks[c].is)
  BY DEF TypeOK
<1> QED BY <1>1, SlotSet DEF IsEntry

LEMMA StoredIsCounted ==
    ASSUME TypeOK, Counted
    PROVE  /\ \A b \in Block : prefetchMemory - Released(b) \in Nat
           /\ \A S : prefetchMemory - Cardinality(Prefetched \cap S) \in Nat
<1>1. prefetchMemory \in Nat /\ Cardinality(Prefetched) \in Nat
  BY FS_CardinalityType DEF TypeOK, Counted
<1>2. ASSUME NEW b \in Block PROVE prefetchMemory - Released(b) \in Nat
  <2>1. CASE prefetchBlocks[b].stored
    <3>1. b \in Prefetched
      BY <2>1 DEF Prefetched
    <3>2. Cardinality(Prefetched) # 0
      BY <3>1, FS_EmptySet DEF Counted
    <3> QED BY <3>2, <2>1, <1>1 DEF Counted, Released
  <2>2. CASE ~prefetchBlocks[b].stored
    BY <2>2, <1>1 DEF Released
  <2> QED BY <2>1, <2>2
<1>3. ASSUME NEW S PROVE prefetchMemory - Cardinality(Prefetched \cap S) \in Nat
  <2>1. Prefetched \cap S \in SUBSET Prefetched
    OBVIOUS
  <2>2. IsFiniteSet(Prefetched \cap S) /\ Cardinality(Prefetched \cap S) <= Cardinality(Prefetched)
    BY <2>1, FS_Subset DEF Counted
  <2>3. Cardinality(Prefetched \cap S) \in Nat
    BY <2>2, FS_CardinalityType
  <2> QED BY <2>2, <2>3, <1>1 DEF Counted
<1> QED BY <1>2, <1>3

LEMMA AnswerType ==
    ASSUME TypeOK, NEW gets, Answer(gets)
    PROVE  answers' \in [Get -> Nat]
BY DEF TypeOK, Answer

LEMMA GotoType ==
    ASSUME TypeOK, NEW w \in Worker, NEW phase \in Phase, Goto(w, phase)
    PROVE  /\ pc' \in [Worker -> Phase] /\ pc'[w] = phase
           /\ \A v \in Worker \ {w} : pc'[v] = pc[v]
BY DEF TypeOK, Goto

LEMMA DoneType ==
    ASSUME TypeOK, NEW w \in Worker, Done(w)
    PROVE  /\ pc' \in [Worker -> Phase] /\ pc'[w] = "top"
           /\ block' \in [Worker -> Block \cup {NoBlock}]
           /\ get' \in [Worker -> Get \cup {NoGet}]
           /\ \A v \in Worker \ {w} : pc'[v] = pc[v] /\ block'[v] = block[v] /\ get'[v] = get[v]
BY DEF TypeOK, Done, Goto, Phase

LEMMA TypesOfCalls ==
    ASSUME TypeOK, Call
    PROVE  TypeOK'
<1>1. ASSUME NEW g \in Get, NEW b \in Block, GetStoredBlock(g, b), UNCHANGED callers PROVE TypeOK'
  BY <1>1 DEF GetStoredBlock, TypeOK, IsEntry, workVars
<1>2. ASSUME NEW b \in Block, Preflight(b), UNCHANGED callers PROVE TypeOK'
  BY <1>2 DEF Preflight, TypeOK, IsEntry, workVars
<1>3. ASSUME Flush, UNCHANGED callers PROVE TypeOK'
  BY <1>3 DEF Flush, TypeOK, IsEntry, workVars
<1>4. ASSUME Close, UNCHANGED callers PROVE TypeOK'
  BY <1>4 DEF Close, TypeOK, IsEntry, workVars
<1> QED BY <1>1, <1>2, <1>3, <1>4 DEF Call

(* What a worker leaves as it is, and what it changes to a value of the    *)
(* right type.                                                             *)
LEMMA TypesOfWorkers ==
    ASSUME TypeOK, NEW w \in Worker, UNCHANGED <<callers, closed, wanted, prefetches, flushes>>,
           prefetchBlocks' \in [Block -> Slot],
           \A c \in Block : ~IsEntry(c)' => prefetchBlocks'[c] = Without(prefetchBlocks'[c].is),
           prefetchMemory' \in Nat, getChan' \in Seq(Get), prefetchChan' \in Seq(Block),
           flushChan' \in Nat, pc' \in [Worker -> Phase], permit' \in [Worker -> BOOLEAN],
           block' \in [Worker -> Block \cup {NoBlock}], get' \in [Worker -> Get \cup {NoGet}],
           \A v \in Worker \ {w} : pc'[v] = pc[v] /\ block'[v] = block[v] /\ get'[v] = get[v],
           pc'[w] \in {"fetching", "prefetching"} => block'[w] \in Block,
           pc'[w] = "fetching" => get'[w] \in Get,
           answers' \in [Get -> Nat], panicked' \in BOOLEAN
    PROVE  TypeOK'
<1>1. \A v \in Worker : pc'[v] \in {"fetching", "prefetching"} => block'[v] \in Block
  BY DEF TypeOK
<1>2. \A v \in Worker : pc'[v] = "fetching" => get'[v] \in Get
  BY DEF TypeOK
<1> QED BY <1>1, <1>2 DEF TypeOK

LEMMA SameSlots ==
    ASSUME TypeOK, prefetchBlocks' = prefetchBlocks
    PROVE  /\ prefetchBlocks' \in [Block -> Slot]
           /\ \A c \in Block : ~IsEntry(c)' => prefetchBlocks'[c] = Without(prefetchBlocks'[c].is)
BY DEF TypeOK, IsEntry

LEMMA TypesOfFetch ==
    ASSUME TypeOK, Apart, Counted, NEW w \in Worker, Fetch(w), UNCHANGED callers
    PROVE  TypeOK'
<1> DEFINE g == Head(getChan)
           b == wanted[g]
           slot == prefetchBlocks[b]
<1>1. getChan # <<>> /\ getChan' = Tail(getChan)
      /\ UNCHANGED <<prefetchChan, flushChan, closed, prefetches, flushes, permit, wanted, panicked>>
  BY DEF Fetch
<1>2. g \in Get /\ b \in Block /\ getChan' \in Seq(Get)
  BY <1>1, HeadOfChan
<1>3. {"top", "fetching"} \subseteq Phase
  BY DEF Phase
<1>u. prefetchChan' \in Seq(Block) /\ flushChan' \in Nat /\ permit' \in [Worker -> BOOLEAN]
      /\ panicked' \in BOOLEAN
  BY <1>1 DEF TypeOK
<1>4. CASE /\ IsEntry(b) /\ (slot.stored \/ slot.err)
           /\ prefetchMemory' = prefetchMemory - Released(b)
           /\ SetSlot(b, Without("nil")) /\ Answer({g}) /\ Goto(w, "top") /\ UNCHANGED <<block, get>>
  <2>1. prefetchMemory' \in Nat
    BY <1>4, <1>2, StoredIsCounted
  <2>2. answers' \in [Get -> Nat]
    BY <1>4, AnswerType
  <2>3. /\ prefetchBlocks' \in [Block -> Slot]
        /\ \A c \in Block : ~IsEntry(c)' => prefetchBlocks'[c] = Without(prefetchBlocks'[c].is)
    BY <1>4, <1>2, EmptySlot, SlotTypes
  <2>4. block' \in [Worker -> Block \cup {NoBlock}] /\ get' \in [Worker -> Get \cup {NoGet}]
    BY <1>4 DEF TypeOK
  <2>5. /\ pc' \in [Worker -> Phase] /\ pc'[w] = "top"
        /\ \A v \in Worker \ {w} : pc'[v] = pc[v] /\ block'[v] = block[v] /\ get'[v] = get[v]
    BY <1>4, <1>3, GotoType
  <2> HIDE DEF g, b, slot
  <2> QED BY <1>1, <1>2, <1>u, <2>1, <2>2, <2>3, <2>4, <2>5, TypesOfWorkers
<1>5. CASE /\ IsEntry(b) /\ ~slot.stored /\ ~slot.err
           /\ prefetchMemory' = prefetchMemory
           /\ SetSlot(b, [slot EXCEPT !.waiting = Append(@, g)])
           /\ Goto(w, "top") /\ UNCHANGED <<block, get, answers>>
  <2> DEFINE new == [slot EXCEPT !.waiting = Append(@, g)]
  <2>1. new \in Slot /\ new.is = "entry"
    <3>1. slot \in Slot /\ slot.is = "entry" /\ slot.waiting \in Seq(Get)
      BY <1>2, <1>5, WaitingGets DEF Slot, IsEntry
    <3> HIDE DEF slot, g
    <3>2. Append(slot.waiting, g) \in Seq(Get)
      BY <3>1, <1>2
    <3> QED BY <3>1, <3>2 DEF Slot
  <2>2. SetSlot(b, new)
    BY <1>5
  <2> HIDE DEF new
  <2>3. /\ prefetchBlocks' \in [Block -> Slot]
        /\ \A c \in Block : ~IsEntry(c)' => prefetchBlocks'[c] = Without(prefetchBlocks'[c].is)
    BY <2>1, <2>2, <1>2, SlotTypes
  <2>4. /\ block' \in [Worker -> Block \cup {NoBlock}] /\ get' \in [Worker -> Get \cup {NoGet}]
        /\ prefetchMemory' \in Nat /\ answers' \in [Get -> Nat]
    BY <1>5 DEF TypeOK
  <2>5. /\ pc' \in [Worker -> Phase] /\ pc'[w] = "top"
        /\ \A v \in Worker \ {w} : pc'[v] = pc[v] /\ block'[v] = block[v] /\ get'[v] = get[v]
    BY <1>5, <1>3, GotoType
  <2> HIDE DEF g, b, slot
  <2> QED BY <1>1, <1>2, <1>u, <2>3, <2>4, <2>5, TypesOfWorkers
<1>6. CASE /\ ~IsEntry(b) /\ SetSlot(b, Without("entry"))
           /\ block' = [block EXCEPT ![w] = b] /\ get' = [get EXCEPT ![w] = g]
           /\ Goto(w, "fetching") /\ UNCHANGED <<prefetchMemory, answers>>
  <2>1. /\ prefetchBlocks' \in [Block -> Slot]
        /\ \A c \in Block : ~IsEntry(c)' => prefetchBlocks'[c] = Without(prefetchBlocks'[c].is)
    BY <1>6, <1>2, EmptySlot, SlotTypes
  <2>2. /\ block' \in [Worker -> Block \cup {NoBlock}] /\ get' \in [Worker -> Get \cup {NoGet}]
        /\ block'[w] = b /\ get'[w] = g /\ prefetchMemory' \in Nat /\ answers' \in [Get -> Nat]
        /\ \A v \in Worker \ {w} : block'[v] = block[v] /\ get'[v] = get[v]
    BY <1>6, <1>2 DEF TypeOK
  <2>3. /\ pc' \in [Worker -> Phase]
        /\ \A v \in Worker \ {w} : pc'[v] = pc[v]
    BY <1>6, <1>3, GotoType
  <2> HIDE DEF g, b, slot
  <2> QED BY <1>1, <1>2, <1>u, <2>1, <2>2, <2>3, TypesOfWorkers
<1> QED BY <1>4, <1>5, <1>6 DEF Fetch

LEMMA TypesOfRest ==
    ASSUME TypeOK, Apart, Counted, NEW w \in Worker, UNCHANGED callers,
           Poll(w) \/ EndFetch(w) \/ Prefetch(w) \/ TakeFlush(w) \/ Stop(w) \/ Clear(w)
    PROVE  TypeOK'
<1>p. {"top", "wait", "prefetching", "clear", "stop", "gone"} \subseteq Phase
  BY DEF Phase
<1>1. CASE Poll(w)
  <2>1. pc' \in [Worker -> Phase] /\ pc'[w] = "wait" /\ \A v \in Worker \ {w} : pc'[v] = pc[v]
    BY <1>1, <1>p, GotoType DEF Poll
  <2>2. permit' \in [Worker -> BOOLEAN]
    BY <1>1 DEF Poll, TypeOK, HasRoom
  <2> QED BY <1>1, <2>1, <2>2 DEF Poll, TypeOK, chanVars, IsEntry
<1>2. CASE EndFetch(w)
  <2> DEFINE b == block[w]
  <2>1. Done(w) /\ UNCHANGED <<prefetchMemory, chanVars, permit, wanted>> /\ b \in Block
    BY <1>2 DEF EndFetch, TypeOK
  <2>2. /\ pc' \in [Worker -> Phase] /\ pc'[w] = "top"
        /\ block' \in [Worker -> Block \cup {NoBlock}]
        /\ get' \in [Worker -> Get \cup {NoGet}]
        /\ \A v \in Worker \ {w} : pc'[v] = pc[v] /\ block'[v] = block[v] /\ get'[v] = get[v]
    BY <2>1, DoneType
  <2>3. \/ SetSlot(b, Without("nil")) /\ (\E gets : Answer(gets)) /\ UNCHANGED panicked
        \/ UNCHANGED <<prefetchBlocks, answers>> /\ panicked' \in BOOLEAN
    BY <1>2 DEF EndFetch, TypeOK
  <2>4. /\ prefetchBlocks' \in [Block -> Slot]
        /\ \A c \in Block : ~IsEntry(c)' => prefetchBlocks'[c] = Without(prefetchBlocks'[c].is)
    BY <2>1, <2>3, EmptySlot, SlotTypes, SameSlots
  <2>5. answers' \in [Get -> Nat] /\ panicked' \in BOOLEAN
    BY <2>3, AnswerType DEF TypeOK
  <2>6. /\ UNCHANGED <<closed, prefetches, flushes, wanted>>
        /\ prefetchMemory' \in Nat /\ getChan' \in Seq(Get) /\ prefetchChan' \in Seq(Block)
        /\ flushChan' \in Nat /\ permit' \in [Worker -> BOOLEAN]
    BY <2>1 DEF TypeOK, chanVars
  <2> HIDE DEF b
  <2> QED BY <2>2, <2>4, <2>5, <2>6, TypesOfWorkers
<1>3. CASE Prefetch(w)
  <2> DEFINE b == Head(prefetchChan)
  <2>1. prefetchChan # <<>> /\ prefetchChan' = Tail(prefetchChan)
        /\ UNCHANGED <<prefetchMemory, getChan, flushChan, closed, prefetches, flushes,
                       permit, get, wanted, answers, panicked>>
    BY <1>3 DEF Prefetch
  <2>2. prefetchChan' \in Seq(Block) /\ b \in Block
    BY <2>1 DEF TypeOK
  <2>3. \/ Goto(w, "top") /\ UNCHANGED <<prefetchBlocks, block>>
        \/ /\ SetSlot(b, Without("entry")) /\ block' = [block EXCEPT ![w] = b]
           /\ Goto(w, "prefetching")
    BY <1>3 DEF Prefetch
  <2>4. /\ prefetchBlocks' \in [Block -> Slot]
        /\ \A c \in Block : ~IsEntry(c)' => prefetchBlocks'[c] = Without(prefetchBlocks'[c].is)
    BY <2>2, <2>3, EmptySlot, SlotTypes, SameSlots
  <2>5. pc' \in [Worker -> Phase] /\ pc'[w] # "fetching" /\ \A v \in Worker \ {w} : pc'[v] = pc[v]
    BY <2>3, <1>p, GotoType
  <2>6. /\ block' \in [Worker -> Block \cup {NoBlock}]
        /\ \A v \in Worker \ {w} : block'[v] = block[v]
        /\ pc'[w] = "prefetching" => block'[w] \in Block
    <3>1. CASE Goto(w, "top") /\ UNCHANGED <<prefetchBlocks, block>>
      BY <3>1, <1>p, GotoType DEF TypeOK
    <3>2. CASE block' = [block EXCEPT ![w] = b]
      BY <3>2, <2>2 DEF TypeOK
    <3> QED BY <2>3, <3>1, <3>2
  <2>7. /\ prefetchMemory' \in Nat /\ getChan' \in Seq(Get) /\ flushChan' \in Nat
        /\ permit' \in [Worker -> BOOLEAN] /\ get' \in [Worker -> Get \cup {NoGet}]
        /\ answers' \in [Get -> Nat] /\ panicked' \in BOOLEAN
    BY <2>1 DEF TypeOK
  <2> HIDE DEF b
  <2> QED BY <2>1, <2>2, <2>4, <2>5, <2>6, <2>7, TypesOfWorkers
<1>4. CASE TakeFlush(w) \/ Stop(w)
  <2>1. \E phase \in {"clear", "stop"} : Drain(w, phase)
    BY <1>4 DEF TakeFlush, Stop
  <2>2. /\ pc' \in [Worker -> Phase] /\ pc'[w] \in {"clear", "stop"}
        /\ \A v \in Worker \ {w} : pc'[v] = pc[v]
    BY <2>1, <1>p, GotoType DEF Drain
  <2>3. flushChan' \in Nat
    BY <1>4 DEF TakeFlush, Stop, TypeOK
  <2>4. prefetchChan' \in Seq(Block)
    BY <2>1 DEF Drain
  <2>5. UNCHANGED <<prefetchBlocks, prefetchMemory, getChan, closed, prefetches, flushes,
                    workVars, wanted, answers, panicked>>
    BY <2>1 DEF Drain
  <2> QED BY <2>2, <2>3, <2>4, <2>5 DEF TypeOK, workVars, IsEntry
<1>5. CASE Clear(w)
  <2> DEFINE unwaited == {b \in Block : Waiting(b) = <<>>}
  <2>1. /\ prefetchBlocks' = [b \in Block |-> IF b \in unwaited
                                    THEN Without("absent") ELSE prefetchBlocks[b]]
        /\ prefetchMemory' = prefetchMemory - Cardinality(Prefetched \cap unwaited)
        /\ \E phase \in {"top", "gone"} : Goto(w, phase)
        /\ UNCHANGED <<chanVars, workVars, wanted, answers, panicked>>
    BY <1>5 DEF Clear
  <2>2. prefetchMemory' \in Nat
    BY <2>1, StoredIsCounted
  <2> HIDE DEF unwaited
  <2>3. prefetchBlocks' \in [Block -> Slot]
    BY <2>1, EmptySlot DEF TypeOK
  <2>4. \A c \in Block : ~IsEntry(c)' => prefetchBlocks'[c] = Without(prefetchBlocks'[c].is)
    BY <2>1, EmptySlot DEF TypeOK, IsEntry
  <2>5. /\ pc' \in [Worker -> Phase] /\ pc'[w] \in {"top", "gone"}
        /\ \A v \in Worker \ {w} : pc'[v] = pc[v]
    BY <2>1, <1>p, GotoType
  <2> QED BY <2>1, <2>2, <2>3, <2>4, <2>5 DEF TypeOK, chanVars, workVars
<1> QED BY <1>1, <1>2, <1>3, <1>4, <1>5

(* A prefetch that ends finds its entry gone, keeps what it read, or       *)
(* answers some of those that wait, the first of them among them.          *)
Gone(b) == ~IsEntry(b) /\ UNCHANGED <<prefetchBlocks, prefetchMemory, answers>>

Keeps(b) ==
    /\ IsEntry(b) /\ Waiting(b) = <<>> /\ UNCHANGED answers
    /\ \E slot \in Slot :
          /\ SetSlot(b, slot)
          /\ slot.is = "entry" /\ slot.waiting = <<>> /\ (slot.stored \/ slot.err)
          /\ \/ prefetchMemory' = prefetchMemory + 1
             \/ prefetchMemory' = prefetchMemory /\ slot.stored = prefetchBlocks[b].stored

Serves(b) ==
    /\ IsEntry(b) /\ Waiting(b) # <<>> /\ UNCHANGED prefetchMemory
    /\ SetSlot(b, Without("nil"))
    /\ answers' \in [Get -> Nat]
    /\ \A g \in Get : \/ answers'[g] = answers[g]
                      \/ Waits(g, b) /\ answers'[g] = answers[g] + 1
    /\ Waiting(b)[1] \in Get
    /\ answers'[Waiting(b)[1]] = answers[Waiting(b)[1]] + 1
    /\ Waits(Waiting(b)[1], b)

LEMMA EndOfPrefetch ==
    ASSUME TypeOK, Apart, NEW w \in Worker, EndPrefetch(w)
    PROVE  /\ pc[w] = "prefetching" /\ block[w] \in Block
           /\ Done(w) /\ ~panicked' /\ UNCHANGED <<chanVars, permit, wanted>>
           /\ Gone(block[w]) \/ Keeps(block[w]) \/ Serves(block[w])
<1> DEFINE b == block[w]
           q == Waiting(b)
<1>1. /\ pc[w] = "prefetching" /\ Done(w) /\ UNCHANGED <<chanVars, permit, wanted>>
      /\ panicked' = (~DropsBlock(b) /\ ~IsEntry(b))
  BY DEF EndPrefetch
<1>2. b \in Block
  BY <1>1 DEF TypeOK
<1>3. ~panicked'
  BY <1>1 DEF DropsBlock
<1>4. q \in Seq(Get) /\ prefetchBlocks[b] \in Slot /\ prefetchBlocks[b].waiting = q
  BY <1>2, WaitingGets DEF Waiting
<1>5. CASE IsEntry(b) /\ NobodyWaits(b) /\ UNCHANGED answers /\
           (\/ /\ SetSlot(b, [prefetchBlocks[b] EXCEPT !.stored = TRUE, !.err = FALSE])
               /\ prefetchMemory' = prefetchMemory + 1
            \/ /\ SetSlot(b, [prefetchBlocks[b] EXCEPT !.err = TRUE])
               /\ UNCHANGED prefetchMemory)
  <2> DEFINE good == [prefetchBlocks[b] EXCEPT !.stored = TRUE, !.err = FALSE]
             bad == [prefetchBlocks[b] EXCEPT !.err = TRUE]
  <2>1. q = <<>>
    BY <1>5 DEF NobodyWaits
  <2>2. /\ good \in Slot /\ good.is = "entry" /\ good.waiting = <<>> /\ good.stored
        /\ bad \in Slot /\ bad.is = "entry" /\ bad.waiting = <<>> /\ bad.err
        /\ bad.stored = prefetchBlocks[b].stored
    BY <1>4, <1>5, <2>1 DEF Slot, IsEntry
  <2>3. \/ SetSlot(b, good) /\ prefetchMemory' = prefetchMemory + 1
        \/ SetSlot(b, bad) /\ prefetchMemory' = prefetchMemory
    BY <1>5
  <2> HIDE DEF good, bad
  <2>4. Keeps(b)
    BY <1>5, <2>1, <2>2, <2>3 DEF Keeps
  <2> QED BY <1>1, <1>2, <1>3, <2>4
<1>6. CASE /\ IsEntry(b) /\ ~NobodyWaits(b) /\ SetSlot(b, Without("nil")) /\ UNCHANGED prefetchMemory
           /\ answers' = [g \in Get |->
                 answers[g] + (IF g \in {q[i] : i \in CalledInLoop(b)} THEN 1 ELSE 0)
                            + (IF g = q[1] THEN 1 ELSE 0)]
  <2>1. q # <<>> /\ 1 \in DOMAIN q /\ q[1] \in Get /\ DOMAIN q = 1 .. Len(q) /\ Len(q) \in Nat
    BY <1>4, <1>6 DEF NobodyWaits
  <2>2. \A i, j \in DOMAIN q : q[i] = q[j] => i = j
    BY <1>2 DEF Apart
  <2>3. CalledInLoop(b) = 2 .. Len(q) - 1
    BY DEF CalledInLoop
  <2>4. \A i \in CalledInLoop(b) : i \in DOMAIN q /\ i # 1
    BY <2>1, <2>3
  <2>5. q[1] \notin {q[i] : i \in CalledInLoop(b)}
    BY <2>1, <2>2, <2>4
  <2>6. \A g \in Get : g \in {q[i] : i \in CalledInLoop(b)} \/ g = q[1] => Waits(g, b)
    BY <2>1, <2>4 DEF Waits
  <2>7. answers' \in [Get -> Nat]
    BY <1>6 DEF TypeOK
  <2>8. \A g \in Get : \/ answers'[g] = answers[g]
                       \/ Waits(g, b) /\ answers'[g] = answers[g] + 1
    BY <1>6, <2>5, <2>6 DEF TypeOK
  <2>9. answers'[q[1]] = answers[q[1]] + 1
    BY <1>6, <2>1, <2>5 DEF TypeOK
  <2>10. Serves(b)
    BY <1>6, <2>1, <2>6, <2>7, <2>8, <2>9 DEF Serves
  <2> QED BY <1>1, <1>2, <1>3, <2>10
<1>7. CASE Gone(b)
  BY <1>1, <1>2, <1>3, <1>7
<1> QED BY <1>5, <1>6, <1>7 DEF EndPrefetch, Gone

LEMMA EndOfPrefetchOf ==
    ASSUME TypeOK, Apart, NEW w \in Worker, EndPrefetch(w)
    PROVE  \E b \in Block :
              /\ pc[w] = "prefetching" /\ b = block[w]
              /\ Done(w) /\ ~panicked' /\ UNCHANGED <<chanVars, permit, wanted>>
              /\ Gone(b) \/ Keeps(b) \/ Serves(b)
<1>1. /\ pc[w] = "prefetching" /\ block[w] \in Block
      /\ Done(w) /\ ~panicked' /\ UNCHANGED <<chanVars, permit, wanted>>
      /\ Gone(block[w]) \/ Keeps(block[w]) \/ Serves(block[w])
  BY EndOfPrefetch
<1> USE <1>1
<1> WITNESS block[w] \in Block
<1> QED OBVIOUS

LEMMA TypesOfEndPrefetch ==
    ASSUME TypeOK, Apart, NEW w \in Worker, EndPrefetch(w), UNCHANGED callers
    PROVE  TypeOK'
<1> DEFINE b == block[w]
<1>1. /\ pc[w] = "prefetching" /\ b \in Block
      /\ Done(w) /\ ~panicked' /\ UNCHANGED <<chanVars, permit, wanted>>
      /\ Gone(b) \/ Keeps(b) \/ Serves(b)
  BY EndOfPrefetch
<1>2. /\ pc' \in [Worker -> Phase] /\ pc'[w] = "top"
      /\ block' \in [Worker -> Block \cup {NoBlock}]
      /\ get' \in [Worker -> Get \cup {NoGet}]
      /\ \A v \in Worker \ {w} : pc'[v] = pc[v] /\ block'[v] = block[v] /\ get'[v] = get[v]
  BY <1>1, DoneType
<1> HIDE DEF b
<1>3. /\ prefetchBlocks' \in [Block -> Slot]
      /\ \A c \in Block : ~IsEntry(c)' => prefetchBlocks'[c] = Without(prefetchBlocks'[c].is)
  BY <1>1, EmptySlot, SlotTypes, SameSlots DEF Gone, Keeps, Serves
<1>4. prefetchMemory' \in Nat /\ answers' \in [Get -> Nat]
  BY <1>1 DEF Gone, Keeps, Serves, TypeOK
<1>5. /\ UNCHANGED <<closed, prefetches, flushes, wanted>> /\ panicked' \in BOOLEAN
      /\ getChan' \in Seq(Get) /\ prefetchChan' \in Seq(Block)
      /\ flushChan' \in Nat /\ permit' \in [Worker -> BOOLEAN]
  BY <1>1 DEF TypeOK, chanVars, EndPrefetch
<1> QED BY <1>2, <1>3, <1>4, <1>5, TypesOfWorkers

LEMMA TypesNext ==
    ASSUME TypeOK, Apart, Counted, [Next]_vars
    PROVE  TypeOK'
<1>1. CASE UNCHANGED vars
  BY <1>1 DEF TypeOK, vars, chanVars, workVars, IsEntry
<1> QED BY <1>1, TypesOfCalls, TypesOfFetch, TypesOfEndPrefetch, TypesOfRest DEF Next, Work

-------------------------------------------------------------------------------
(* Where the gets are                                                      *)

LEMMA ApartCalls ==
    ASSUME TypeOK, Apart, AnsweredOnce, Call
    PROVE  Apart' /\ AnsweredOnce'
<1>1. ASSUME NEW g \in Get, NEW b \in Block, GetStoredBlock(g, b) PROVE Apart' /\ AnsweredOnce'
  <2>1. /\ ~Called(g) /\ wanted' = [wanted EXCEPT ![g] = b] /\ getChan' = Append(getChan, g)
        /\ UNCHANGED <<prefetchBlocks, pc, block, get, answers>>
    BY <1>1 DEF GetStoredBlock, workVars
  <2>2. answers[g] = 0 /\ ~Out(g)
    BY <2>1 DEF Apart, Out
  <2>3. Out(g)' /\ \A h \in Get \ {g} : (Out(h)' <=> Out(h)) /\ wanted'[h] = wanted[h]
    BY <2>1, <2>2, PrefetchAssumption DEF Out, Called, TypeOK
  <2>4. /\ \A h \in Get : InChan(h)' <=> InChan(h) \/ h = g
        /\ \A i, j \in DOMAIN getChan' : getChan'[i] = getChan'[j] => i = j
    <3>1. getChan \in Seq(Get) /\ \A i, j \in DOMAIN getChan : getChan[i] = getChan[j] => i = j
      BY DEF TypeOK, Apart
    <3>2. \A i \in DOMAIN getChan : getChan[i] # g
      BY <2>2 DEF Apart, InChan
    <3> QED BY <2>1, <3>1, <3>2, AppendHas DEF InChan
  <2>5. /\ \A h \in Get, c \in Block : Waits(h, c)' <=> Waits(h, c)
        /\ \A c \in Block : Waiting(c)' = Waiting(c)
        /\ \A h \in Get, w \in Worker : Held(h, w)' <=> Held(h, w)
    BY <2>1 DEF Waits, Waiting, Held
  <2>6. /\ \A c \in Block : ~Waits(g, c)
        /\ \A w \in Worker : ~Held(g, w)
    BY <2>2 DEF Apart
  <2>7. \A h \in Get : ~Called(h)' => answers'[h] = 0
    BY <2>1, <2>2 DEF Apart, Called, TypeOK
  <2>8. \A c \in Block : \A i, j \in DOMAIN Waiting(c)' : Waiting(c)'[i] = Waiting(c)'[j] => i = j
    BY <2>5 DEF Apart
  <2>9. \A h \in Get : InChan(h)' =>
            Out(h)' /\ (\A c \in Block : ~Waits(h, c)') /\ (\A w \in Worker : ~Held(h, w)')
    BY <2>3, <2>4, <2>5, <2>6 DEF Apart
  <2>10. \A h \in Get, c \in Block : Waits(h, c)' =>
            Out(h)' /\ wanted'[h] = c /\ (\A w \in Worker : ~Held(h, w)')
    BY <2>3, <2>5, <2>6 DEF Apart
  <2>11. \A h \in Get, w \in Worker : Held(h, w)' =>
            Out(h)' /\ wanted'[h] = block'[w] /\ (\A v \in Worker : Held(h, v)' => v = w)
    BY <2>1, <2>3, <2>5, <2>6 DEF Apart
  <2>12. AnsweredOnce'
    BY <2>1 DEF AnsweredOnce
  <2> QED BY <2>4, <2>7, <2>8, <2>9, <2>10, <2>11, <2>12 DEF Apart
<1>2. ASSUME UNCHANGED <<wanted, getChan, prefetchBlocks, pc, block, get, answers>>
      PROVE  Apart' /\ AnsweredOnce'
  BY <1>2 DEF Apart, AnsweredOnce, InChan, Waits, Waiting, Held, Out, Called
<1>3. ASSUME NEW b \in Block, Preflight(b) PROVE Apart' /\ AnsweredOnce'
  BY <1>2, <1>3 DEF Preflight, workVars
<1>4. ASSUME Flush \/ Close PROVE Apart' /\ AnsweredOnce'
  BY <1>2, <1>4 DEF Flush, Close, workVars
<1> QED BY <1>1, <1>3, <1>4 DEF Call

(* What fetchBlock does before its remote read, of a get g of a block b.   *)
HandsOut(w, g, b) ==
    /\ IsEntry(b) /\ (prefetchBlocks[b].stored \/ prefetchBlocks[b].err)
    /\ prefetchMemory' = prefetchMemory - Released(b)
    /\ SetSlot(b, Without("nil"))
    /\ Answer({g}) /\ Goto(w, "top") /\ UNCHANGED <<block, get>>

Joins(w, g, b) ==
    /\ IsEntry(b) /\ ~prefetchBlocks[b].stored /\ ~prefetchBlocks[b].err
    /\ prefetchMemory' = prefetchMemory
    /\ \E slot \in Slot :
          /\ SetSlot(b, slot)
          /\ slot.is = "entry" /\ ~slot.stored /\ ~slot.err
          /\ slot.waiting = Append(Waiting(b), g)
    /\ Goto(w, "top") /\ UNCHANGED <<block, get, answers>>

Begins(w, g, b) ==
    /\ ~IsEntry(b)
    /\ SetSlot(b, Without("entry"))
    /\ block' = [block EXCEPT ![w] = b] /\ get' = [get EXCEPT ![w] = g]
    /\ Goto(w, "fetching") /\ UNCHANGED <<prefetchMemory, answers>>

LEMMA FetchOf ==
    ASSUME TypeOK, Apart, NEW w \in Worker, Fetch(w)
    PROVE  \E g \in Get, b \in Block :
              /\ pc[w] \in {"top", "wait"} /\ InChan(g) /\ Out(g) /\ wanted[g] = b
              /\ \A i, j \in DOMAIN getChan' : getChan'[i] = getChan'[j] => i = j
              /\ \A h \in Get : InChan(h)' <=> InChan(h) /\ h # g
              /\ UNCHANGED <<prefetchChan, flushChan, closed, prefetches, flushes, permit,
                             wanted, panicked>>
              /\ HandsOut(w, g, b) \/ Joins(w, g, b) \/ Begins(w, g, b)
<1> DEFINE g == Head(getChan)
           b == wanted[g]
           slot == prefetchBlocks[b]
<1>1. /\ pc[w] \in {"top", "wait"} /\ getChan # <<>> /\ getChan' = Tail(getChan)
      /\ UNCHANGED <<prefetchChan, flushChan, closed, prefetches, flushes, permit, wanted, panicked>>
  BY DEF Fetch
<1>2. /\ g \in Get /\ b \in Block /\ InChan(g) /\ Out(g)
      /\ \A i, j \in DOMAIN getChan' : getChan'[i] = getChan'[j] => i = j
      /\ \A h \in Get : InChan(h)' <=> InChan(h) /\ h # g
  BY <1>1, HeadOfChan
<1>3. \/ HandsOut(w, g, b) \/ Begins(w, g, b)
      \/ /\ IsEntry(b) /\ ~slot.stored /\ ~slot.err
         /\ prefetchMemory' = prefetchMemory
         /\ SetSlot(b, [slot EXCEPT !.waiting = Append(@, g)])
         /\ Goto(w, "top") /\ UNCHANGED <<block, get, answers>>
  BY DEF Fetch, HandsOut, Begins
<1>4. ASSUME IsEntry(b), ~slot.stored, ~slot.err,
             prefetchMemory' = prefetchMemory,
             SetSlot(b, [slot EXCEPT !.waiting = Append(@, g)]),
             Goto(w, "top"), UNCHANGED <<block, get, answers>>
      PROVE  Joins(w, g, b)
  <2> DEFINE new == [slot EXCEPT !.waiting = Append(@, g)]
  <2>1. slot \in Slot /\ slot.is = "entry" /\ slot.waiting \in Seq(Get) /\ slot.waiting = Waiting(b)
    BY <1>2, <1>4, WaitingGets DEF Slot, IsEntry, Waiting
  <2>2. SetSlot(b, new)
    BY <1>4
  <2>3. /\ new \in Slot /\ new.is = "entry" /\ ~new.stored /\ ~new.err
        /\ new.waiting = Append(Waiting(b), g)
    <3> HIDE DEF slot, g
    <3>1. Append(slot.waiting, g) \in Seq(Get)
      BY <2>1, <1>2
    <3> QED BY <2>1, <3>1, <1>4 DEF Slot
  <2> HIDE DEF new
  <2> QED BY <1>4, <2>2, <2>3 DEF Joins
<1>5. HandsOut(w, g, b) \/ Joins(w, g, b) \/ Begins(w, g, b)
  BY <1>3, <1>4
<1>6. wanted[g] = b
  OBVIOUS
<1> HIDE DEF g, b
<1> USE <1>2
<1> WITNESS g \in Get, b \in Block
<1> QED BY <1>1, <1>2, <1>5, <1>6

LEMMA AnswerOf ==
    ASSUME TypeOK, NEW gets, Answer(gets)
    PROVE  \A g \in Get : answers'[g] = (IF g \in gets THEN answers[g] + 1 ELSE answers[g])
BY DEF Answer

LEMMA ApartFetch ==
    ASSUME TypeOK, Apart, AnsweredOnce, Attended, NEW w \in Worker, Fetch(w)
    PROVE  Apart' /\ AnsweredOnce'
<1>1. PICK g \in Get, b \in Block :
              /\ pc[w] \in {"top", "wait"} /\ InChan(g) /\ Out(g) /\ wanted[g] = b
              /\ \A i, j \in DOMAIN getChan' : getChan'[i] = getChan'[j] => i = j
              /\ \A h \in Get : InChan(h)' <=> InChan(h) /\ h # g
              /\ UNCHANGED <<prefetchChan, flushChan, closed, prefetches, flushes, permit,
                             wanted, panicked>>
              /\ HandsOut(w, g, b) \/ Joins(w, g, b) \/ Begins(w, g, b)
  BY FetchOf
<1>n. ~InChan(g)' /\ (\A c \in Block : ~Waits(g, c)) /\ (\A v \in Worker : ~Held(g, v))
  BY <1>1 DEF Apart
<1>2. CASE HandsOut(w, g, b)
  <2>1. /\ Waiting(b)' = <<>>
        /\ \A c \in Block \ {b} : Waiting(c)' = Waiting(c)
    BY <1>2, EmptySlot, SlotSet DEF HandsOut
  <2>2. /\ \A h \in Get, v \in Worker : Held(h, v)' => Held(h, v) /\ block'[v] = block[v]
    BY <1>1, <1>2 DEF HandsOut, Goto, Held, TypeOK
  <2>3. answers[g] = 0 /\ answers'[g] = 1 /\ \A h \in Get \ {g} : answers'[h] = answers[h]
    BY <1>1, <1>2, AnswerOf DEF HandsOut, Out
  <2>4. \A c \in Block : ~Waits(g, c)'
    <3>1. DOMAIN <<>> = {}
      OBVIOUS
    <3> QED BY <2>1, <3>1, <1>n DEF Waits
  <2>5. \A v \in Worker : ~Held(g, v)'
    BY <1>n, <2>2
  <2>6. wanted' = wanted /\ \A h \in Get : InChan(h)' => InChan(h)
    BY <1>1
  <2>7. \A h \in Get :
            \/ answers'[h] = answers[h]
            \/ /\ Out(h) /\ answers'[h] = 1 /\ ~InChan(h)'
               /\ \A c \in Block : ~Waits(h, c)'
               /\ \A v \in Worker : ~Held(h, v)'
    BY <1>1, <1>n, <2>3, <2>4, <2>5
  <2> QED BY <1>1, <2>1, <2>2, <2>6, <2>7, ApartWhenLeaving
<1>o. ASSUME answers' = answers
      PROVE  /\ \A h \in Get : (Out(h)' <=> Out(h)) /\ (~Called(h)' => answers'[h] = 0)
             /\ AnsweredOnce'
  BY <1>1, <1>o DEF Out, Called, Apart, AnsweredOnce
<1>3. CASE Joins(w, g, b)
  <2>1. PICK slot \in Slot : SetSlot(b, slot) /\ slot.waiting = Append(Waiting(b), g)
    BY <1>3 DEF Joins
  <2>2. /\ Waiting(b)' = Append(Waiting(b), g)
        /\ \A c \in Block \ {b} : Waiting(c)' = Waiting(c)
    BY <2>1, SlotSet
  <2>3. \A h \in Get, v \in Worker : (Held(h, v)' <=> Held(h, v)) /\ block'[v] = block[v]
    BY <1>1, <1>3 DEF Joins, Goto, Held, TypeOK
  <2> DEFINE q == Waiting(b)
             r == Append(q, g)
  <2>4. /\ q \in Seq(Get)
        /\ \A i, j \in DOMAIN q : q[i] = q[j] => i = j
        /\ \A i \in DOMAIN q : q[i] # g
    BY <1>n, WaitingGets DEF Apart, Waits
  <2>5. Waiting(b)' = r
    BY <2>2
  <2>6. /\ \A i, j \in DOMAIN r : r[i] = r[j] => i = j
        /\ \A h : (\E i \in DOMAIN r : r[i] = h) <=> (\E i \in DOMAIN q : q[i] = h) \/ h = g
    BY <2>4, AppendHas
  <2> HIDE DEF q, r
  <2>7. \A h \in Get, c \in Block : Waits(h, c)' <=> Waits(h, c) \/ (h = g /\ c = b)
    BY <2>2, <2>5, <2>6 DEF Waits, q
  <2>8. \A c \in Block : \A i, j \in DOMAIN Waiting(c)' : Waiting(c)'[i] = Waiting(c)'[j] => i = j
    <3> SUFFICES ASSUME NEW c \in Block
                 PROVE \A i, j \in DOMAIN Waiting(c)' : Waiting(c)'[i] = Waiting(c)'[j] => i = j
      OBVIOUS
    <3>1. CASE c = b
      BY <3>1, <2>5, <2>6
    <3>2. CASE c # b
      BY <3>2, <2>2 DEF Apart
    <3> QED BY <3>1, <3>2
  <2>11. /\ \A h \in Get : (Out(h)' <=> Out(h)) /\ (~Called(h)' => answers'[h] = 0)
         /\ AnsweredOnce' /\ wanted' = wanted
    BY <1>1, <1>3, <1>o DEF Joins
  <2>12. \A h \in Get : InChan(h)' =>
            Out(h)' /\ (\A c \in Block : ~Waits(h, c)') /\ (\A v \in Worker : ~Held(h, v)')
    BY <1>1, <2>3, <2>7, <2>11 DEF Apart
  <2>13. \A h \in Get, c \in Block : Waits(h, c)' =>
            Out(h)' /\ wanted'[h] = c /\ (\A v \in Worker : ~Held(h, v)')
    BY <1>1, <1>n, <2>3, <2>7, <2>11 DEF Apart
  <2>14. \A h \in Get, v \in Worker : Held(h, v)' =>
            Out(h)' /\ wanted'[h] = block'[v] /\ (\A u \in Worker : Held(h, u)' => u = v)
    BY <2>3, <2>11 DEF Apart
  <2> QED BY <1>1, <2>8, <2>11, <2>12, <2>13, <2>14 DEF Apart
<1>4. CASE Begins(w, g, b)
  <2>1. Waiting(b)' = <<>> /\ Waiting(b) = <<>> /\ \A c \in Block \ {b} : Waiting(c)' = Waiting(c)
    <3>1. Waiting(b) = <<>>
      BY <1>4 DEF Begins, Waiting, Without, TypeOK
    <3> QED BY <3>1, <1>4, EmptySlot, SlotSet DEF Begins
  <2>2. /\ \A c \in Block : Waiting(c)' = Waiting(c)
        /\ \A h \in Get, c \in Block : Waits(h, c)' <=> Waits(h, c)
    BY <2>1 DEF Waits
  <2>3. /\ \A v \in Worker \ {w} : block'[v] = block[v] /\ \A h \in Get : Held(h, v)' <=> Held(h, v)
        /\ block'[w] = b /\ \A h \in Get : Held(h, w)' <=> h = g
    BY <1>4 DEF Begins, Goto, Held, TypeOK
  <2>4. /\ \A h \in Get : (Out(h)' <=> Out(h)) /\ (~Called(h)' => answers'[h] = 0)
        /\ AnsweredOnce' /\ wanted' = wanted
    BY <1>1, <1>4, <1>o DEF Begins
  <2>5. \A c \in Block : \A i, j \in DOMAIN Waiting(c)' : Waiting(c)'[i] = Waiting(c)'[j] => i = j
    BY <2>2 DEF Apart
  <2>6. \A h \in Get : InChan(h)' =>
            Out(h)' /\ (\A c \in Block : ~Waits(h, c)') /\ (\A v \in Worker : ~Held(h, v)')
    BY <1>1, <2>2, <2>3, <2>4 DEF Apart
  <2>7. \A h \in Get, c \in Block : Waits(h, c)' =>
            Out(h)' /\ wanted'[h] = c /\ (\A v \in Worker : ~Held(h, v)')
    BY <1>n, <2>2, <2>3, <2>4 DEF Apart
  <2>8. \A h \in Get, v \in Worker : Held(h, v)' =>
            Out(h)' /\ wanted'[h] = block'[v] /\ (\A u \in Worker : Held(h, u)' => u = v)
    BY <1>1, <1>n, <2>3, <2>4 DEF Apart
  <2> QED BY <1>1, <2>4, <2>5, <2>6, <2>7, <2>8 DEF Apart
<1> QED BY <1>1, <1>2, <1>3, <1>4

(* What the other steps of a worker do to the slots and the gets.          *)
LEMMA IdleOf ==
    ASSUME TypeOK, NEW w \in Worker, Poll(w) \/ TakeFlush(w) \/ Stop(w)
    PROVE  /\ UNCHANGED <<prefetchBlocks, prefetchMemory, getChan, block, get, wanted, answers,
                          panicked>>
           /\ ~Reads(w) /\ ~Reads(w)' /\ \A v \in Worker \ {w} : pc'[v] = pc[v]
BY DEF Poll, TakeFlush, Stop, Drain, Goto, Reads, TypeOK, chanVars, workVars

Answers(b, g) ==
    /\ IsEntry(b) /\ SetSlot(b, Without("nil"))
    /\ Answer(Waiters(b) \cup {g}) /\ UNCHANGED panicked

LEMMA EndOfFetch ==
    ASSUME TypeOK, NEW w \in Worker, EndFetch(w)
    PROVE  \E b \in Block, g \in Get :
              /\ b = block[w] /\ g = get[w] /\ Held(g, w)
              /\ Done(w) /\ UNCHANGED <<prefetchMemory, chanVars, permit, wanted>>
              /\ Answers(b, g) \/ (~IsEntry(b) /\ UNCHANGED <<prefetchBlocks, answers>>)
<1>1. block[w] \in Block /\ get[w] \in Get
  BY DEF EndFetch, TypeOK
<1>2. /\ Held(get[w], w) /\ Done(w) /\ UNCHANGED <<prefetchMemory, chanVars, permit, wanted>>
      /\ \/ Answers(block[w], get[w])
         \/ ~IsEntry(block[w]) /\ UNCHANGED <<prefetchBlocks, answers>>
  BY DEF EndFetch, Held, IsEntry, Answers
<1> USE <1>1
<1> WITNESS block[w] \in Block, get[w] \in Get
<1> QED BY <1>2

LEMMA PrefetchOf ==
    ASSUME TypeOK, NEW w \in Worker, Prefetch(w)
    PROVE  /\ pc[w] = "wait" /\ permit[w]
           /\ UNCHANGED <<prefetchMemory, getChan, flushChan, closed, permit, get, wanted,
                          answers, panicked>>
           /\ \/ Goto(w, "top") /\ UNCHANGED <<prefetchBlocks, block>>
              \/ \E b \in Block : /\ ~IsEntry(b) /\ SetSlot(b, Without("entry"))
                                  /\ block' = [block EXCEPT ![w] = b] /\ Goto(w, "prefetching")
BY DEF Prefetch, TypeOK, IsEntry

LEMMA ClearOf ==
    ASSUME TypeOK, NEW w \in Worker, Clear(w)
    PROVE  /\ pc[w] \in {"clear", "stop"} /\ UNCHANGED <<chanVars, workVars, wanted, answers, panicked>>
           /\ ~Reads(w) /\ ~Reads(w)' /\ \A v \in Worker \ {w} : pc'[v] = pc[v]
           /\ \A b \in Block : Waiting(b)' = Waiting(b)
           /\ \A b \in Block : IF Waiting(b) = <<>> THEN prefetchBlocks'[b] = Without("absent")
                                                    ELSE prefetchBlocks'[b] = prefetchBlocks[b]
<1>1. /\ pc[w] \in {"clear", "stop"} /\ UNCHANGED <<chanVars, workVars, wanted, answers, panicked>>
      /\ ~Reads(w) /\ ~Reads(w)' /\ \A v \in Worker \ {w} : pc'[v] = pc[v]
  BY DEF Clear, Goto, Reads, TypeOK
<1>2. \A b \in Block : IF Waiting(b) = <<>> THEN prefetchBlocks'[b] = Without("absent")
                                            ELSE prefetchBlocks'[b] = prefetchBlocks[b]
  BY DEF Clear
<1>3. Without("absent").waiting = <<>>
  BY EmptySlot
<1>4. \A b \in Block : Waiting(b)' = Waiting(b)
  BY <1>2, <1>3 DEF Waiting
<1> QED BY <1>1, <1>2, <1>4

LEMMA DoneHolds ==
    ASSUME TypeOK, NEW w \in Worker, Done(w)
    PROVE  /\ ~Reads(w)' /\ \A v \in Worker \ {w} : Reads(v)' <=> Reads(v)
           /\ \A g \in Get : ~Held(g, w)'
           /\ \A g \in Get, v \in Worker : Held(g, v)' => Held(g, v) /\ v # w /\ block'[v] = block[v]
           /\ \A g \in Get, v \in Worker \ {w} : Held(g, v) => Held(g, v)'
BY DoneType DEF Reads, Held

LEMMA ApartRest ==
    ASSUME TypeOK, Apart, AnsweredOnce, NEW w \in Worker,
           Poll(w) \/ EndFetch(w) \/ Prefetch(w) \/ EndPrefetch(w) \/ TakeFlush(w) \/ Stop(w) \/ Clear(w)
    PROVE  Apart' /\ AnsweredOnce'
<1>i. getChan' = getChan =>
          /\ \A i, j \in DOMAIN getChan' : getChan'[i] = getChan'[j] => i = j
          /\ \A g \in Get : InChan(g)' <=> InChan(g)
  BY DEF Apart, InChan
<1>1. CASE Poll(w) \/ TakeFlush(w) \/ Stop(w)
  <2>1. /\ UNCHANGED <<prefetchBlocks, getChan, block, get, wanted, answers>>
        /\ ~Reads(w) /\ ~Reads(w)' /\ \A v \in Worker \ {w} : pc'[v] = pc[v]
    BY <1>1, IdleOf
  <2>2. \A g \in Get, v \in Worker : Held(g, v)' => Held(g, v) /\ block'[v] = block[v]
    BY <2>1 DEF Held, Reads
  <2>3. \A b \in Block : Waiting(b)' = Waiting(b)
    BY <2>1 DEF Waiting
  <2> QED BY <1>i, <2>1, <2>2, <2>3, ApartWhenLeaving
<1>2. CASE EndFetch(w)
  <2>1. PICK b \in Block, g \in Get :
              /\ b = block[w] /\ g = get[w] /\ Held(g, w)
              /\ Done(w) /\ UNCHANGED <<prefetchMemory, chanVars, permit, wanted>>
              /\ Answers(b, g) \/ (~IsEntry(b) /\ UNCHANGED <<prefetchBlocks, answers>>)
    BY <1>2, EndOfFetch
  <2>2. \A h \in Get, v \in Worker : Held(h, v)' => Held(h, v) /\ v # w /\ block'[v] = block[v]
    BY <2>1, DoneHolds
  <2>3. getChan' = getChan /\ wanted' = wanted
    BY <2>1 DEF chanVars
  <2>4. CASE UNCHANGED <<prefetchBlocks, answers>>
    <3>1. \A c \in Block : Waiting(c)' = Waiting(c)
      BY <2>4 DEF Waiting
    <3> QED BY <1>i, <2>2, <2>3, <2>4, <3>1, ApartWhenLeaving
  <2>5. CASE Answers(b, g)
    <3>1. Waiting(b)' = <<>> /\ \A c \in Block \ {b} : Waiting(c)' = Waiting(c)
      BY <2>5, EmptySlot, SlotSet DEF Answers
    <3>2. \A h \in Get : IF Waits(h, b) \/ h = g THEN answers'[h] = answers[h] + 1
                                                 ELSE answers'[h] = answers[h]
      BY <2>5, AnswerOf, WaitingGets DEF Answers
    <3>3. \A h \in Get : Waits(h, b) \/ h = g =>
              /\ Out(h) /\ answers[h] = 0 /\ wanted[h] = b /\ ~InChan(h)
              /\ \A v \in Worker \ {w} : ~Held(h, v)
      BY <2>1 DEF Apart, Out
    <3>4. \A h \in Get : Waits(h, b) \/ h = g =>
              ~InChan(h)' /\ (\A c \in Block : ~Waits(h, c)') /\ \A v \in Worker : ~Held(h, v)'
      <4> SUFFICES ASSUME NEW h \in Get, Waits(h, b) \/ h = g
                   PROVE ~InChan(h)' /\ (\A c \in Block : ~Waits(h, c)') /\ \A v \in Worker : ~Held(h, v)'
        OBVIOUS
      <4>1. ~InChan(h)'
        BY <1>i, <2>3, <3>3
      <4>2. \A v \in Worker : ~Held(h, v)'
        BY <2>2, <3>3
      <4>3. \A c \in Block : Waits(h, c)' => Waits(h, c) /\ c # b
        <5>1. DOMAIN <<>> = {}
          OBVIOUS
        <5> QED BY <3>1, <5>1 DEF Waits
      <4>4. \A c \in Block : ~Waits(h, c)'
        BY <4>3, <3>3, <2>1 DEF Apart
      <4> QED BY <4>1, <4>2, <4>4
    <3>5. \A h \in Get :
            \/ answers'[h] = answers[h]
            \/ /\ Out(h) /\ answers'[h] = 1 /\ ~InChan(h)'
               /\ \A c \in Block : ~Waits(h, c)'
               /\ \A v \in Worker : ~Held(h, v)'
      BY <3>2, <3>3, <3>4
    <3>6. \A c \in Block : Waiting(c)' = Waiting(c) \/ Waiting(c)' = <<>>
      BY <3>1
    <3> QED BY <1>i, <2>2, <2>3, <3>5, <3>6, ApartWhenLeaving
  <2> QED BY <2>1, <2>4, <2>5
<1>3. CASE Prefetch(w)
  <2>1. /\ pc[w] = "wait" /\ UNCHANGED <<getChan, get, wanted, answers>>
        /\ \/ Goto(w, "top") /\ UNCHANGED <<prefetchBlocks, block>>
           \/ \E b \in Block : /\ ~IsEntry(b) /\ SetSlot(b, Without("entry"))
                               /\ block' = [block EXCEPT ![w] = b] /\ Goto(w, "prefetching")
    BY <1>3, PrefetchOf
  <2>2. \A h \in Get, v \in Worker : Held(h, v)' => Held(h, v) /\ block'[v] = block[v]
    <3>1. pc'[w] # "fetching" /\ \A v \in Worker \ {w} : pc'[v] = pc[v] /\ block'[v] = block[v]
      BY <2>1 DEF Goto, TypeOK
    <3> QED BY <2>1, <3>1 DEF Held
  <2>3. \A c \in Block : Waiting(c)' = Waiting(c) \/ Waiting(c)' = <<>>
    <3>1. CASE UNCHANGED prefetchBlocks
      BY <3>1 DEF Waiting
    <3>2. CASE \E b \in Block : SetSlot(b, Without("entry"))
      BY <3>2, EmptySlot, SlotSet
    <3> QED BY <2>1, <3>1, <3>2
  <2> QED BY <1>i, <2>1, <2>2, <2>3, ApartWhenLeaving
<1>4. CASE EndPrefetch(w)
  <2>1. PICK b \in Block :
              /\ pc[w] = "prefetching" /\ b = block[w]
              /\ Done(w) /\ ~panicked' /\ UNCHANGED <<chanVars, permit, wanted>>
              /\ Gone(b) \/ Keeps(b) \/ Serves(b)
    BY <1>4, EndOfPrefetchOf
  <2>2. \A h \in Get, v \in Worker : Held(h, v)' => Held(h, v) /\ v # w /\ block'[v] = block[v]
    BY <2>1, DoneHolds
  <2>3. getChan' = getChan /\ wanted' = wanted
    BY <2>1 DEF chanVars
  <2>4. CASE Gone(b)
    <3>1. answers' = answers /\ \A c \in Block : Waiting(c)' = Waiting(c)
      BY <2>4 DEF Gone, Waiting
    <3> QED BY <1>i, <2>2, <2>3, <3>1, ApartWhenLeaving
  <2>5. CASE Keeps(b)
    <3>1. answers' = answers /\ \A c \in Block : Waiting(c)' = Waiting(c) \/ Waiting(c)' = <<>>
      BY <2>1, <2>5, SlotSet DEF Keeps
    <3> QED BY <1>i, <2>2, <2>3, <3>1, ApartWhenLeaving
  <2>6. CASE Serves(b)
    <3>1. Waiting(b)' = <<>> /\ \A c \in Block \ {b} : Waiting(c)' = Waiting(c)
      BY <2>1, <2>6, EmptySlot, SlotSet DEF Serves
    <3>2. \A h \in Get : answers'[h] = answers[h] \/ (Waits(h, b) /\ answers'[h] = answers[h] + 1)
      BY <2>6 DEF Serves
    <3>3. \A h \in Get : Waits(h, b) =>
              /\ Out(h) /\ answers[h] = 0 /\ ~InChan(h)'
              /\ (\A c \in Block : ~Waits(h, c)') /\ \A v \in Worker : ~Held(h, v)'
      <4> SUFFICES ASSUME NEW h \in Get, Waits(h, b)
                   PROVE /\ Out(h) /\ answers[h] = 0 /\ ~InChan(h)'
                         /\ (\A c \in Block : ~Waits(h, c)') /\ \A v \in Worker : ~Held(h, v)'
        OBVIOUS
      <4>1. Out(h) /\ answers[h] = 0 /\ wanted[h] = b /\ ~InChan(h) /\ \A v \in Worker : ~Held(h, v)
        BY <2>1 DEF Apart, Out
      <4>2. \A c \in Block : Waits(h, c)' => Waits(h, c) /\ c # b
        <5>1. DOMAIN <<>> = {}
          OBVIOUS
        <5> QED BY <3>1, <5>1 DEF Waits
      <4>3. \A c \in Block : ~Waits(h, c)'
        BY <4>1, <4>2, <2>1 DEF Apart
      <4> QED BY <1>i, <2>2, <2>3, <4>1, <4>3
    <3>4. \A h \in Get :
            \/ answers'[h] = answers[h]
            \/ /\ Out(h) /\ answers'[h] = 1 /\ ~InChan(h)'
               /\ \A c \in Block : ~Waits(h, c)'
               /\ \A v \in Worker : ~Held(h, v)'
      BY <3>2, <3>3
    <3>5. \A c \in Block : Waiting(c)' = Waiting(c) \/ Waiting(c)' = <<>>
      BY <3>1
    <3> QED BY <1>i, <2>2, <2>3, <3>4, <3>5, ApartWhenLeaving
  <2> QED BY <2>1, <2>4, <2>5, <2>6
<1>5. CASE Clear(w)
  <2>1. /\ UNCHANGED <<chanVars, workVars, wanted, answers>>
        /\ ~Reads(w) /\ ~Reads(w)' /\ \A v \in Worker \ {w} : pc'[v] = pc[v]
        /\ \A b \in Block : Waiting(b)' = Waiting(b)
    BY <1>5, ClearOf
  <2>2. \A g \in Get, v \in Worker : Held(g, v)' => Held(g, v) /\ block'[v] = block[v]
    BY <2>1 DEF Held, Reads, workVars
  <2>3. getChan' = getChan
    BY <2>1 DEF chanVars
  <2> QED BY <1>i, <2>1, <2>2, <2>3, ApartWhenLeaving
<1> QED BY <1>1, <1>2, <1>3, <1>4, <1>5

LEMMA ApartNext ==
    ASSUME TypeOK, Apart, AnsweredOnce, Attended, [Next]_vars
    PROVE  Apart' /\ AnsweredOnce'
<1>1. CASE UNCHANGED vars
  BY <1>1 DEF vars, chanVars, workVars, Apart, AnsweredOnce, InChan, Waits, Waiting, Held, Out, Called
<1> QED BY <1>1, ApartCalls, ApartFetch, ApartRest DEF Next, Work

-------------------------------------------------------------------------------
(* Who comes back to the entries                                           *)

(* The readers that step from their read leave no entry of their block     *)
(* behind, and the rest is as it was.                                      *)
LEMMA AttendedWhen ==
    ASSUME Attended,
           \A b \in Block :
               \/ /\ prefetchBlocks'[b] = prefetchBlocks[b]
                  /\ IsEntry(b) => \A v \in Worker : Reads(v) /\ block[v] = b => Reads(v)' /\ block'[v] = b
               \/ Attends(b)'
    PROVE  Attended'
<1> SUFFICES ASSUME NEW b \in Block PROVE Attends(b)'
  BY DEF Attended
<1>1. CASE /\ prefetchBlocks'[b] = prefetchBlocks[b]
           /\ IsEntry(b) => \A v \in Worker : Reads(v) /\ block[v] = b => Reads(v)' /\ block'[v] = b
  BY <1>1 DEF Attended, Attends, IsEntry, Waiting
<1> QED BY <1>1

LEMMA AttendsNone ==
    ASSUME NEW b \in Block, NEW is \in {"absent", "nil"}, prefetchBlocks'[b] = Without(is)
    PROVE  Attends(b)'
BY EmptySlot DEF Attends, IsEntry

LEMMA AttendsNew ==
    ASSUME NEW b \in Block, prefetchBlocks'[b] = Without("entry"),
           NEW w \in Worker, Reads(w)', block'[w] = b
    PROVE  Attends(b)'
<1>1. ~Without("entry").stored /\ ~Without("entry").err
  BY EmptySlot
<1> QED BY <1>1 DEF Attends

LEMMA AttendedNext ==
    ASSUME TypeOK, Apart, Attended, [Next]_vars
    PROVE  Attended'
<1>1. ASSUME UNCHANGED <<prefetchBlocks, pc, block>> PROVE Attended'
  BY <1>1 DEF Attended, Attends, IsEntry, Waiting, Reads
<1>2. CASE UNCHANGED vars
  BY <1>1, <1>2 DEF vars, workVars
<1>3. CASE Call
  <2>1. UNCHANGED <<prefetchBlocks, pc, block>>
    BY <1>3 DEF Call, GetStoredBlock, Preflight, Flush, Close, workVars
  <2> QED BY <1>1, <2>1
<1>4. ASSUME NEW w \in Worker, Fetch(w) PROVE Attended'
  <2>1. PICK g \in Get, b \in Block :
              /\ pc[w] \in {"top", "wait"}
              /\ HandsOut(w, g, b) \/ Joins(w, g, b) \/ Begins(w, g, b)
    BY <1>4, FetchOf
  <2>2. /\ \A c \in Block \ {b} : prefetchBlocks'[c] = prefetchBlocks[c]
    BY <2>1, EmptySlot, SlotSet DEF HandsOut, Joins, Begins
  <2>3. \A v \in Worker : Reads(v) => Reads(v)' /\ block'[v] = block[v]
    BY <2>1 DEF HandsOut, Joins, Begins, Goto, Reads, TypeOK
  <2>4. Attends(b)'
    <3>1. CASE HandsOut(w, g, b)
      BY <3>1, EmptySlot, SlotSet, AttendsNone DEF HandsOut
    <3>2. CASE Joins(w, g, b)
      <4>1. PICK v \in Worker : Reads(v) /\ block[v] = b
        BY <3>2 DEF Joins, Attended, Attends
      <4>2. PICK slot \in Slot : SetSlot(b, slot) /\ ~slot.stored /\ ~slot.err
        BY <3>2 DEF Joins
      <4>3. prefetchBlocks'[b] = slot
        BY <4>2, SlotSet
      <4> QED BY <4>1, <4>2, <4>3, <2>3 DEF Attends
    <3>3. CASE Begins(w, g, b)
      <4>1. prefetchBlocks'[b] = Without("entry")
        BY <3>3, EmptySlot, SlotSet DEF Begins
      <4>2. Reads(w)' /\ block'[w] = b
        BY <3>3 DEF Begins, Goto, Reads, TypeOK
      <4> QED BY <4>1, <4>2, AttendsNew
    <3> QED BY <2>1, <3>1, <3>2, <3>3
  <2> QED BY <2>2, <2>3, <2>4, AttendedWhen
<1>5. ASSUME NEW w \in Worker, EndFetch(w) PROVE Attended'
  <2>1. PICK b \in Block, g \in Get :
              /\ b = block[w] /\ Done(w)
              /\ Answers(b, g) \/ (~IsEntry(b) /\ UNCHANGED <<prefetchBlocks, answers>>)
    BY <1>5, EndOfFetch
  <2>2. \A v \in Worker : Reads(v) /\ block[v] # b => Reads(v)' /\ block'[v] = block[v]
    BY <2>1, DoneHolds, DoneType
  <2>3. \A c \in Block \ {b} : prefetchBlocks'[c] = prefetchBlocks[c]
    BY <2>1, EmptySlot, SlotSet DEF Answers
  <2>4. (prefetchBlocks'[b] = prefetchBlocks[b] /\ ~IsEntry(b)) \/ Attends(b)'
    BY <2>1, EmptySlot, SlotSet, AttendsNone DEF Answers
  <2> QED BY <2>2, <2>3, <2>4, AttendedWhen
<1>6. ASSUME NEW w \in Worker, EndPrefetch(w) PROVE Attended'
  <2>1. PICK b \in Block :
              /\ b = block[w] /\ Done(w)
              /\ Gone(b) \/ Keeps(b) \/ Serves(b)
    BY <1>6, EndOfPrefetchOf
  <2>2. \A v \in Worker : Reads(v) /\ block[v] # b => Reads(v)' /\ block'[v] = block[v]
    BY <2>1, DoneHolds, DoneType
  <2>3. \A c \in Block \ {b} : prefetchBlocks'[c] = prefetchBlocks[c]
    BY <2>1, EmptySlot, SlotSet DEF Gone, Keeps, Serves
  <2>4. (prefetchBlocks'[b] = prefetchBlocks[b] /\ ~IsEntry(b)) \/ Attends(b)'
    <3>1. CASE Gone(b)
      BY <3>1 DEF Gone
    <3>2. CASE Keeps(b)
      <4>1. PICK slot \in Slot :
                SetSlot(b, slot) /\ slot.waiting = <<>> /\ (slot.stored \/ slot.err)
        BY <3>2 DEF Keeps
      <4>2. prefetchBlocks'[b] = slot /\ Waiting(b)' = <<>>
        BY <4>1, SlotSet
      <4> QED BY <4>1, <4>2 DEF Attends
    <3>3. CASE Serves(b)
      BY <3>3, EmptySlot, SlotSet, AttendsNone DEF Serves
    <3> QED BY <2>1, <3>1, <3>2, <3>3
  <2> QED BY <2>2, <2>3, <2>4, AttendedWhen
<1>7. ASSUME NEW w \in Worker, Prefetch(w) PROVE Attended'
  <2>1. /\ pc[w] = "wait"
        /\ \/ Goto(w, "top") /\ UNCHANGED <<prefetchBlocks, block>>
           \/ \E b \in Block : /\ ~IsEntry(b) /\ SetSlot(b, Without("entry"))
                               /\ block' = [block EXCEPT ![w] = b] /\ Goto(w, "prefetching")
    BY <1>7, PrefetchOf
  <2>2. \A v \in Worker : Reads(v) => Reads(v)' /\ block'[v] = block[v]
    BY <2>1 DEF Goto, Reads, TypeOK
  <2>3. CASE UNCHANGED prefetchBlocks
    BY <2>2, <2>3, AttendedWhen
  <2>4. ASSUME NEW b \in Block, SetSlot(b, Without("entry")),
               block' = [block EXCEPT ![w] = b], Goto(w, "prefetching")
        PROVE  Attended'
    <3>1. /\ prefetchBlocks'[b] = Without("entry")
          /\ \A c \in Block \ {b} : prefetchBlocks'[c] = prefetchBlocks[c]
      BY <2>4, EmptySlot, SlotSet
    <3>2. Reads(w)' /\ block'[w] = b
      BY <2>4 DEF Goto, Reads, TypeOK
    <3>3. Attends(b)'
      BY <3>1, <3>2, AttendsNew
    <3> QED BY <2>2, <3>1, <3>3, AttendedWhen
  <2> QED BY <2>1, <2>3, <2>4
<1>8. ASSUME NEW w \in Worker, Poll(w) \/ TakeFlush(w) \/ Stop(w) PROVE Attended'
  <2>1. /\ UNCHANGED <<prefetchBlocks, block>>
        /\ ~Reads(w) /\ \A v \in Worker \ {w} : pc'[v] = pc[v]
    BY <1>8, IdleOf
  <2>2. \A v \in Worker : Reads(v) => Reads(v)' /\ block'[v] = block[v]
    BY <2>1 DEF Reads
  <2> QED BY <2>1, <2>2, AttendedWhen
<1>9. ASSUME NEW w \in Worker, Clear(w) PROVE Attended'
  <2>1. /\ UNCHANGED workVars /\ ~Reads(w) /\ \A v \in Worker \ {w} : pc'[v] = pc[v]
        /\ \A b \in Block : \/ prefetchBlocks'[b] = Without("absent")
                            \/ prefetchBlocks'[b] = prefetchBlocks[b]
    BY <1>9, ClearOf
  <2>2. \A v \in Worker : Reads(v) => Reads(v)' /\ block'[v] = block[v]
    BY <2>1 DEF Reads, workVars
  <2> QED BY <2>1, <2>2, AttendsNone, AttendedWhen
<1> QED BY <1>2, <1>3, <1>4, <1>5, <1>6, <1>7, <1>8, <1>9 DEF Next, Work

-------------------------------------------------------------------------------
(* Gets of quiet callers                                                   *)

(* Nothing that a get of block c depends on changes.                       *)
LEMMA PlacedStays ==
    ASSUME TypeOK, Apart, NEW g \in Get, NEW c \in Block, Out(g), wanted[g] = c, Placed(g),
           InChan(g) => InChan(g)',
           \A v \in Worker : Reads(v) /\ block[v] = c =>
               pc'[v] = pc[v] /\ block'[v] = block[v] /\ get'[v] = get[v],
           prefetchBlocks'[c] = prefetchBlocks[c]
    PROVE  Placed(g)'
<1>1. Waiting(c)' = Waiting(c) /\ (IsEntry(c)' <=> IsEntry(c)) /\ (Waits(g, c)' <=> Waits(g, c))
  BY DEF Waiting, IsEntry, Waits
<1>2. CASE InChan(g)
  BY <1>2 DEF Placed
<1>3. ASSUME NEW v \in Worker, Held(g, v), IsEntry(block[v]) PROVE Placed(g)'
  <2>1. block[v] = c /\ Reads(v)
    BY <1>3 DEF Apart, Held, Reads
  <2>2. block'[v] = c /\ Held(g, v)' /\ IsEntry(c)
    BY <1>3, <2>1 DEF Held
  <2> QED BY <2>2, <1>1 DEF Placed, IsEntry
<1>4. ASSUME NEW v \in Worker, Reads(v), Waits(g, block[v]) PROVE Placed(g)'
  <2>1. block[v] \in Block
    BY <1>4 DEF TypeOK, Reads
  <2>2. block[v] = c
    BY <1>4, <2>1 DEF Apart
  <2>3. block'[v] = c /\ Reads(v)' /\ Waits(g, c)
    BY <1>4, <2>2 DEF Reads
  <2> QED BY <2>3, <1>1 DEF Placed, Waits, Waiting
<1> QED BY <1>2, <1>3, <1>4 DEF Placed

(* No read is under way for its block, or only one that has ended.         *)
LEMMA NotServed ==
    ASSUME TypeOK, Apart, NEW g \in Get, NEW c \in Block, wanted[g] = c, Placed(g), ~IsEntry(c)
    PROVE  InChan(g)
<1>1. Waiting(c) = <<>>
  BY DEF TypeOK, Waiting, Without
<1>2. ASSUME NEW v \in Worker, Held(g, v), IsEntry(block[v]) PROVE FALSE
  BY <1>2 DEF Apart
<1>3. ASSUME NEW v \in Worker, Reads(v), Waits(g, block[v]) PROVE FALSE
  <2>1. block[v] \in Block
    BY <1>3 DEF TypeOK, Reads
  <2>2. Waits(g, c)
    BY <1>3, <2>1 DEF Apart
  <2>3. DOMAIN <<>> = {}
    OBVIOUS
  <2> QED BY <2>2, <2>3, <1>1 DEF Waits
<1> QED BY <1>2, <1>3 DEF Placed

(* A step of a worker: who is out still was, and has a place.              *)
LEMMA KeptWhen ==
    ASSUME Kept, UNCHANGED <<callers, wanted>>,
           Quiet => /\ ~panicked'
                    /\ (Flushing \/ closed)' => Flushing \/ closed
                    /\ \A g \in Get : Out(g)' => Out(g) /\ Placed(g)'
    PROVE  Kept'
BY DEF Kept, Quiet

LEMMA NoFlush ==
    ASSUME NEW w \in Worker, flushChan' = flushChan, closed' = closed,
           pc'[w] \notin {"clear", "stop"}, \A v \in Worker \ {w} : pc'[v] = pc[v]
    PROVE  (Flushing \/ closed)' => Flushing \/ closed
BY DEF Flushing

LEMMA KeptCalls ==
    ASSUME TypeOK, Apart, Kept, Call
    PROVE  Kept'
<1>q. ~panicked /\ UNCHANGED callers
  BY DEF Call
<1>1. ASSUME NEW g \in Get, NEW b \in Block, GetStoredBlock(g, b) PROVE Kept'
  <2>1. /\ ~Called(g) /\ ~closed /\ wanted' = [wanted EXCEPT ![g] = b]
        /\ getChan' = Append(getChan, g)
        /\ UNCHANGED <<prefetchBlocks, flushChan, closed, pc, block, get, answers, panicked>>
    BY <1>1 DEF GetStoredBlock, workVars
  <2> SUFFICES ASSUME Quiet
               PROVE  /\ ~Flushing' /\ ~closed'
                      /\ \A h, k \in Get : Out(h)' /\ Out(k)' /\ wanted'[h] = wanted'[k] => h = k
                      /\ \A h \in Get : Out(h)' => Placed(h)'
    BY <1>q, <2>1 DEF Kept, Quiet
  <2>2. ~Flushing /\ \A h \in Get : Out(h) => wanted[h] # b
    BY <1>1 DEF GetStoredBlock
  <2>3. ~Flushing' /\ ~closed'
    BY <2>1, <2>2 DEF Flushing
  <2>4. wanted'[g] = b /\ \A h \in Get \ {g} : (Out(h)' <=> Out(h)) /\ wanted'[h] = wanted[h]
    BY <2>1 DEF Out, Called, TypeOK
  <2>5. \A h, k \in Get : Out(h)' /\ Out(k)' /\ wanted'[h] = wanted'[k] => h = k
    BY <2>2, <2>4 DEF Kept
  <2>6. \A h \in Get : InChan(h)' <=> InChan(h) \/ h = g
    <3>1. getChan \in Seq(Get)
      BY DEF TypeOK
    <3> QED BY <2>1, <3>1, AppendHas DEF InChan
  <2>7. ASSUME NEW h \in Get, Out(h)' PROVE Placed(h)'
    <3>1. CASE h = g
      BY <3>1, <2>6 DEF Placed
    <3>2. CASE h # g
      <4>1. Out(h) /\ Placed(h) /\ wanted[h] \in Block
        BY <2>4, <2>7, <3>2 DEF Kept, Out, Called, TypeOK
      <4> QED BY <4>1, <2>1, <2>6, PlacedStays
    <3> QED BY <3>1, <3>2
  <2> QED BY <2>3, <2>5, <2>7
<1>2. ASSUME NEW b \in Block, Preflight(b) PROVE Kept'
  BY <1>2, <1>q DEF Preflight, Kept, Quiet, Flushing, Out, Called, Placed, InChan, Waits, Waiting,
     Held, Reads, IsEntry, workVars
<1>3. ASSUME Flush \/ Close PROVE Kept'
  <2>1. MayFlush /\ UNCHANGED <<wanted, answers, panicked>>
    BY <1>3 DEF Flush, Close
  <2>2. Quiet => \A g \in Get : ~Out(g)'
    BY <2>1 DEF MayFlush, Out, Called
  <2> QED BY <1>q, <2>1, <2>2 DEF Kept, Quiet
<1> QED BY <1>1, <1>2, <1>3 DEF Call

LEMMA KeptFetch ==
    ASSUME TypeOK, Apart, Attended, Kept, UNCHANGED callers, ~panicked, NEW w \in Worker, Fetch(w)
    PROVE  Kept'
<1>1. PICK g \in Get, b \in Block :
              /\ pc[w] \in {"top", "wait"} /\ InChan(g) /\ Out(g) /\ wanted[g] = b
              /\ \A h \in Get : InChan(h)' <=> InChan(h) /\ h # g
              /\ UNCHANGED <<flushChan, closed, wanted, panicked>>
              /\ HandsOut(w, g, b) \/ Joins(w, g, b) \/ Begins(w, g, b)
  BY FetchOf
<1>2. /\ pc'[w] \in {"top", "fetching"}
      /\ \A v \in Worker \ {w} : pc'[v] = pc[v] /\ block'[v] = block[v] /\ get'[v] = get[v]
  BY <1>1 DEF HandsOut, Joins, Begins, Goto, TypeOK
<1>3. (Flushing \/ closed)' => Flushing \/ closed
  BY <1>1, <1>2, NoFlush
<1>4. \A h \in Get : \/ answers'[h] = answers[h]
                     \/ h = g /\ answers'[h] = answers[h] + 1
  BY <1>1, AnswerOf DEF HandsOut, Joins, Begins
<1>5. \A h \in Get : Out(h)' => Out(h)
  BY <1>1, <1>4 DEF Out, Called, TypeOK
<1>6. \A c \in Block \ {b} : prefetchBlocks'[c] = prefetchBlocks[c]
  BY <1>1, EmptySlot, SlotSet DEF HandsOut, Joins, Begins
<1>7. ASSUME Quiet, NEW h \in Get, Out(h)' PROVE Placed(h)'
  <2>1. Out(h) /\ Placed(h) /\ wanted[h] \in Block
    BY <1>5, <1>7 DEF Kept, Out, Called, TypeOK
  <2>2. CASE h # g
    <3>1. PICK c \in Block : wanted[h] = c
      BY <2>1
    <3>2. c # b
      BY <1>1, <1>7, <2>1, <2>2, <3>1 DEF Kept
    <3>3. \A v \in Worker : Reads(v) => v # w
      BY <1>1 DEF Reads
    <3> QED BY <1>1, <1>2, <1>6, <2>1, <2>2, <3>1, <3>2, <3>3, PlacedStays
  <2>3. CASE h = g
    <3>1. CASE HandsOut(w, g, b)
      BY <1>1, <1>7, <2>3, <3>1, AnswerOf DEF HandsOut, Out
    <3>2. CASE Joins(w, g, b)
      <4>1. PICK v \in Worker : Reads(v) /\ block[v] = b
        BY <3>2 DEF Joins, Attended, Attends
      <4>2. Reads(v)' /\ block'[v] = b
        BY <1>1, <1>2, <4>1 DEF Reads
      <4>3. Waits(g, b)'
        <5>1. PICK slot \in Slot : SetSlot(b, slot) /\ slot.waiting = Append(Waiting(b), g)
          BY <3>2 DEF Joins
        <5>2. Waiting(b)' = Append(Waiting(b), g) /\ Waiting(b) \in Seq(Get)
          BY <5>1, SlotSet, WaitingGets
        <5> QED BY <5>2, AppendHas DEF Waits
      <4> QED BY <4>2, <4>3, <2>3 DEF Placed, Waits, Waiting
    <3>3. CASE Begins(w, g, b)
      <4>1. Held(g, w)' /\ block'[w] = b
        BY <3>3 DEF Begins, Goto, Held, TypeOK
      <4>2. prefetchBlocks'[b].is = "entry"
        BY <3>3, EmptySlot, SlotSet DEF Begins
      <4> QED BY <4>1, <4>2, <2>3 DEF Placed, IsEntry
    <3> QED BY <1>1, <3>1, <3>2, <3>3
  <2> QED BY <2>2, <2>3
<1> QED BY <1>1, <1>3, <1>5, <1>7, KeptWhen

(* A quiet caller's own read finds its entry: no flush came between.       *)
LEMMA KeptEndFetch ==
    ASSUME TypeOK, Apart, Kept, UNCHANGED callers, ~panicked, NEW w \in Worker, EndFetch(w)
    PROVE  Kept'
<1>1. PICK b \in Block, g \in Get :
              /\ b = block[w] /\ g = get[w] /\ Held(g, w)
              /\ Done(w) /\ UNCHANGED <<prefetchMemory, chanVars, permit, wanted>>
              /\ Answers(b, g) \/ (~IsEntry(b) /\ UNCHANGED <<prefetchBlocks, answers>>)
  BY EndOfFetch
<1>2. /\ pc'[w] = "top"
      /\ \A v \in Worker \ {w} : pc'[v] = pc[v] /\ block'[v] = block[v] /\ get'[v] = get[v]
  BY <1>1, DoneType
<1>3. (Flushing \/ closed)' => Flushing \/ closed
  BY <1>1, <1>2, NoFlush DEF chanVars
<1>4. Out(g) /\ wanted[g] = b /\ ~InChan(g) /\ (\A c \in Block : ~Waits(g, c))
      /\ \A v \in Worker : Held(g, v) => v = w
  BY <1>1 DEF Apart
<1>5. ASSUME Quiet PROVE Answers(b, g)
  <2>1. Placed(g)
    BY <1>4, <1>5 DEF Kept
  <2>2. IsEntry(b)
    BY <2>1, <1>1, <1>4, NotServed
  <2> QED BY <2>2, <1>1
<1>6. \A h \in Get : Out(h)' => Out(h)
  BY <1>1, AnswerOf DEF Out, Called, TypeOK, Answers
<1>7. ASSUME Quiet, NEW h \in Get, Out(h)' PROVE Placed(h)'
  <2>1. Out(h) /\ Placed(h) /\ wanted[h] \in Block
    BY <1>6, <1>7 DEF Kept, Out, Called, TypeOK
  <2>2. answers'[g] = answers[g] + 1
    BY <1>5, <1>7, AnswerOf DEF Answers
  <2>3. h # g
    BY <1>4, <1>7, <2>2 DEF Out
  <2>4. PICK c \in Block : wanted[h] = c
    BY <2>1
  <2>5. c # b
    BY <1>4, <1>7, <2>1, <2>3, <2>4 DEF Kept
  <2>6. prefetchBlocks'[c] = prefetchBlocks[c]
    BY <1>5, <1>7, <2>5, EmptySlot, SlotSet DEF Answers
  <2>7. InChan(h) => InChan(h)'
    BY <1>1 DEF chanVars, InChan
  <2> QED BY <1>1, <1>2, <2>1, <2>4, <2>5, <2>6, <2>7, PlacedStays
<1>8. Quiet => ~panicked'
  BY <1>5 DEF Answers
<1>9. UNCHANGED wanted
  BY <1>1
<1> QED BY <1>3, <1>6, <1>7, <1>8, <1>9, KeptWhen

LEMMA KeptEndPrefetch ==
    ASSUME TypeOK, Apart, Kept, UNCHANGED callers, ~panicked, NEW w \in Worker, EndPrefetch(w)
    PROVE  Kept'
<1>1. PICK b \in Block :
              /\ pc[w] = "prefetching" /\ b = block[w]
              /\ Done(w) /\ ~panicked' /\ UNCHANGED <<chanVars, permit, wanted>>
              /\ Gone(b) \/ Keeps(b) \/ Serves(b)
  BY EndOfPrefetchOf
<1>2. /\ pc'[w] = "top"
      /\ \A v \in Worker \ {w} : pc'[v] = pc[v] /\ block'[v] = block[v] /\ get'[v] = get[v]
  BY <1>1, DoneType
<1>3. (Flushing \/ closed)' => Flushing \/ closed
  BY <1>1, <1>2, NoFlush DEF chanVars
<1>4. \A h \in Get : Out(h)' => Out(h)
  BY <1>1 DEF Out, Called, TypeOK, Gone, Keeps, Serves
<1>5. \A h \in Get : InChan(h) => InChan(h)'
  BY <1>1 DEF chanVars, InChan
<1>6. \A c \in Block \ {b} : prefetchBlocks'[c] = prefetchBlocks[c]
  BY <1>1, EmptySlot, SlotSet DEF Gone, Keeps, Serves
<1>7. ASSUME Quiet, NEW h \in Get, Out(h)' PROVE Placed(h)'
  <2>1. Out(h) /\ Placed(h) /\ wanted[h] \in Block
    BY <1>4, <1>7 DEF Kept, Out, Called, TypeOK
  <2>2. PICK c \in Block : wanted[h] = c
    BY <2>1
  <2>3. CASE c # b
    BY <1>1, <1>2, <1>5, <1>6, <2>1, <2>2, <2>3, PlacedStays
  <2>4. CASE c = b /\ Gone(b)
    <3>1. InChan(h)
      BY <2>1, <2>2, <2>4, NotServed DEF Gone
    <3> QED BY <3>1, <1>5 DEF Placed
  <2>5. CASE c = b /\ Keeps(b)
    <3>1. ~Waits(h, b)
      <4>1. DOMAIN <<>> = {}
        OBVIOUS
      <4> QED BY <2>5, <4>1 DEF Keeps, Waits
    <3>2. CASE InChan(h)
      BY <3>2, <1>5 DEF Placed
    <3>3. ASSUME NEW v \in Worker, Held(h, v), IsEntry(block[v]) PROVE Placed(h)'
      <4>1. block[v] = b /\ v # w
        BY <3>3, <1>1, <2>2, <2>5 DEF Apart, Held
      <4>2. block'[v] = b /\ Held(h, v)'
        BY <3>3, <4>1, <1>2 DEF Held
      <4>3. prefetchBlocks'[b].is = "entry"
        BY <2>5, SlotSet DEF Keeps
      <4> QED BY <4>2, <4>3 DEF Placed, IsEntry
    <3>4. ASSUME NEW v \in Worker, Reads(v), Waits(h, block[v]) PROVE FALSE
      <4>1. block[v] \in Block
        BY <3>4 DEF TypeOK, Reads
      <4>2. block[v] = b
        BY <3>4, <4>1, <2>2, <2>5 DEF Apart
      <4> QED BY <3>1, <3>4, <4>2
    <3> QED BY <2>1, <3>2, <3>3, <3>4 DEF Placed
  <2>6. CASE c = b /\ Serves(b)
    <3>1. PICK k \in Get : Waits(k, b) /\ answers'[k] = answers[k] + 1
      BY <2>6 DEF Serves
    <3>2. Out(k) /\ wanted[k] = b
      BY <3>1 DEF Apart
    <3>3. k = h
      BY <3>2, <2>1, <2>2, <2>6, <1>7 DEF Kept
    <3> QED BY <3>1, <3>2, <3>3, <1>7 DEF Out
  <2> QED BY <1>1, <2>3, <2>4, <2>5, <2>6
<1> QED BY <1>1, <1>3, <1>4, <1>7, KeptWhen

LEMMA KeptPrefetch ==
    ASSUME TypeOK, Apart, Kept, UNCHANGED callers, ~panicked, NEW w \in Worker, Prefetch(w)
    PROVE  Kept'
<1>1. /\ pc[w] = "wait"
      /\ UNCHANGED <<getChan, flushChan, closed, get, wanted, answers, panicked>>
      /\ \/ Goto(w, "top") /\ UNCHANGED <<prefetchBlocks, block>>
         \/ \E b \in Block : /\ ~IsEntry(b) /\ SetSlot(b, Without("entry"))
                             /\ block' = [block EXCEPT ![w] = b] /\ Goto(w, "prefetching")
  BY PrefetchOf
<1>2. /\ pc'[w] \in {"top", "prefetching"} /\ ~Reads(w)
      /\ \A v \in Worker \ {w} : pc'[v] = pc[v] /\ block'[v] = block[v] /\ get'[v] = get[v]
  BY <1>1 DEF Goto, TypeOK, Reads
<1>3. (Flushing \/ closed)' => Flushing \/ closed
  BY <1>1, <1>2, NoFlush
<1>4. \A h \in Get : Out(h)' => Out(h)
  BY <1>1 DEF Out, Called
<1>5. ASSUME Quiet, NEW h \in Get, Out(h)' PROVE Placed(h)'
  <2>1. Out(h) /\ Placed(h) /\ wanted[h] \in Block
    BY <1>4, <1>5 DEF Kept, Out, Called, TypeOK
  <2>2. PICK c \in Block : wanted[h] = c
    BY <2>1
  <2>3. InChan(h) => InChan(h)'
    BY <1>1 DEF InChan
  <2>4. CASE prefetchBlocks'[c] = prefetchBlocks[c]
    BY <1>2, <2>1, <2>2, <2>3, <2>4, PlacedStays
  <2>5. ASSUME NEW b \in Block, ~IsEntry(b), SetSlot(b, Without("entry")) PROVE Placed(h)'
    <3>1. CASE c # b
      BY <2>4, <2>5, <3>1, EmptySlot, SlotSet
    <3>2. CASE c = b
      <4>1. InChan(h)
        BY <2>1, <2>2, <2>5, <3>2, NotServed
      <4> QED BY <4>1, <2>3 DEF Placed
    <3> QED BY <3>1, <3>2
  <2> QED BY <1>1, <2>4, <2>5
<1>6. wanted' = wanted /\ ~panicked'
  BY <1>1
<1> QED BY <1>3, <1>4, <1>5, <1>6, KeptWhen

LEMMA KeptIdle ==
    ASSUME TypeOK, Apart, Kept, UNCHANGED callers, ~panicked, NEW w \in Worker,
           Poll(w) \/ TakeFlush(w) \/ Stop(w) \/ Clear(w)
    PROVE  Kept'
<1>1. CASE Poll(w)
  <2>1. /\ UNCHANGED <<prefetchBlocks, getChan, block, get, wanted, answers, panicked>>
        /\ ~Reads(w) /\ \A v \in Worker \ {w} : pc'[v] = pc[v]
    BY <1>1, IdleOf
  <2>2. flushChan' = flushChan /\ closed' = closed /\ pc'[w] = "wait"
    BY <1>1 DEF Poll, chanVars, Goto, TypeOK
  <2>3. (Flushing \/ closed)' => Flushing \/ closed
    BY <2>1, <2>2, NoFlush
  <2>4. ASSUME Quiet, NEW h \in Get, Out(h)' PROVE Out(h) /\ Placed(h)'
    <3>1. Out(h) /\ Placed(h) /\ wanted[h] \in Block
      BY <2>1, <2>4 DEF Kept, Out, Called, TypeOK
    <3>2. InChan(h) => InChan(h)'
      BY <2>1 DEF InChan
    <3> QED BY <2>1, <3>1, <3>2, PlacedStays
  <2> QED BY <2>1, <2>3, <2>4, KeptWhen
<1>2. CASE TakeFlush(w) \/ Stop(w) \/ Clear(w)
  <2>1. UNCHANGED <<wanted, answers, panicked>>
    BY <1>2, IdleOf, ClearOf
  <2>2. Flushing \/ closed
    BY <1>2 DEF TakeFlush, Stop, Clear, Flushing
  <2>3. Quiet => \A h \in Get : ~Out(h)'
    BY <2>1, <2>2 DEF Kept, Out, Called
  <2> QED BY <2>1, <2>2, <2>3, KeptWhen
<1> QED BY <1>1, <1>2

LEMMA KeptNext ==
    ASSUME TypeOK, Apart, Attended, Kept, [Next]_vars
    PROVE  Kept'
<1>1. CASE UNCHANGED vars
  BY <1>1 DEF vars, chanVars, workVars, Kept, Quiet, Flushing, Out, Called, Placed, InChan, Waits,
     Waiting, Held, Reads, IsEntry
<1> QED BY <1>1, KeptCalls, KeptFetch, KeptEndFetch, KeptEndPrefetch, KeptPrefetch, KeptIdle
        DEF Next, Work

-------------------------------------------------------------------------------
(* What prefetchMemory counts                                              *)

LEMMA AddingFinite ==
    /\ Adding \in SUBSET Worker /\ IsFiniteSet(Adding) /\ Cardinality(Adding) \in Nat
    /\ Cardinality(Worker) \in Nat
<1>1. Adding \in SUBSET Worker
  BY DEF Adding
<1>2. IsFiniteSet(Worker)
  BY PrefetchAssumption
<1> QED BY <1>1, <1>2, FS_Subset, FS_CardinalityType

(* A step that adds nothing: nobody new has seen room.                     *)
LEMMA CountedWhen ==
    ASSUME TypeOK, TypeOK', Counted, IsFiniteSet(Prefetched'),
           prefetchMemory' >= Cardinality(Prefetched'), prefetchMemory' <= prefetchMemory,
           \A w \in Worker : w \in Adding' => w \in Adding
    PROVE  Counted'
<1>1. Adding' \in SUBSET Adding
  BY DEF Adding
<1>2. Cardinality(Adding') <= Cardinality(Adding) /\ Cardinality(Adding') \in Nat
  BY <1>1, AddingFinite, FS_Subset, FS_CardinalityType
<1>3. prefetchMemory \in Nat /\ prefetchMemory' \in Nat /\ MaxMemory \in Nat
  BY PrefetchAssumption DEF TypeOK
<1> QED BY <1>2, <1>3, AddingFinite DEF Counted

(* One that keeps some of the blocks.                                      *)
LEMMA FewerKept ==
    ASSUME Counted, Prefetched' \in SUBSET Prefetched, prefetchMemory' = prefetchMemory, TypeOK
    PROVE  /\ IsFiniteSet(Prefetched') /\ prefetchMemory' >= Cardinality(Prefetched')
           /\ prefetchMemory' <= prefetchMemory
<1>1. /\ IsFiniteSet(Prefetched') /\ Cardinality(Prefetched') <= Cardinality(Prefetched)
      /\ Cardinality(Prefetched') \in Nat /\ Cardinality(Prefetched) \in Nat
  BY FS_Subset, FS_CardinalityType DEF Counted
<1>2. prefetchMemory \in Nat
  BY DEF TypeOK
<1> QED BY <1>1, <1>2 DEF Counted

LEMMA CountedFetch ==
    ASSUME TypeOK, TypeOK', Apart, Counted, NEW w \in Worker, Fetch(w)
    PROVE  Counted'
<1>1. PICK g \in Get, b \in Block :
              /\ pc[w] \in {"top", "wait"} /\ UNCHANGED permit
              /\ HandsOut(w, g, b) \/ Joins(w, g, b) \/ Begins(w, g, b)
  BY FetchOf
<1>2. \A v \in Worker : v \in Adding' => v \in Adding
  BY <1>1 DEF HandsOut, Joins, Begins, Goto, Adding, TypeOK
<1>3. CASE HandsOut(w, g, b)
  <2>1. /\ prefetchBlocks' \in [Block -> Slot]
        /\ ~prefetchBlocks'[b].stored /\ \A c \in Block \ {b} : prefetchBlocks'[c] = prefetchBlocks[c]
    BY <1>3, EmptySlot, SlotSet DEF HandsOut
  <2>2. Prefetched' = Prefetched \ {b}
    BY <2>1 DEF Prefetched
  <2>3. /\ IsFiniteSet(Prefetched')
        /\ Cardinality(Prefetched') = Cardinality(Prefetched) - (IF b \in Prefetched THEN 1 ELSE 0)
    <3>1. CASE b \in Prefetched
      BY <3>1, <2>2, FS_RemoveElement DEF Counted
    <3>2. CASE b \notin Prefetched
      <4>1. Prefetched' = Prefetched
        BY <3>2, <2>2
      <4>2. Cardinality(Prefetched) \in Nat
        BY FS_CardinalityType DEF Counted
      <4> QED BY <3>2, <4>1, <4>2 DEF Counted
    <3> QED BY <3>1, <3>2
  <2>4. prefetchMemory' = prefetchMemory - (IF b \in Prefetched THEN 1 ELSE 0)
    BY <1>3 DEF HandsOut, Released, Prefetched
  <2>5. Cardinality(Prefetched) \in Nat /\ prefetchMemory \in Nat
    BY FS_CardinalityType DEF Counted, TypeOK
  <2>6. prefetchMemory' >= Cardinality(Prefetched') /\ prefetchMemory' <= prefetchMemory
    BY <2>3, <2>4, <2>5 DEF Counted
  <2> QED BY <1>2, <2>3, <2>6, CountedWhen
<1>4. CASE Joins(w, g, b) \/ Begins(w, g, b)
  <2>1. /\ ~prefetchBlocks'[b].stored /\ \A c \in Block \ {b} : prefetchBlocks'[c] = prefetchBlocks[c]
    BY <1>4, EmptySlot, SlotSet DEF Joins, Begins
  <2>2. Prefetched' \in SUBSET Prefetched
    BY <2>1 DEF Prefetched
  <2>3. prefetchMemory' = prefetchMemory
    BY <1>4 DEF Joins, Begins
  <2> QED BY <1>2, <2>2, <2>3, FewerKept, CountedWhen
<1> QED BY <1>1, <1>3, <1>4

(* A worker that saw room adds the one block it may.                       *)
LEMMA CountedEndPrefetch ==
    ASSUME TypeOK, TypeOK', Apart, Counted, NEW w \in Worker, EndPrefetch(w)
    PROVE  Counted'
<1>1. PICK b \in Block :
              /\ pc[w] = "prefetching" /\ b = block[w]
              /\ Done(w) /\ ~panicked' /\ UNCHANGED <<chanVars, permit, wanted>>
              /\ Gone(b) \/ Keeps(b) \/ Serves(b)
  BY EndOfPrefetchOf
<1>2. pc'[w] = "top" /\ permit' = permit /\ \A v \in Worker \ {w} : pc'[v] = pc[v]
  BY <1>1, DoneType
<1>3. Adding' = Adding \ {w} /\ w \in Adding
  BY <1>1, <1>2 DEF Adding
<1>4. \A v \in Worker : v \in Adding' => v \in Adding
  BY <1>3
<1>5. CASE Gone(b) \/ Serves(b)
  <2>1. \A c \in Block : prefetchBlocks'[c].stored => prefetchBlocks[c].stored
    BY <1>5, EmptySlot, SlotSet DEF Gone, Serves
  <2>2. Prefetched' \in SUBSET Prefetched /\ prefetchMemory' = prefetchMemory
    BY <1>5, <2>1 DEF Prefetched, Gone, Serves
  <2> QED BY <1>4, <2>2, FewerKept, CountedWhen
<1>6. CASE Keeps(b)
  <2>1. PICK slot \in Slot :
            /\ SetSlot(b, slot)
            /\ \/ prefetchMemory' = prefetchMemory + 1
               \/ prefetchMemory' = prefetchMemory /\ slot.stored = prefetchBlocks[b].stored
    BY <1>6 DEF Keeps
  <2>2. prefetchBlocks'[b] = slot /\ \A c \in Block \ {b} : prefetchBlocks'[c] = prefetchBlocks[c]
    BY <2>1, SlotSet
  <2>3. CASE prefetchMemory' = prefetchMemory /\ slot.stored = prefetchBlocks[b].stored
    <3>1. Prefetched' \in SUBSET Prefetched
      BY <2>2, <2>3 DEF Prefetched
    <3> QED BY <1>4, <2>3, <3>1, FewerKept, CountedWhen
  <2>4. CASE prefetchMemory' = prefetchMemory + 1
    <3>1. Prefetched' \in SUBSET (Prefetched \cup {b})
      BY <2>2 DEF Prefetched
    <3>2. /\ IsFiniteSet(Prefetched \cup {b})
          /\ Cardinality(Prefetched \cup {b}) <= Cardinality(Prefetched) + 1
          /\ Cardinality(Prefetched) \in Nat
      <4>1. Cardinality(Prefetched) \in Nat
        BY FS_CardinalityType DEF Counted
      <4>2. IsFiniteSet(Prefetched)
        BY DEF Counted
      <4>3. /\ IsFiniteSet(Prefetched \cup {b})
            /\ Cardinality(Prefetched \cup {b}) =
                  IF b \in Prefetched THEN Cardinality(Prefetched) ELSE Cardinality(Prefetched) + 1
        BY <4>2, FS_AddElement
      <4> QED BY <4>1, <4>3
    <3>3. /\ IsFiniteSet(Prefetched') /\ Cardinality(Prefetched') \in Nat
          /\ Cardinality(Prefetched \cup {b}) \in Nat
          /\ Cardinality(Prefetched') <= Cardinality(Prefetched \cup {b})
      BY <3>1, <3>2, FS_Subset, FS_CardinalityType
    <3>4. Cardinality(Adding') = Cardinality(Adding) - 1
      BY <1>3, AddingFinite, FS_RemoveElement
    <3>5. prefetchMemory \in Nat /\ MaxMemory \in Nat
      BY PrefetchAssumption DEF TypeOK
    <3> QED BY <2>4, <3>2, <3>3, <3>4, <3>5, AddingFinite DEF Counted
  <2> QED BY <2>1, <2>3, <2>4
<1> QED BY <1>1, <1>5, <1>6

(* A worker sees room, and the others may add one block each.              *)
LEMMA CountedPoll ==
    ASSUME TypeOK, TypeOK', Counted, NEW w \in Worker, Poll(w)
    PROVE  Counted'
<1>1. /\ pc[w] = "top" /\ permit' = [permit EXCEPT ![w] = HasRoom] /\ pc' = [pc EXCEPT ![w] = "wait"]
      /\ UNCHANGED <<prefetchBlocks, prefetchMemory>>
  BY DEF Poll, Goto
<1>2. Prefetched' = Prefetched
  BY <1>1 DEF Prefetched
<1>3. CASE HasRoom
  <2>1. Adding' \in SUBSET Worker
    BY DEF Adding
  <2>2. Cardinality(Adding') <= Cardinality(Worker) /\ Cardinality(Adding') \in Nat
    BY <2>1, PrefetchAssumption, FS_Subset, FS_CardinalityType
  <2>3. prefetchMemory < MaxMemory /\ prefetchMemory \in Nat /\ MaxMemory \in Nat
    BY <1>3, PrefetchAssumption DEF HasRoom, TypeOK
  <2> QED BY <1>1, <1>2, <2>2, <2>3, AddingFinite DEF Counted
<1>4. CASE ~HasRoom
  <2>1. \A v \in Worker : v \in Adding' => v \in Adding
    BY <1>1, <1>4 DEF Adding, TypeOK
  <2>2. Prefetched' \in SUBSET Prefetched
    BY <1>2
  <2> QED BY <1>1, <2>1, <2>2, FewerKept, CountedWhen
<1> QED BY <1>3, <1>4

LEMMA CountedClear ==
    ASSUME TypeOK, TypeOK', Counted, NEW w \in Worker, Clear(w)
    PROVE  Counted'
<1> DEFINE unwaited == {b \in Block : Waiting(b) = <<>>}
<1>1. /\ prefetchBlocks' = [b \in Block |-> IF b \in unwaited
                                  THEN Without("absent") ELSE prefetchBlocks[b]]
      /\ prefetchMemory' = prefetchMemory - Cardinality(Prefetched \cap unwaited)
      /\ UNCHANGED workVars /\ \E phase \in {"top", "gone"} : Goto(w, phase)
  BY DEF Clear
<1> HIDE DEF unwaited
<1>2. Prefetched' = Prefetched \ unwaited
  BY <1>1, EmptySlot DEF Prefetched
<1>3. /\ IsFiniteSet(Prefetched')
      /\ Cardinality(Prefetched') = Cardinality(Prefetched) - Cardinality(Prefetched \cap unwaited)
  BY <1>2, FS_Difference DEF Counted
<1>4. Cardinality(Prefetched) \in Nat /\ prefetchMemory \in Nat /\ prefetchMemory' \in Nat
      /\ Cardinality(Prefetched \cap unwaited) \in Nat
  <2>1. Prefetched \cap unwaited \in SUBSET Prefetched
    OBVIOUS
  <2> QED BY <2>1, FS_Subset, FS_CardinalityType DEF Counted, TypeOK
<1>5. prefetchMemory' >= Cardinality(Prefetched') /\ prefetchMemory' <= prefetchMemory
  BY <1>1, <1>3, <1>4 DEF Counted
<1>6. \A v \in Worker : v \in Adding' => v \in Adding
  BY <1>1 DEF Adding, Goto, TypeOK, workVars
<1> QED BY <1>3, <1>5, <1>6, CountedWhen

LEMMA CountedNext ==
    ASSUME TypeOK, TypeOK', Apart, Counted, [Next]_vars
    PROVE  Counted'
<1>1. ASSUME UNCHANGED prefetchMemory, \A b \in Block : prefetchBlocks'[b].stored => prefetchBlocks[b].stored,
             \A w \in Worker : w \in Adding' => w \in Adding
      PROVE  Counted'
  <2>1. Prefetched' \in SUBSET Prefetched
    BY <1>1 DEF Prefetched
  <2> QED BY <1>1, <2>1, FewerKept, CountedWhen
<1>2. CASE UNCHANGED vars \/ Call
  BY <1>1, <1>2 DEF vars, workVars, Call, GetStoredBlock, Preflight, Flush, Close, Adding
<1>3. ASSUME NEW w \in Worker, EndFetch(w) PROVE Counted'
  <2>1. PICK b \in Block, g \in Get :
              /\ b = block[w] /\ Held(g, w)
              /\ Done(w) /\ UNCHANGED <<prefetchMemory, chanVars, permit, wanted>>
              /\ Answers(b, g) \/ (~IsEntry(b) /\ UNCHANGED <<prefetchBlocks, answers>>)
    BY <1>3, EndOfFetch
  <2>2. \A c \in Block : prefetchBlocks'[c].stored => prefetchBlocks[c].stored
    BY <2>1, EmptySlot, SlotSet DEF Answers
  <2>3. \A v \in Worker : v \in Adding' => v \in Adding
    BY <2>1, DoneType DEF Adding
  <2> QED BY <1>1, <2>1, <2>2, <2>3
<1>4. ASSUME NEW w \in Worker, Prefetch(w) PROVE Counted'
  <2>1. /\ pc[w] = "wait" /\ permit[w] /\ UNCHANGED <<prefetchMemory, permit>>
        /\ \/ Goto(w, "top") /\ UNCHANGED <<prefetchBlocks, block>>
           \/ \E b \in Block : SetSlot(b, Without("entry")) /\ Goto(w, "prefetching")
    BY <1>4, PrefetchOf
  <2>2. \A c \in Block : prefetchBlocks'[c].stored => prefetchBlocks[c].stored
    BY <2>1, EmptySlot, SlotSet
  <2>3. \A v \in Worker : v \in Adding' => v \in Adding
    BY <2>1 DEF Adding, Goto, TypeOK
  <2> QED BY <1>1, <2>1, <2>2, <2>3
<1>5. ASSUME NEW w \in Worker, TakeFlush(w) \/ Stop(w) PROVE Counted'
  <2>1. UNCHANGED <<prefetchBlocks, prefetchMemory, permit>>
    BY <1>5 DEF TakeFlush, Stop, Drain, workVars
  <2>2. \A v \in Worker : v \in Adding' => v \in Adding
    BY <1>5, <2>1 DEF TakeFlush, Stop, Drain, Goto, Adding, TypeOK
  <2> QED BY <1>1, <2>1, <2>2
<1> QED BY <1>2, <1>3, <1>4, <1>5, CountedFetch, CountedEndPrefetch, CountedPoll, CountedClear
        DEF Next, Work

-------------------------------------------------------------------------------
(* The invariant, and what follows from it                                 *)

LEMMA IInvInit ==
    Init => IInv
<1> SUFFICES ASSUME Init PROVE IInv
  OBVIOUS
<1>e. DOMAIN <<>> = {} /\ <<>> \in Seq(Get) /\ <<>> \in Seq(Block)
  OBVIOUS
<1>1. /\ \A b \in Block : prefetchBlocks[b] = Without("absent")
      /\ \A b \in Block : Waiting(b) = <<>> /\ ~IsEntry(b) /\ ~prefetchBlocks[b].stored
      /\ \A b \in Block : ~prefetchBlocks[b].err
  BY EmptySlot DEF Init, Waiting, IsEntry
<1>2. \A g \in Get : ~Out(g) /\ ~InChan(g) /\ answers[g] = 0
  BY <1>e DEF Init, Out, Called, InChan
<1>3. \A g \in Get, b \in Block : ~Waits(g, b)
  BY <1>e, <1>1 DEF Waits
<1>4. \A g \in Get, w \in Worker : ~Held(g, w)
  BY DEF Init, Held
<1>5. TypeOK
  <2>1. prefetchBlocks \in [Block -> Slot]
        /\ \A b \in Block : ~IsEntry(b) => prefetchBlocks[b] = Without(prefetchBlocks[b].is)
    BY EmptySlot DEF Init
  <2>2. /\ callers \in {"quiet", "any"} /\ prefetchMemory \in Nat
        /\ getChan \in Seq(Get) /\ prefetchChan \in Seq(Block) /\ flushChan \in Nat
        /\ closed \in BOOLEAN /\ panicked \in BOOLEAN /\ prefetches \in Nat /\ flushes \in Nat
    BY <1>e, PrefetchAssumption DEF Init
  <2>3. /\ pc \in [Worker -> Phase] /\ permit \in [Worker -> BOOLEAN]
        /\ block \in [Worker -> Block \cup {NoBlock}] /\ get \in [Worker -> Get \cup {NoGet}]
        /\ \A w \in Worker : pc[w] = "top"
    BY DEF Init, Phase
  <2>4. wanted \in [Get -> Block \cup {NoBlock}] /\ answers \in [Get -> Nat]
    BY DEF Init
  <2> QED BY <2>1, <2>2, <2>3, <2>4 DEF TypeOK
<1>6. Apart /\ AnsweredOnce
  <2>1. \A b \in Block : \A i, j \in DOMAIN Waiting(b) : Waiting(b)[i] = Waiting(b)[j] => i = j
    BY <1>e, <1>1
  <2>2. \A i, j \in DOMAIN getChan : getChan[i] = getChan[j] => i = j
    BY <1>e DEF Init
  <2> QED BY <1>2, <1>3, <1>4, <2>1, <2>2 DEF Apart, AnsweredOnce
<1>7. Attended
  BY <1>1 DEF Attended, Attends
<1>8. Kept
  BY <1>2 DEF Kept, Init
<1>9. Counted
  <2>1. Prefetched = {} /\ Adding = {}
    BY <1>1 DEF Prefetched, Adding, Init
  <2>2. IsFiniteSet(Prefetched) /\ Cardinality(Prefetched) = 0 /\ Cardinality(Adding) = 0
    BY <2>1, FS_EmptySet
  <2>3. Cardinality(Worker) \in Nat \ {0}
    BY PrefetchAssumption, FS_EmptySet, FS_CardinalityType
  <2>4. prefetchMemory = 0 /\ MaxMemory \in Nat
    BY PrefetchAssumption DEF Init
  <2> QED BY <2>2, <2>3, <2>4 DEF Counted
<1> QED BY <1>5, <1>6, <1>7, <1>8, <1>9 DEF IInv

LEMMA IInvNext ==
    ASSUME IInv, [Next]_vars
    PROVE  IInv'
<1>1. TypeOK'
  BY TypesNext DEF IInv
<1>2. Apart' /\ AnsweredOnce'
  BY ApartNext DEF IInv
<1>3. Attended'
  BY AttendedNext DEF IInv
<1>4. Kept'
  BY KeptNext DEF IInv
<1>5. Counted'
  BY <1>1, CountedNext DEF IInv
<1> QED BY <1>1, <1>2, <1>3, <1>4, <1>5 DEF IInv

LEMMA Invariance == Spec => []IInv
<1>1. Init => IInv
  BY IInvInit
<1>2. IInv /\ [Next]_vars => IInv'
  BY IInvNext
<1> QED BY <1>1, <1>2, PTL DEF Spec

(* A worker that reads always knows its block and its get, and whatever is *)
(* not an entry of the map holds nothing.                                  *)
THEOREM TypeCorrect == Spec => []TypeOK
<1>1. IInv => TypeOK
  BY DEF IInv
<1> QED BY <1>1, Invariance, PTL

(* No callback is called twice: a get is in the channel, with an entry or  *)
(* in the hand of a worker, and only one of these (remotestore.go:289-326).*)
THEOREM AnswersAreOnce == Spec => []AnsweredOnce
<1>1. IInv => AnsweredOnce
  BY DEF IInv
<1> QED BY <1>1, Invariance, PTL

(* From its call to its answer a get of a quiet caller is where a worker   *)
(* comes to it (fetchBlock and prefetchBlock, remotestore.go:289-410).     *)
THEOREM GetsAreKept == Spec => []NoGetIsForgotten
<1>1. IInv => NoGetIsForgotten
  <2> SUFFICES ASSUME IInv, Quiet, NEW g \in Get, Out(g)
               PROVE (\E i \in DOMAIN getChan : getChan[i] = g) \/ InHand(g) \/ LeftBehind(g)
    BY DEF NoGetIsForgotten
  <2>1. Placed(g)
    BY DEF IInv, Kept
  <2>2. ASSUME NEW w \in Worker, Reads(w), Waits(g, block[w]) PROVE LeftBehind(g)
    <3>1. block[w] \in Block
      BY <2>2 DEF IInv, TypeOK, Reads
    <3>2. g \in Waiters(block[w])
      BY <2>2, <3>1, WaitingGets DEF IInv
    <3> QED BY <2>2, <3>2 DEF LeftBehind, Reads
  <2> QED BY <2>1, <2>2 DEF Placed, InChan, InHand, Held
<1> QED BY <1>1, Invariance, PTL

(* With quiet callers no worker comes back from its read to an entry that  *)
(* a flush removed: fetchBlock never uses the nil pointer.                 *)
THEOREM NilIsNeverUsed == Spec => []NeverPanics
<1>1. IInv => NeverPanics
  BY DEF IInv, Kept, NeverPanics
<1> QED BY <1>1, Invariance, PTL

(* prefetchMemory covers every block that is kept, whoever flushes.        *)
THEOREM MemoryIsCovered == Spec => []MemoryCovers
<1>1. IInv => MemoryCovers
  BY DEF IInv, Counted, MemoryCovers
<1> QED BY <1>1, Invariance, PTL

(* The workers that saw room at the same time exceed maxPrefetchMemory by  *)
(* less than a block each, for any number of workers and any limit.        *)
THEOREM MemoryStaysBounded == Spec => []MemoryIsBounded
<1>1. IInv => MemoryIsBounded
  <2> SUFFICES ASSUME IInv PROVE MemoryIsBounded
    OBVIOUS
  <2>1. prefetchMemory \in Nat /\ MaxMemory \in Nat
    BY PrefetchAssumption DEF IInv, TypeOK
  <2> QED BY <2>1, AddingFinite DEF IInv, Counted, MemoryIsBounded
<1> QED BY <1>1, Invariance, PTL

===============================================================================
