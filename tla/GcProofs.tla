------------------------------ MODULE GcProofs ------------------------------
(***************************************************************************)
(* Proofs about the collector for any set of addresses, any sizes and any  *)
(* number of stack words.                                                  *)
(***************************************************************************)
EXTENDS GcProps, Induction

-----------------------------------------------------------------------------
(* What ToSet makes of the ways the list of nodes is taken apart.          *)

LEMMA ToSetPush ==
  ASSUME NEW S, NEW s \in Seq(S), NEW x \in S
  PROVE  /\ <<x>> \o s \in Seq(S)
         /\ ToSet(<<x>> \o s) = {x} \cup ToSet(s)
<1> DEFINE t == <<x>> \o s
<1>1. /\ t \in Seq(S) /\ Len(t) = Len(s) + 1 /\ t[1] = x
      /\ \A i \in 1..Len(s) : t[i + 1] = s[i]
  BY ConcatProperties
<1>2. \A i \in 2..Len(t) : i - 1 \in 1..Len(s) /\ t[i] = s[i - 1]
  <2>1. SUFFICES ASSUME NEW i \in 2..Len(t)
                 PROVE  i - 1 \in 1..Len(s) /\ t[i] = s[i - 1]
    OBVIOUS
  <2>2. i - 1 \in 1..Len(s) /\ (i - 1) + 1 = i
    BY <1>1
  <2> QED BY <1>1, <2>2
<1>3. DOMAIN t = 1..Len(t) /\ DOMAIN s = 1..Len(s)
  BY <1>1
<1> HIDE DEF t
<1>4. ToSet(t) \subseteq {x} \cup ToSet(s)
  BY <1>1, <1>2, <1>3 DEF ToSet
<1>5. {x} \cup ToSet(s) \subseteq ToSet(t)
  <2>1. x \in ToSet(t)
    BY <1>1, <1>3 DEF ToSet
  <2>2. \A i \in 1..Len(s) : i + 1 \in 1..Len(t) /\ t[i + 1] = s[i]
    BY <1>1
  <2> QED BY <2>1, <2>2, <1>3 DEF ToSet
<1> QED BY <1>1, <1>4, <1>5 DEF t

LEMMA ToSetAppend ==
  ASSUME NEW S, NEW s \in Seq(S), NEW x \in S
  PROVE  /\ Append(s, x) \in Seq(S)
         /\ ToSet(Append(s, x)) = ToSet(s) \cup {x}
BY AppendProperties DEF ToSet

LEMMA ToSetHeadTail ==
  ASSUME NEW S, NEW s \in Seq(S), s # <<>>
  PROVE  /\ Head(s) \in S
         /\ Tail(s) \in Seq(S)
         /\ ToSet(s) = {Head(s)} \cup ToSet(Tail(s))
<1>1. /\ Head(s) = s[1] /\ Head(s) \in S /\ Tail(s) \in Seq(S)
      /\ Len(s) \in Nat \ {0} /\ Len(Tail(s)) = Len(s) - 1
      /\ \A i \in 1..Len(Tail(s)) : Tail(s)[i] = s[i + 1]
  BY HeadTailProperties, EmptySeq
<1>2. \A i \in 1..Len(s) : i = 1 \/ (i - 1 \in 1..Len(Tail(s))
                                       /\ s[i] = Tail(s)[i - 1])
  <2>1. SUFFICES ASSUME NEW i \in 1..Len(s), i # 1
                 PROVE  i - 1 \in 1..Len(Tail(s)) /\ s[i] = Tail(s)[i - 1]
    OBVIOUS
  <2>2. i - 1 \in 1..Len(Tail(s)) /\ (i - 1) + 1 = i
    BY <1>1, <2>1
  <2> QED BY <1>1, <2>2
<1>3. \A i \in 1..Len(Tail(s)) : i + 1 \in 1..Len(s) /\ Tail(s)[i] = s[i + 1]
  BY <1>1
<1>4. /\ DOMAIN s = 1..Len(s) /\ DOMAIN Tail(s) = 1..Len(Tail(s))
      /\ 1 \in 1..Len(s)
  BY <1>1
<1>5. \A y : y \in ToSet(s) <=> \E i \in 1..Len(s) : y = s[i]
  BY <1>4 DEF ToSet
<1>6. \A y : y \in ToSet(Tail(s)) <=> \E i \in 1..Len(Tail(s)) : y = Tail(s)[i]
  BY <1>4 DEF ToSet
<1>7. ToSet(s) \subseteq {Head(s)} \cup ToSet(Tail(s))
  <2>1. SUFFICES ASSUME NEW i \in 1..Len(s)
                 PROVE  s[i] \in {Head(s)} \cup ToSet(Tail(s))
    BY <1>5
  <2> QED BY <1>1, <1>2, <1>6
<1>8. {Head(s)} \cup ToSet(Tail(s)) \subseteq ToSet(s)
  BY <1>1, <1>3, <1>4, <1>5, <1>6
<1> QED BY <1>1, <1>7, <1>8

LEMMA ToSetEmpty == ToSet(<<>>) = {}
BY DEF ToSet

LEMMA ToSetType ==
  ASSUME NEW S, NEW s \in Seq(S)
  PROVE  ToSet(s) \subseteq S
BY DEF ToSet

-----------------------------------------------------------------------------
(* Type correctness.                                                       *)

LEMMA WordTypes ==
  /\ Zero \in Word
  /\ \A a \in Addr : Ref(a) \in Word /\ Number(a) \in Word
  /\ ZeroBlock \in [1..MaxWords -> Word]
BY GcAssumption DEF Word, Zero, Ref, Number, ZeroBlock

LEMMA PairType ==
  ASSUME NEW v \in Word, NEW w \in Word
  PROVE  <<v, w>> \in [1..2 -> Word]
OBVIOUS

LEMMA ScanWordType ==
  ASSUME TypeOK, NEW k \in 1..ScanWords
  PROVE  ScanWord(k) \in Word
<1>1. CASE k <= 2
  BY <1>1 DEF TypeOK, ScanWord
<1>2. CASE k > 2
  <2>1. k - 2 \in 1..Slots
    BY <1>2, GcAssumption DEF ScanWords
  <2> QED BY <1>2, <2>1 DEF TypeOK, ScanWord
<1> QED BY <1>1, <1>2 DEF ScanWords

\* The blocks are addresses.
LEMMA BlocksType == TypeOK => Blocks \subseteq Addr
BY ToSetType DEF TypeOK, Blocks

\* A push on the C stack of DFS, or none.
LEMMA VisitType ==
  ASSUME TypeOK, NEW w \in Word, NEW below \in Seq(Frame), Visit(w, below)
  PROVE  marked' \in [Addr -> BOOLEAN] /\ dfs' \in Seq(Frame)
<1>1. CASE w.addr \in Blocks /\ ~marked[w.addr]
  <2>1. [obj |-> w.addr, i |-> 1] \in Frame
    BY <1>1, BlocksType DEF Frame
  <2>2. Append(below, [obj |-> w.addr, i |-> 1]) \in Seq(Frame)
    BY <2>1
  <2>3. [marked EXCEPT ![w.addr] = TRUE] \in [Addr -> BOOLEAN]
    BY DEF TypeOK
  <2> QED BY <1>1, <2>2, <2>3 DEF Visit
<1>2. CASE ~(w.addr \in Blocks /\ ~marked[w.addr])
  BY <1>2 DEF Visit, TypeOK
<1> QED BY <1>1, <1>2

\* The frame on top of the C stack of DFS, and what is below it.
LEMMA TopBelow ==
  ASSUME dfs \in Seq(Frame), dfs # <<>>
  PROVE  /\ Top \in Frame
         /\ Len(dfs) \in Nat \ {0}
         /\ Below \in Seq(Frame)
         /\ Len(Below) = Len(dfs) - 1
         /\ \A k \in 1..Len(dfs) - 1 : Below[k] = dfs[k]
<1>1. Len(dfs) \in Nat \ {0}
  BY EmptySeq
<1>2. Top \in Frame
  BY <1>1, ElementOfSeq DEF Top
<1>3. /\ Below \in Seq(Frame)
      /\ Len(Below) = Len(dfs) - 1
      /\ \A k \in 1..Len(dfs) - 1 : Below[k] = dfs[k]
  <2>1. PICK n \in Nat : n = Len(dfs) - 1 /\ n + 1 = Len(dfs)
    BY <1>1
  <2>2. \A k \in 1..n : dfs[k] \in Frame
    BY <2>1, ElementOfSeq
  <2>3. Below \in Seq(Frame)
    BY <2>1, <2>2 DEF Below
  <2>4. Len(Below) = n
    BY <2>1 DEF Below
  <2>5. \A k \in 1..n : Below[k] = dfs[k]
    BY <2>1 DEF Below
  <2> QED BY <2>1, <2>3, <2>4, <2>5
<1> QED BY <1>1, <1>2, <1>3

\* Every step keeps every variable in its type.
LEMMA TypePreserved == TypeOK /\ [Next]_vars => TypeOK'
<1> SUFFICES ASSUME TypeOK, [Next]_vars PROVE TypeOK'
  OBVIOUS
<1> USE GcAssumption DEF collector, memory
<1>1. CASE CallAlloc
  <2>1. req' \in [words : 0..MaxWords, slot : 0..Slots]
    BY <1>1 DEF CallAlloc
  <2>2. stack' \in [1..Slots -> Word] /\ held' \in [1..2 -> Word]
    BY <1>1, WordTypes, PairType DEF CallAlloc, TypeOK
  <2> QED BY <1>1, <2>1, <2>2 DEF CallAlloc, TypeOK, ScanWords
<1>2. CASE Malloc
  <2>1. PICK a \in Addr \ Blocks :
          /\ heap' = <<a>> \o heap
          /\ marked' = [marked EXCEPT ![a] = FALSE]
          /\ size' = [size EXCEPT ![a] = req.words]
          /\ f' = [f EXCEPT ![a] = [i \in 1..MaxWords |->
                                      IF i <= req.words THEN held[1] ELSE Zero]]
          /\ stack' = [stack EXCEPT ![req.slot] = Ref(a)]
    BY <1>2 DEF Malloc
  <2>2. heap' \in Seq(Addr)
    BY <2>1, ToSetPush DEF TypeOK
  <2>3. size' \in [Addr -> 0..MaxWords] /\ marked' \in [Addr -> BOOLEAN]
    BY <2>1 DEF TypeOK
  <2>4. f' \in [Addr -> [1..MaxWords -> Word]]
    BY <2>1, WordTypes DEF TypeOK
  <2>5. stack' \in [1..Slots -> Word]
    BY <2>1, WordTypes DEF TypeOK
  <2>6. held' \in [1..2 -> Word]
    BY <1>2, WordTypes, PairType DEF Malloc
  <2>7. avail' \in Nat
    BY <1>2 DEF Malloc, Fits, TypeOK
  <2> QED BY <1>2, <2>2, <2>3, <2>4, <2>5, <2>6, <2>7
          DEF Malloc, TypeOK, ScanWords
<1>3. CASE MallocNodeFails
  <2>1. avail' \in Nat
    BY <1>3 DEF MallocNodeFails, Calloc, Fits, TypeOK
  <2> QED BY <1>3, <2>1 DEF MallocNodeFails, TypeOK, ScanWords
<1>4. CASE MallocCollects
  <2>1. held' \in [1..2 -> Word]
    BY <1>4, WordTypes, PairType DEF MallocCollects, EnterCollect, TypeOK
  <2> QED BY <1>4, <2>1 DEF MallocCollects, TypeOK, ScanWords
<1>5. CASE MallocFails
  BY <1>5 DEF MallocFails, TypeOK, ScanWords
<1>6. CASE GcRun
  <2>1. held' \in [1..2 -> Word]
    BY <1>6, WordTypes, PairType DEF GcRun, EnterCollect, TypeOK
  <2> QED BY <1>6, <2>1 DEF GcRun, TypeOK, ScanWords
<1>7. CASE GcEnable
  BY <1>7 DEF GcEnable, TypeOK, ScanWords
<1>8. CASE MarkRoot
  <2>1. scan + 1 \in 1..ScanWords
    BY <1>8 DEF MarkRoot, TypeOK, ScanWords
  <2>2. marked' \in [Addr -> BOOLEAN] /\ dfs' \in Seq(Frame)
    BY <1>8, <2>1, ScanWordType, VisitType DEF MarkRoot, TypeOK
  <2> QED BY <1>8, <2>1, <2>2 DEF MarkRoot, TypeOK, ScanWords
<1>9. CASE MarkField
  <2>1. Top \in Frame /\ Below \in Seq(Frame)
    BY <1>9, TopBelow DEF MarkField, TypeOK
  <2>2. [obj |-> Top.obj, i |-> Top.i + 1] \in Frame
    BY <2>1 DEF Frame
  <2>3. Append(Below, [obj |-> Top.obj, i |-> Top.i + 1]) \in Seq(Frame)
    BY <2>1, <2>2
  <2>4. Top.i \in 1..MaxWords /\ Top.obj \in Addr
    BY <1>9, <2>1 DEF MarkField, TypeOK, Frame
  <2>5. f[Top.obj][Top.i] \in Word
    BY <2>4 DEF TypeOK
  <2>6. marked' \in [Addr -> BOOLEAN] /\ dfs' \in Seq(Frame)
    BY <1>9, <2>3, <2>5, VisitType DEF MarkField
  <2> QED BY <1>9, <2>6 DEF MarkField, TypeOK, ScanWords
<1>10. CASE MarkReturn
  BY <1>10, TopBelow DEF MarkReturn, TypeOK, ScanWords
<1>11. CASE MarkDone
  <2>1. <<>> \in Seq(Addr)
    OBVIOUS
  <2> QED BY <1>11, <2>1 DEF MarkDone, TypeOK, ScanWords
<1>12. CASE SweepKeep
  <2>1. heap' \in Seq(Addr) /\ h' \in Seq(Addr)
    BY <1>12, ToSetAppend, ToSetHeadTail DEF SweepKeep, TypeOK
  <2> QED BY <1>12, <2>1 DEF SweepKeep, TypeOK, ScanWords
<1>13. CASE SweepFree
  <2>1. Head(h) \in Addr /\ h' \in Seq(Addr)
    BY <1>13, ToSetHeadTail DEF SweepFree, TypeOK
  <2>2. avail' \in Nat
    <3>1. /\ avail \in Nat
          /\ size[Head(h)] \in 0..MaxWords
      BY <2>1 DEF TypeOK
    <3>2. avail' = avail + MdWords + size[Head(h)] + NodeWords
      BY <1>13 DEF SweepFree
    <3> QED BY <3>1, <3>2, GcAssumption
  <2>3. f' \in [Addr -> [1..MaxWords -> Word]] /\ size' \in [Addr -> 0..MaxWords]
    BY <1>13, WordTypes DEF SweepFree, TypeOK
  <2> QED BY <1>13, <2>1, <2>2, <2>3 DEF SweepFree, TypeOK, ScanWords
<1>14. CASE SweepDone
  <2>1. held' \in [1..2 -> Word]
    BY <1>14, WordTypes, PairType DEF SweepDone, TypeOK
  <2> QED BY <1>14, <2>1 DEF SweepDone, TypeOK, ScanWords
<1>15. CASE SetInt
  <2>1. stack' \in [1..Slots -> Word]
    BY <1>15, WordTypes DEF SetInt, TypeOK
  <2> QED BY <1>15, <2>1 DEF SetInt, Program, TypeOK, ScanWords
<1>16. CASE Load
  <2>1. PICK s \in 1..Slots, t \in 1..Slots :
          /\ stack[t].ref
          /\ \E i \in 1..size[stack[t].addr] :
               stack' = [stack EXCEPT ![s] = f[stack[t].addr][i]]
    BY <1>16 DEF Load
  <2>2. stack[t].addr \in Addr
    BY <2>1 DEF TypeOK, Word
  <2>3. 1..size[stack[t].addr] \subseteq 1..MaxWords
    BY <2>2 DEF TypeOK
  <2>4. stack' \in [1..Slots -> Word]
    BY <2>1, <2>2, <2>3 DEF TypeOK
  <2> QED BY <1>16, <2>4 DEF Load, Program, TypeOK, ScanWords
<1>17. CASE Store
  <2>1. PICK s \in 1..Slots, t \in 1..Slots :
          /\ stack[t].ref
          /\ \E i \in 1..size[stack[t].addr] :
               f' = [f EXCEPT ![stack[t].addr][i] = stack[s]]
    BY <1>17 DEF Store
  <2>2. PICK i \in 1..size[stack[t].addr] :
          f' = [f EXCEPT ![stack[t].addr][i] = stack[s]]
    BY <2>1
  <2>3. stack[t].addr \in Addr /\ stack[s] \in Word
    BY <2>1 DEF TypeOK, Word
  <2>4. f[stack[t].addr] \in [1..MaxWords -> Word]
    BY <2>3 DEF TypeOK
  <2>5. [f[stack[t].addr] EXCEPT ![i] = stack[s]] \in [1..MaxWords -> Word]
    BY <2>3, <2>4
  <2>6. f' \in [Addr -> [1..MaxWords -> Word]]
    BY <2>2, <2>3, <2>5 DEF TypeOK
  <2> QED BY <1>17, <2>6 DEF Store, TypeOK, ScanWords
<1>18. CASE Return
  BY <1>18 DEF Return, TypeOK, ScanWords
<1>19. CASE UNCHANGED vars
  BY <1>19 DEF vars, TypeOK, ScanWords
<1> QED
  BY <1>1, <1>2, <1>3, <1>4, <1>5, <1>6, <1>7, <1>8, <1>9, <1>10, <1>11,
     <1>12, <1>13, <1>14, <1>15, <1>16, <1>17, <1>18, <1>19
  DEF Next, Allocator, Marking, Sweeping, TigerProgram

LEMMA TypeInitial == Init => TypeOK
BY GcAssumption, WordTypes, PairType DEF Init, TypeOK, ScanWords

\* Every variable of the run time keeps its type.
THEOREM TypeCorrect == Spec => []TypeOK
BY TypeInitial, TypePreserved, PTL DEF Spec

-----------------------------------------------------------------------------
(* The inductive invariant, first outside the collection.                  *)

LEMMA InitialInvariant == Init => IInv
<1> SUFFICES ASSUME Init PROVE IInv
  OBVIOUS
<1>1. Blocks = {}
  BY ToSetEmpty DEF Init, Blocks
<1>2. held[1] = Zero /\ held[2] = Zero
  BY DEF Init
<1> QED BY <1>1, <1>2, TypeInitial
        DEF Init, IInv, Phases, MarksClear, MarkInv, SweepInv, NoDangling, Zero

\* The values a run time frame can take keep NoDangling.
LEMMA SameBlocks ==
  ASSUME UNCHANGED <<heap, h>>
  PROVE  Blocks' = Blocks
BY DEF Blocks

\* A step of the program or of the allocator that changes no block.
LEMMA QuietStep ==
  ASSUME IInv, TypeOK', UNCHANGED <<collector, memory>>,
         pc \notin {"mark", "sweep"}, pc' # "sweep",
         \A s \in 1..Slots : stack'[s].ref => stack'[s].addr \in Blocks,
         \A k \in 1..2 : held'[k].ref => held'[k].addr \in Blocks
  PROVE  IInv'
<1> USE DEF collector, memory
<1>1. Blocks' = Blocks
  BY SameBlocks
<1>2. Phases' /\ SweepInv'
  BY DEF IInv, Phases, SweepInv
<1>3. MarksClear' /\ (\A a \in Blocks : ~marked'[a])
  BY <1>1 DEF IInv, MarksClear
<1>4. MarkInv'
  BY <1>1, <1>3 DEF IInv, MarkInv, Phases
<1>5. NoDangling'
  BY <1>1 DEF IInv, NoDangling
<1> QED BY <1>2, <1>3, <1>4, <1>5 DEF IInv

LEMMA CallAllocInvariant ==
  ASSUME IInv, CallAlloc, TypeOK' PROVE IInv'
<1>1. \A s \in 1..Slots : stack'[s] \in {stack[s], Zero}
  BY DEF CallAlloc, IInv, TypeOK
<1>2. \A k \in 1..2 : \/ held'[k] \in {held[k], Zero}
                      \/ \E t \in 1..Slots : held'[k] = stack[t]
  <2>1. CASE UNCHANGED held
    BY <2>1
  <2>2. CASE \E t \in 1..Slots : held' = <<stack[t], Zero>>
    <3>1. \A k \in 1..2 : k = 1 \/ k = 2
      OBVIOUS
    <3> QED BY <2>2, <3>1
  <2> QED BY <2>1, <2>2 DEF CallAlloc
<1>3. ~Zero.ref
  BY DEF Zero
<1>4. /\ \A s \in 1..Slots : stack'[s].ref => stack'[s].addr \in Blocks
      /\ \A k \in 1..2 : held'[k].ref => held'[k].addr \in Blocks
  BY <1>1, <1>2, <1>3 DEF IInv, NoDangling
<1> QED BY <1>4, QuietStep DEF CallAlloc

LEMMA MallocInvariant ==
  ASSUME IInv, Malloc, TypeOK' PROVE IInv'
<1>1. PICK a \in Addr \ Blocks :
        /\ heap' = <<a>> \o heap
        /\ marked' = [marked EXCEPT ![a] = FALSE]
        /\ size' = [size EXCEPT ![a] = req.words]
        /\ f' = [f EXCEPT ![a] = [i \in 1..MaxWords |->
                                    IF i <= req.words THEN held[1] ELSE Zero]]
        /\ stack' = [stack EXCEPT ![req.slot] = Ref(a)]
  BY DEF Malloc
<1>2. Blocks' = Blocks \cup {a}
  BY <1>1, ToSetPush DEF Blocks, Malloc, IInv, TypeOK
<1>3. Phases' /\ SweepInv' /\ MarkInv'
  BY DEF Malloc, IInv, Phases, SweepInv, MarkInv
<1>4. MarksClear'
  BY <1>1, <1>2 DEF Malloc, IInv, MarksClear, TypeOK
<1>5. \A b \in Blocks' : \A i \in 1..size'[b] :
        f'[b][i].ref => f'[b][i].addr \in Blocks'
  <2>1. SUFFICES ASSUME NEW b \in Blocks', NEW i \in 1..size'[b],
                        f'[b][i].ref
                 PROVE  f'[b][i].addr \in Blocks'
    OBVIOUS
  <2>2. CASE b = a
    <3>1. req.words \in 0..MaxWords /\ size'[b] = req.words
      BY <1>1, <2>2 DEF IInv, TypeOK
    <3>2. f'[b] = [j \in 1..MaxWords |->
                     IF j <= req.words THEN held[1] ELSE Zero]
      BY <1>1, <2>2 DEF IInv, TypeOK
    <3>3. i \in 1..MaxWords /\ i <= req.words
      BY <2>1, <3>1, GcAssumption
    <3>4. f'[b][i] = held[1]
      BY <3>2, <3>3
    <3> QED BY <1>2, <2>1, <3>4 DEF IInv, NoDangling
  <2>3. CASE b # a
    <3>1. f'[b] = f[b] /\ size'[b] = size[b] /\ b \in Blocks
      BY <1>1, <1>2, <2>3, BlocksType DEF IInv, TypeOK
    <3> QED BY <1>2, <2>1, <3>1 DEF IInv, NoDangling, Malloc
  <2> QED BY <2>2, <2>3
<1>6. \A s \in 1..Slots : stack'[s].ref => stack'[s].addr \in Blocks'
  BY <1>1, <1>2 DEF IInv, NoDangling, TypeOK, Ref
<1>7. \A k \in 1..2 : held'[k] = Zero
  BY DEF Malloc
<1>8. pc' = "tiger" /\ ~Zero.ref
  BY DEF Malloc, Zero
<1>9. NoDangling'
  BY <1>5, <1>6, <1>7, <1>8 DEF NoDangling
<1> QED BY <1>3, <1>4, <1>9 DEF IInv

\* What EnterCollect leaves in the run time's frame.
LEMMA EnterCollectHeld ==
  ASSUME IInv, EnterCollect
  PROVE  \A k \in 1..2 : held'[k].ref => held'[k].addr \in Blocks
<1>1. PICK stale \in {Number(a) : a \in Addr} \cup {Zero} :
        held' = <<held[1], stale>>
  BY DEF EnterCollect
<1>2. ~stale.ref
  BY <1>1 DEF Number, Zero
<1>3. \A k \in 1..2 : k = 1 \/ k = 2
  OBVIOUS
<1> QED BY <1>1, <1>2, <1>3 DEF IInv, NoDangling

LEMMA AllocatorInvariant ==
  ASSUME IInv, MallocNodeFails \/ MallocCollects \/ MallocFails, TypeOK'
  PROVE  IInv'
<1>1. CASE MallocNodeFails
  <2>1. Blocks' = Blocks
    BY <1>1, SameBlocks DEF MallocNodeFails, collector
  <2>2. Phases' /\ SweepInv' /\ MarkInv' /\ MarksClear'
    BY <1>1, <2>1 DEF MallocNodeFails, collector, IInv, Phases, SweepInv,
                      MarkInv, MarksClear
  <2>3. NoDangling'
    BY <1>1, <2>1 DEF MallocNodeFails, collector, IInv, NoDangling
  <2> QED BY <2>2, <2>3 DEF IInv
<1>2. CASE MallocCollects
  <2>1. \A k \in 1..2 : held'[k].ref => held'[k].addr \in Blocks
    BY <1>2, EnterCollectHeld DEF MallocCollects, IInv, NoDangling
  <2>2. pc' # "sweep"
    BY <1>2 DEF MallocCollects
  <2>3. \A s \in 1..Slots : stack'[s].ref => stack'[s].addr \in Blocks
    BY <1>2 DEF MallocCollects, IInv, NoDangling
  <2> QED BY <1>2, <2>1, <2>2, <2>3, QuietStep DEF MallocCollects
<1>3. CASE MallocFails
  <2>1. /\ \A s \in 1..Slots : stack'[s].ref => stack'[s].addr \in Blocks
        /\ \A k \in 1..2 : held'[k].ref => held'[k].addr \in Blocks
    BY <1>3 DEF MallocFails, IInv, NoDangling
  <2> QED BY <1>3, <2>1, QuietStep DEF MallocFails
<1> QED BY <1>1, <1>2, <1>3

LEMMA ControlInvariant ==
  ASSUME IInv, GcRun \/ GcEnable \/ Return, TypeOK'
  PROVE  IInv'
<1>1. \A s \in 1..Slots : stack'[s].ref => stack'[s].addr \in Blocks
  BY DEF GcRun, GcEnable, Return, IInv, NoDangling
<1>2. \A k \in 1..2 : held'[k].ref => held'[k].addr \in Blocks
  BY EnterCollectHeld DEF GcRun, GcEnable, Return, IInv, NoDangling
<1>3. /\ UNCHANGED <<collector, memory>>
      /\ pc = "tiger" /\ pc' \in {"tiger", "mark", "done"}
  BY DEF GcRun, GcEnable, Return
<1> QED BY <1>1, <1>2, <1>3, QuietStep

LEMMA ProgramInvariant ==
  ASSUME IInv, SetInt \/ Load \/ Store, TypeOK'
  PROVE  IInv'
<1> USE GcAssumption
<1>1. CASE SetInt
  <2>1. \A s \in 1..Slots : stack'[s] = stack[s] \/ ~stack'[s].ref
    BY <1>1 DEF SetInt, IInv, TypeOK, Number, Zero
  <2>2. /\ \A s \in 1..Slots : stack'[s].ref => stack'[s].addr \in Blocks
        /\ \A k \in 1..2 : held'[k].ref => held'[k].addr \in Blocks
    BY <1>1, <2>1 DEF SetInt, Program, IInv, NoDangling
  <2> QED BY <1>1, <2>2, QuietStep DEF SetInt, Program
<1>2. CASE Load
  <2>1. PICK s \in 1..Slots, t \in 1..Slots :
          /\ stack[t].ref
          /\ \E i \in 1..size[stack[t].addr] :
               stack' = [stack EXCEPT ![s] = f[stack[t].addr][i]]
    BY <1>2 DEF Load
  <2>2. stack[t].addr \in Blocks
    BY <2>1 DEF IInv, NoDangling
  <2>3. \A r \in 1..Slots : \/ stack'[r] = stack[r]
                            \/ \E i \in 1..size[stack[t].addr] :
                                 stack'[r] = f[stack[t].addr][i]
    BY <2>1 DEF IInv, TypeOK
  <2>4. \A r \in 1..Slots : stack'[r].ref => stack'[r].addr \in Blocks
    BY <1>2, <2>2, <2>3 DEF Load, IInv, NoDangling
  <2>5. \A k \in 1..2 : held'[k].ref => held'[k].addr \in Blocks
    BY <1>2 DEF Load, Program, IInv, NoDangling
  <2> QED BY <1>2, <2>4, <2>5, QuietStep DEF Load, Program
<1>3. CASE Store
  <2> PICK s \in 1..Slots, t \in 1..Slots :
          /\ stack[t].ref
          /\ \E i \in 1..size[stack[t].addr] :
               f' = [f EXCEPT ![stack[t].addr][i] = stack[s]]
    BY <1>3 DEF Store
  <2>1. PICK i \in 1..size[stack[t].addr] :
          f' = [f EXCEPT ![stack[t].addr][i] = stack[s]]
    OBVIOUS
  <2>2. /\ stack[t].addr \in Blocks /\ stack[t].addr \in Addr
        /\ stack[s].ref => stack[s].addr \in Blocks
    BY <2>1, BlocksType DEF IInv, NoDangling
  <2>3. Blocks' = Blocks /\ size' = size
    BY <1>3, SameBlocks DEF Store, collector
  <2>4. \A a \in Blocks : \A j \in 1..size[a] :
          f'[a][j] = f[a][j] \/ f'[a][j] = stack[s]
    <3> DEFINE b == stack[t].addr
    <3>1. f'[b] = [f[b] EXCEPT ![i] = stack[s]]
      BY <2>1, <2>2 DEF IInv, TypeOK
    <3>2. f[b] \in [1..MaxWords -> Word] /\ size[b] \in 0..MaxWords
      BY <2>2 DEF IInv, TypeOK
    <3>3. \A a \in Addr : a # b => f'[a] = f[a]
      BY <2>1, <2>2 DEF IInv, TypeOK
    <3>4. \A j \in 1..size[b] : f'[b][j] = f[b][j] \/ f'[b][j] = stack[s]
      BY <3>1, <3>2
    <3> QED BY <3>3, <3>4, BlocksType DEF IInv
  <2>5. NoDangling'
    BY <1>3, <2>2, <2>3, <2>4 DEF Store, IInv, NoDangling
  <2>6. Phases' /\ SweepInv' /\ MarkInv' /\ MarksClear'
    BY <1>3, <2>3 DEF Store, collector, IInv, Phases, SweepInv, MarkInv,
                      MarksClear
  <2> QED BY <2>5, <2>6 DEF IInv
<1> QED BY <1>1, <1>2, <1>3

-----------------------------------------------------------------------------
(* The inductive invariant during the marking.                             *)

\* The words scanned do not change while nothing but the collector runs.
LEMMA SameScan ==
  ASSUME UNCHANGED <<stack, held>>
  PROVE  /\ \A k : ScanWord(k)' = ScanWord(k)
         /\ ScannedAddrs' = ScannedAddrs
BY DEF ScanWord, ScannedAddrs, ScanWords

\* DFS only adds marks, and marks the block it is called for.
LEMMA VisitMarks ==
  ASSUME TypeOK, NEW w, NEW below, Visit(w, below)
  PROVE  /\ \A a \in Addr : marked[a] => marked'[a]
         /\ w.addr \in Blocks => marked'[w.addr]
         /\ \A a \in Addr : marked'[a] /\ ~marked[a] =>
              /\ a = w.addr /\ a \in Blocks
              /\ dfs' = Append(below, [obj |-> a, i |-> 1])
BY BlocksType DEF Visit, TypeOK

\* A call of DFS for a word leaves the frames below it as they were.
LEMMA VisitFrames ==
  ASSUME NEW w, NEW below \in Seq(Frame), Visit(w, below)
  PROVE  /\ Len(dfs') >= Len(below)
         /\ \A k \in 1..Len(below) : k \in 1..Len(dfs') /\ dfs'[k] = below[k]
<1>1. CASE dfs' = below
  BY <1>1
<1>2. CASE dfs' = Append(below, [obj |-> w.addr, i |-> 1])
  BY <1>2
<1> QED BY <1>1, <1>2 DEF Visit

LEMMA MarkRootInvariant ==
  ASSUME IInv, MarkRoot, TypeOK' PROVE IInv'
<1> USE GcAssumption DEF memory
<1> DEFINE w == ScanWord(scan + 1)
<1>1. Visit(w, dfs) /\ dfs = <<>> /\ scan' = scan + 1
  BY DEF MarkRoot
<1>2. Blocks' = Blocks /\ f' = f /\ size' = size
  BY SameBlocks DEF MarkRoot
<1>3. scan \in Nat /\ \A k \in 1..scan' : k \in 1..scan \/ k = scan + 1
  BY <1>1 DEF IInv, TypeOK, ScanWords
<1>4. \A k : ScanWord(k)' = ScanWord(k)
  BY SameScan DEF MarkRoot
<1> HIDE DEF w
<1>5. \A k \in 1..scan' :
        ScanWord(k)'.addr \in Blocks => marked'[ScanWord(k)'.addr]
  <2>1. \A k \in 1..scan :
          ScanWord(k).addr \in Blocks => marked[ScanWord(k).addr]
    BY DEF MarkRoot, IInv, MarkInv
  <2>2. \A k \in 1..scan :
          ScanWord(k).addr \in Blocks => marked'[ScanWord(k).addr]
    BY <2>1, <1>1, VisitMarks, BlocksType DEF IInv
  <2>3. w.addr \in Blocks => marked'[w.addr]
    BY <1>1, VisitMarks DEF IInv
  <2> QED BY <1>3, <1>4, <2>2, <2>3 DEF w
<1>6. \A a \in Blocks : marked'[a] => \A i \in 1..size[a] :
        f[a][i].addr \in Blocks => marked'[f[a][i].addr] \/ Pending(a, i)'
  <2>1. SUFFICES ASSUME NEW a \in Blocks, marked'[a], NEW i \in 1..size[a],
                        f[a][i].addr \in Blocks
                 PROVE  marked'[f[a][i].addr] \/ Pending(a, i)'
    OBVIOUS
  <2>2. CASE marked[a]
    <3>1. ~Pending(a, i)
      BY <1>1 DEF Pending
    <3>2. marked[f[a][i].addr]
      BY <2>1, <2>2, <3>1 DEF MarkRoot, IInv, MarkInv
    <3> QED BY <2>1, <3>2, <1>1, VisitMarks, BlocksType DEF IInv
  <2>3. CASE ~marked[a]
    <3>1. dfs' = Append(<<>>, [obj |-> a, i |-> 1])
      BY <1>1, <2>1, <2>3, VisitMarks, BlocksType DEF IInv
    <3>2. /\ 1 \in 1..Len(dfs')
          /\ dfs'[1].obj = a /\ dfs'[1].i = 1
      BY <3>1
    <3>3. 1 <= i
      OBVIOUS
    <3> QED BY <3>2, <3>3 DEF Pending
  <2> QED BY <2>2, <2>3
<1>7. MarkInv'
  BY <1>2, <1>5, <1>6 DEF MarkInv
<1>8. NoDangling'
  BY <1>2 DEF MarkRoot, IInv, NoDangling
<1>9. Phases' /\ SweepInv' /\ MarksClear'
  BY DEF MarkRoot, IInv, Phases, SweepInv, MarksClear
<1> QED BY <1>7, <1>8, <1>9 DEF IInv

LEMMA MarkFieldInvariant ==
  ASSUME IInv, MarkField, TypeOK' PROVE IInv'
<1> USE GcAssumption DEF memory
<1> DEFINE w == f[Top.obj][Top.i]
           t == [obj |-> Top.obj, i |-> Top.i + 1]
           below == Append(Below, t)
<1>1. Visit(w, below)
  BY DEF MarkField
<1>2. Blocks' = Blocks /\ f' = f /\ size' = size
  BY SameBlocks DEF MarkField
<1>3. /\ Top \in Frame /\ Len(dfs) \in Nat \ {0} /\ Below \in Seq(Frame)
      /\ Len(Below) = Len(dfs) - 1
      /\ \A k \in 1..Len(dfs) - 1 : Below[k] = dfs[k]
  BY TopBelow DEF MarkField, IInv, TypeOK
<1>4. t \in Frame
  BY <1>3 DEF Frame
<1>5. /\ below \in Seq(Frame) /\ Len(below) = Len(dfs)
      /\ \A k \in 1..Len(dfs) - 1 : below[k] = dfs[k]
      /\ below[Len(dfs)] = t
  BY <1>3, <1>4
<1> HIDE DEF below
<1>6. /\ Len(dfs') >= Len(dfs)
      /\ \A k \in 1..Len(dfs) : k \in 1..Len(dfs') /\ dfs'[k] = below[k]
  BY <1>1, <1>5, VisitFrames
<1> HIDE DEF w
<1>7. \A k \in 1..scan' :
        ScanWord(k)'.addr \in Blocks => marked'[ScanWord(k)'.addr]
  <2>1. \A k \in 1..scan :
          ScanWord(k).addr \in Blocks => marked[ScanWord(k).addr]
    BY DEF MarkField, IInv, MarkInv
  <2> QED BY <2>1, <1>1, VisitMarks, BlocksType, SameScan DEF IInv, MarkField
<1>8. \A a \in Blocks : marked'[a] => \A i \in 1..size[a] :
        f[a][i].addr \in Blocks => marked'[f[a][i].addr] \/ Pending(a, i)'
  <2>1. SUFFICES ASSUME NEW a \in Blocks, marked'[a], NEW i \in 1..size[a],
                        f[a][i].addr \in Blocks
                 PROVE  marked'[f[a][i].addr] \/ Pending(a, i)'
    OBVIOUS
  <2>2. CASE marked[a] /\ ~Pending(a, i)
    <3>1. marked[f[a][i].addr]
      BY <2>1, <2>2 DEF MarkField, IInv, MarkInv
    <3> QED BY <2>1, <3>1, <1>1, VisitMarks, BlocksType DEF IInv
  <2>3. CASE Pending(a, i)
    <3>1. PICK k \in 1..Len(dfs) : dfs[k].obj = a /\ dfs[k].i <= i
      BY <2>3 DEF Pending
    <3>2. CASE k # Len(dfs)
      <4>1. k \in 1..Len(dfs) - 1
        BY <1>3, <3>2
      <4>2. k \in 1..Len(dfs') /\ dfs'[k] = dfs[k]
        BY <1>5, <1>6, <4>1
      <4> QED BY <3>1, <4>2 DEF Pending
    <3>3. CASE k = Len(dfs) /\ Top.i # i
      <4>1. Top.obj = a /\ Top.i <= i /\ Top.i \in Nat
        BY <1>3, <3>1, <3>3 DEF Top, Frame
      <4>2. t.obj = a /\ t.i <= i
        BY <3>3, <4>1
      <4>3. k \in 1..Len(dfs') /\ dfs'[k] = t
        BY <1>5, <1>6, <3>1, <3>3
      <4> QED BY <4>2, <4>3 DEF Pending
    <3>4. CASE k = Len(dfs) /\ Top.i = i
      <4>1. w = f[a][i]
        BY <3>1, <3>4 DEF w, Top
      <4> QED BY <2>1, <4>1, <1>1, VisitMarks DEF IInv
    <3> QED BY <3>2, <3>3, <3>4
  <2>4. CASE ~marked[a]
    <3>1. dfs' = Append(below, [obj |-> a, i |-> 1])
      BY <1>1, <2>1, <2>4, VisitMarks, BlocksType DEF IInv
    <3>2. /\ Len(dfs') = Len(below) + 1
          /\ dfs'[Len(below) + 1] = [obj |-> a, i |-> 1]
      BY <3>1, <1>5
    <3>3. Len(below) + 1 \in 1..Len(dfs') /\ 1 <= i
      BY <3>2, <1>5, <1>3
    <3> QED BY <3>2, <3>3 DEF Pending
  <2> QED BY <2>2, <2>3, <2>4
<1>9. MarkInv'
  BY <1>2, <1>7, <1>8 DEF MarkInv
<1>10. NoDangling'
  BY <1>2 DEF MarkField, IInv, NoDangling
<1>11. Phases' /\ SweepInv' /\ MarksClear'
  BY DEF MarkField, IInv, Phases, SweepInv, MarksClear
<1> QED BY <1>9, <1>10, <1>11 DEF IInv

LEMMA MarkReturnInvariant ==
  ASSUME IInv, MarkReturn, TypeOK' PROVE IInv'
<1> USE GcAssumption DEF memory
<1>1. Blocks' = Blocks /\ f' = f /\ size' = size /\ marked' = marked
  BY SameBlocks DEF MarkReturn
<1>2. /\ Len(dfs) \in Nat \ {0} /\ Len(dfs') = Len(dfs) - 1
      /\ \A k \in 1..Len(dfs) - 1 : dfs'[k] = dfs[k]
  BY TopBelow DEF MarkReturn, IInv, TypeOK
<1>3. \A a \in Blocks : \A i \in 1..size[a] : Pending(a, i) => Pending(a, i)'
  <2>1. SUFFICES ASSUME NEW a \in Blocks, NEW i \in 1..size[a], Pending(a, i)
                 PROVE  Pending(a, i)'
    OBVIOUS
  <2>2. PICK k \in 1..Len(dfs) : dfs[k].obj = a /\ dfs[k].i <= i
    BY <2>1 DEF Pending
  <2>3. k # Len(dfs)
    <3>1. SUFFICES ASSUME k = Len(dfs) PROVE FALSE
      OBVIOUS
    <3>2. Top.obj = a /\ Top.i <= i /\ Top.i > size[a] /\ Top.i \in Nat
      BY <2>2, <3>1, TopBelow DEF MarkReturn, Top, IInv, TypeOK, Frame
    <3>3. size[a] \in Nat
      BY BlocksType DEF IInv, TypeOK
    <3> QED BY <3>2, <3>3
  <2>4. k \in 1..Len(dfs') /\ dfs'[k] = dfs[k]
    BY <1>2, <2>3
  <2> QED BY <2>2, <2>4 DEF Pending
<1>4. MarkInv'
  BY <1>1, <1>3, SameScan DEF MarkReturn, IInv, MarkInv
<1>5. NoDangling'
  BY <1>1 DEF MarkReturn, IInv, NoDangling
<1>6. Phases' /\ SweepInv' /\ MarksClear'
  BY DEF MarkReturn, IInv, Phases, SweepInv, MarksClear
<1> QED BY <1>4, <1>5, <1>6 DEF IInv

-----------------------------------------------------------------------------
(* The inductive invariant during the sweep.                               *)

LEMMA MarkDoneInvariant ==
  ASSUME IInv, MarkDone, TypeOK' PROVE IInv'
<1> USE GcAssumption DEF memory
<1>1. /\ h' = heap /\ heap' = <<>> /\ h = <<>>
      /\ pc' = "sweep" /\ dfs = <<>> /\ scan = ScanWords
      /\ UNCHANGED <<marked, f, size, stack, held>>
  BY DEF MarkDone, IInv, Phases
<1>2. Blocks' = Blocks /\ Blocks = ToSet(heap)
  BY <1>1, ToSetEmpty DEF Blocks
<1>3. Kept' = {a \in Blocks : marked[a]}
  BY <1>1, <1>2, ToSetEmpty DEF Kept
<1>4. \A a \in Blocks : \A i \in 1..size[a] : ~Pending(a, i)
  BY <1>1 DEF Pending
<1>5. \A k \in 1..ScanWords :
        ScanWord(k).addr \in Blocks => marked[ScanWord(k).addr]
  BY <1>1 DEF MarkDone, IInv, MarkInv
<1>6. ScannedAddrs' \cap Blocks' \subseteq Kept'
  BY <1>1, <1>2, <1>3, <1>5, SameScan DEF ScannedAddrs
<1>7. \A a \in Kept' : Targets(a)' \cap Blocks \subseteq Kept'
  BY <1>1, <1>2, <1>3, <1>4 DEF MarkDone, IInv, MarkInv, Targets
<1>8. SweepInv'
  BY <1>1, <1>2, <1>6, <1>7, ToSetEmpty DEF SweepInv, Closed
<1>9. NoDangling'
  BY <1>1, <1>2, <1>3 DEF MarkDone, IInv, NoDangling
<1>10. Phases' /\ MarkInv' /\ MarksClear'
  BY <1>1 DEF MarkDone, Phases, MarkInv, MarksClear
<1> QED BY <1>8, <1>9, <1>10 DEF IInv

LEMMA SweepKeepInvariant ==
  ASSUME IInv, SweepKeep, TypeOK' PROVE IInv'
<1> USE GcAssumption DEF memory
<1> DEFINE x == Head(h)
<1>1. /\ x \in Addr /\ marked[x] /\ h' = Tail(h) /\ heap' = Append(heap, x)
      /\ ToSet(h) = {x} \cup ToSet(h')
      /\ ToSet(heap') = ToSet(heap) \cup {x}
      /\ marked' = [marked EXCEPT ![x] = FALSE]
  BY ToSetAppend, ToSetHeadTail DEF SweepKeep, IInv, TypeOK
<1>2. ToSet(h) \subseteq Addr /\ ToSet(heap) \subseteq Addr
  BY ToSetType DEF IInv, TypeOK
<1> HIDE DEF x
<1>3. Blocks' = Blocks
  BY <1>1 DEF Blocks
<1>4. Kept' = Kept
  BY <1>1, <1>2 DEF Kept, IInv, TypeOK
<1>5. UNCHANGED <<f, size, stack, held>> /\ pc = "sweep" /\ pc' = "sweep"
  BY DEF SweepKeep
<1>6. \A a \in ToSet(heap') : ~marked'[a]
  BY <1>1, <1>2, <1>5 DEF IInv, TypeOK, SweepInv
<1>7. ScannedAddrs' = ScannedAddrs /\ \A a : Targets(a)' = Targets(a)
  BY <1>5, SameScan DEF Targets
<1>8. SweepInv'
  BY <1>3, <1>4, <1>5, <1>6, <1>7 DEF IInv, SweepInv, Closed
<1>9. NoDangling'
  BY <1>3, <1>4, <1>5 DEF IInv, NoDangling
<1>10. Phases' /\ MarkInv' /\ MarksClear'
  BY <1>5 DEF SweepKeep, IInv, Phases, MarkInv, MarksClear
<1> QED BY <1>8, <1>9, <1>10 DEF IInv

\* What a SweepFree leaves alone: the blocks it keeps and their words.
LEMMA SweepFreeKeeps ==
  ASSUME IInv, SweepFree
  PROVE  /\ Kept' = Kept
         /\ Kept \subseteq Blocks'
         /\ Blocks' \subseteq Blocks
         /\ Blocks \ Kept = {a \in ToSet(h) : ~marked[a]} \ ToSet(heap)
         /\ \A a \in Kept \ ToSet(heap) : a # Head(h)
         /\ Head(h) \in Addr
<1> DEFINE x == Head(h)
<1>1. /\ x \in Addr /\ ~marked[x] /\ h' = Tail(h) /\ heap' = heap
      /\ ToSet(h) = {x} \cup ToSet(h')
      /\ marked' = marked
  BY ToSetHeadTail DEF SweepFree, IInv, TypeOK
<1> HIDE DEF x
<1> QED BY <1>1 DEF Blocks, Kept, x

LEMMA SweepFreeInvariant ==
  ASSUME IInv, SweepFree, TypeOK' PROVE IInv'
<1> USE GcAssumption DEF memory
<1> DEFINE x == Head(h)
<1>1. /\ Kept' = Kept /\ Kept \subseteq Blocks' /\ Blocks' \subseteq Blocks
      /\ x \in Addr
  BY SweepFreeKeeps
<1>2. /\ UNCHANGED <<heap, marked, stack, held>> /\ pc = "sweep" /\ pc' = "sweep"
      /\ f' = [f EXCEPT ![x] = ZeroBlock] /\ size' = [size EXCEPT ![x] = 0]
  BY DEF SweepFree
<1> HIDE DEF x
<1>3. \A a \in Kept : \A i \in 1..size'[a] : i \in 1..size[a] /\ f'[a][i] = f[a][i]
  <2>1. Kept \subseteq Addr
    BY BlocksType DEF IInv, Kept, Blocks
  <2> QED BY <1>1, <1>2, <2>1 DEF IInv, TypeOK
<1>4. ScannedAddrs' = ScannedAddrs
  BY <1>2, SameScan
<1>5. ScannedAddrs' \cap Blocks' \subseteq Kept'
  BY <1>1, <1>2, <1>4 DEF IInv, SweepInv
<1>6. \A a \in Kept : Targets(a)' \subseteq Targets(a)
  BY <1>3 DEF Targets
<1>7. \A a \in Kept' : Targets(a)' \cap Blocks' \subseteq Kept'
  BY <1>1, <1>2, <1>6 DEF IInv, SweepInv, Closed
<1>8. SweepInv'
  BY <1>2, <1>5, <1>7 DEF IInv, SweepInv, Closed
<1>9. \A s \in 1..Slots : stack[s].ref => stack[s].addr \in Blocks'
  <2>1. SUFFICES ASSUME NEW s \in 1..Slots, stack[s].ref
                 PROVE  stack[s].addr \in Blocks'
    OBVIOUS
  <2>2. s + 2 \in 1..ScanWords /\ ScanWord(s + 2) = stack[s]
    BY DEF ScanWord, ScanWords
  <2>3. stack[s].addr \in ScannedAddrs
    BY <2>2 DEF ScannedAddrs
  <2> QED BY <1>1, <1>2, <2>1, <2>3 DEF IInv, SweepInv, NoDangling
<1>10. \A k \in 1..2 : held[k].ref => held[k].addr \in Blocks'
  <2>1. SUFFICES ASSUME NEW k \in 1..2, held[k].ref
                 PROVE  held[k].addr \in Blocks'
    OBVIOUS
  <2>2. k \in 1..ScanWords /\ ScanWord(k) = held[k]
    BY DEF ScanWord, ScanWords
  <2>3. held[k].addr \in ScannedAddrs
    BY <2>2 DEF ScannedAddrs
  <2> QED BY <1>1, <1>2, <2>1, <2>3 DEF IInv, SweepInv, NoDangling
<1>11. \A a \in Kept : \A i \in 1..size'[a] :
         f'[a][i].ref => f'[a][i].addr \in Blocks'
  <2>1. SUFFICES ASSUME NEW a \in Kept, NEW i \in 1..size'[a], f'[a][i].ref
                 PROVE  f'[a][i].addr \in Blocks'
    OBVIOUS
  <2>2. i \in 1..size[a] /\ f'[a][i] = f[a][i]
    BY <1>3
  <2>3. f[a][i].addr \in Blocks /\ f[a][i].addr \in Targets(a)
    BY <1>2, <2>1, <2>2 DEF IInv, NoDangling, Targets
  <2> QED BY <1>1, <1>2, <2>2, <2>3 DEF IInv, SweepInv, Closed
<1>12. NoDangling'
  BY <1>1, <1>2, <1>9, <1>10, <1>11 DEF NoDangling
<1>13. Phases' /\ MarkInv' /\ MarksClear'
  BY <1>2 DEF SweepFree, IInv, Phases, MarkInv, MarksClear
<1> QED BY <1>8, <1>12, <1>13 DEF IInv

LEMMA SweepDoneInvariant ==
  ASSUME IInv, SweepDone, TypeOK' PROVE IInv'
<1> USE DEF collector, memory
<1>1. /\ UNCHANGED <<heap, h, marked, f, size, stack>> /\ h = <<>>
      /\ pc = "sweep" /\ pc' \in {"tiger", "retry"}
  BY DEF SweepDone, IInv, TypeOK
<1>2. Blocks' = Blocks /\ Blocks = ToSet(heap) /\ Kept = Blocks
  BY <1>1, ToSetEmpty DEF Blocks, Kept
<1>3. \A k \in 1..2 : held'[k] \in {held[k], Zero}
  <2>1. \A k \in 1..2 : k = 1 \/ k = 2
    OBVIOUS
  <2> QED BY <2>1 DEF SweepDone
<1>4. ~Zero.ref
  BY DEF Zero
<1>5. NoDangling'
  BY <1>1, <1>2, <1>3, <1>4 DEF IInv, NoDangling
<1>6. MarksClear'
  BY <1>1, <1>2 DEF IInv, SweepInv, MarksClear
<1>7. Phases' /\ MarkInv' /\ SweepInv'
  BY <1>1 DEF SweepDone, IInv, Phases, MarkInv, SweepInv
<1> QED BY <1>5, <1>6, <1>7 DEF IInv

LEMMA StutterInvariant ==
  ASSUME IInv, UNCHANGED vars, TypeOK' PROVE IInv'
<1>1. Blocks' = Blocks /\ Kept' = Kept /\ ScannedAddrs' = ScannedAddrs
  BY SameScan, SameBlocks DEF vars, Kept
<1>2. /\ \A k : ScanWord(k)' = ScanWord(k)
      /\ \A a : Targets(a)' = Targets(a)
      /\ \A a, i : Pending(a, i)' = Pending(a, i)
  BY SameScan DEF vars, Targets, Pending
<1> QED BY <1>1, <1>2 DEF vars, IInv, Phases, MarksClear, MarkInv, SweepInv,
                          Closed, NoDangling

-----------------------------------------------------------------------------
(* The theorems.                                                           *)

LEMMA InvariantPreserved == IInv /\ [Next]_vars => IInv'
<1> SUFFICES ASSUME IInv, [Next]_vars PROVE IInv'
  OBVIOUS
<1>1. TypeOK'
  BY TypePreserved DEF IInv
<1> QED
  BY <1>1, CallAllocInvariant, MallocInvariant, AllocatorInvariant,
     ControlInvariant, ProgramInvariant, MarkRootInvariant,
     MarkFieldInvariant, MarkReturnInvariant, MarkDoneInvariant,
     SweepKeepInvariant, SweepFreeInvariant, SweepDoneInvariant,
     StutterInvariant
  DEF Next, Allocator, Marking, Sweeping, TigerProgram

\* The inductive invariant holds in every reachable state.
THEOREM Invariance == Spec => []IInv
BY InitialInvariant, InvariantPreserved, PTL DEF Spec

\* No reference the program holds, or can load from a block outside the sweep,
\* ever denotes freed memory, however the program, its integers that look like
\* addresses and the allocation failures interleave.
THEOREM NeverDangling == Spec => []NoDangling
<1>1. IInv => NoDangling
  BY DEF IInv
<1> QED BY <1>1, Invariance, PTL

\* No collection starts from, or leaves behind, a mark of an earlier one.
THEOREM MarksAreClear == Spec => []MarksClear
<1>1. IInv => MarksClear
  BY DEF IInv
<1> QED BY <1>1, Invariance, PTL

-----------------------------------------------------------------------------
(* The list holds a block once.                                            *)

LEMMA InjectivePush ==
  ASSUME NEW S, NEW s \in Seq(S), NEW x \in S, IsInjective(s), x \notin ToSet(s)
  PROVE  IsInjective(<<x>> \o s)
<1> DEFINE t == <<x>> \o s
<1>1. /\ t \in Seq(S) /\ Len(t) = Len(s) + 1 /\ t[1] = x
      /\ \A i \in 1..Len(s) : t[i + 1] = s[i]
  BY ConcatProperties
<1>2. \A i \in 2..Len(t) : i - 1 \in 1..Len(s) /\ t[i] = s[i - 1]
  <2>1. SUFFICES ASSUME NEW i \in 2..Len(t)
                 PROVE  i - 1 \in 1..Len(s) /\ t[i] = s[i - 1]
    OBVIOUS
  <2>2. i - 1 \in 1..Len(s) /\ (i - 1) + 1 = i
    BY <1>1
  <2> QED BY <1>1, <2>2
<1>3. DOMAIN t = 1..Len(t) /\ DOMAIN s = 1..Len(s) /\ Len(t) \in Nat
  BY <1>1
<1> HIDE DEF t
<1>4. \A i \in 2..Len(t) : t[i] # x
  BY <1>2, <1>3 DEF ToSet
<1>5. \A i, j \in 1..Len(t) : t[i] = t[j] => i = j
  <2>1. SUFFICES ASSUME NEW i \in 1..Len(t), NEW j \in 1..Len(t), t[i] = t[j]
                 PROVE  i = j
    OBVIOUS
  <2>2. CASE i = 1 \/ j = 1
    <3>1. i \notin 2..Len(t) /\ j \notin 2..Len(t)
      BY <1>1, <1>4, <2>1, <2>2
    <3> QED BY <3>1, <1>3
  <2>3. CASE i # 1 /\ j # 1
    <3>1. i \in 2..Len(t) /\ j \in 2..Len(t)
      BY <2>3
    <3>2. s[i - 1] = s[j - 1] /\ i - 1 \in 1..Len(s) /\ j - 1 \in 1..Len(s)
      BY <1>2, <2>1, <3>1
    <3>3. i - 1 = j - 1
      BY <1>3, <3>2 DEF IsInjective
    <3> QED BY <3>3
  <2> QED BY <2>2, <2>3
<1> QED BY <1>3, <1>5 DEF IsInjective, t

LEMMA InjectiveAppend ==
  ASSUME NEW S, NEW s \in Seq(S), NEW x \in S, IsInjective(s), x \notin ToSet(s)
  PROVE  IsInjective(Append(s, x))
<1> DEFINE t == Append(s, x)
<1>1. /\ t \in Seq(S) /\ Len(t) = Len(s) + 1 /\ t[Len(s) + 1] = x
      /\ \A i \in 1..Len(s) : t[i] = s[i]
      /\ DOMAIN t = 1..Len(s) + 1 /\ DOMAIN s = 1..Len(s) /\ Len(s) \in Nat
  BY AppendProperties
<1> HIDE DEF t
<1>2. \A i \in 1..Len(s) : t[i] # x
  BY <1>1 DEF ToSet
<1>3. \A i \in DOMAIN t : i \in 1..Len(s) \/ i = Len(s) + 1
  BY <1>1
<1> QED BY <1>1, <1>2, <1>3 DEF IsInjective, t

LEMMA InjectiveTail ==
  ASSUME NEW S, NEW s \in Seq(S), s # <<>>, IsInjective(s)
  PROVE  IsInjective(Tail(s)) /\ Head(s) \notin ToSet(Tail(s))
<1>1. /\ Head(s) = s[1] /\ Tail(s) \in Seq(S)
      /\ Len(s) \in Nat \ {0} /\ Len(Tail(s)) = Len(s) - 1
      /\ \A i \in 1..Len(Tail(s)) : Tail(s)[i] = s[i + 1]
  BY HeadTailProperties, EmptySeq
<1>2. /\ DOMAIN s = 1..Len(s) /\ DOMAIN Tail(s) = 1..Len(Tail(s))
      /\ 1 \in DOMAIN s
  BY <1>1
<1>3. \A i \in DOMAIN Tail(s) : i \in Nat \ {0} /\ i + 1 \in DOMAIN s
                                  /\ Tail(s)[i] = s[i + 1]
  BY <1>1, <1>2
<1>4. IsInjective(Tail(s))
  <2>1. SUFFICES ASSUME NEW i \in DOMAIN Tail(s), NEW j \in DOMAIN Tail(s),
                        Tail(s)[i] = Tail(s)[j]
                 PROVE  i = j
    BY DEF IsInjective
  <2>2. i + 1 = j + 1
    BY <1>3, <2>1 DEF IsInjective
  <2> QED BY <1>3, <2>2
<1>5. Head(s) \notin ToSet(Tail(s))
  <2>1. SUFFICES ASSUME NEW i \in DOMAIN Tail(s), Tail(s)[i] = Head(s)
                 PROVE  FALSE
    BY DEF ToSet
  <2>2. i + 1 = 1
    BY <1>1, <1>2, <1>3, <2>1 DEF IsInjective
  <2> QED BY <1>3, <2>2
<1> QED BY <1>4, <1>5

LEMMA ListedOncePreserved ==
  ASSUME TypeOK, ListedOnce, Phases, [Next]_vars
  PROVE  ListedOnce'
<1> USE DEF collector
<1>1. CASE UNCHANGED <<heap, h>>
  BY <1>1 DEF ListedOnce
<1>2. CASE Malloc
  <2>1. PICK a \in Addr \ Blocks : heap' = <<a>> \o heap
    BY <1>2 DEF Malloc
  <2>2. h' = <<>> /\ h = <<>>
    BY <1>2 DEF Malloc, Phases
  <2>3. a \notin ToSet(heap)
    BY <2>1 DEF Blocks
  <2> QED BY <2>1, <2>2, <2>3, InjectivePush, ToSetEmpty DEF TypeOK, ListedOnce
<1>3. CASE MarkDone
  <2>1. heap' = <<>> /\ h' = heap
    BY <1>3 DEF MarkDone
  <2> QED BY <2>1, ToSetEmpty DEF ListedOnce, IsInjective
<1>4. CASE SweepKeep
  <2>1. heap' = Append(heap, Head(h)) /\ h' = Tail(h) /\ h # <<>>
    BY <1>4 DEF SweepKeep
  <2>2. /\ Head(h) \in Addr /\ Head(h) \notin ToSet(heap)
        /\ ToSet(h) = {Head(h)} \cup ToSet(h')
        /\ ToSet(heap') = ToSet(heap) \cup {Head(h)}
    BY <2>1, ToSetHeadTail, ToSetAppend DEF TypeOK, ListedOnce
  <2>3. IsInjective(heap') /\ IsInjective(h') /\ Head(h) \notin ToSet(h')
    BY <2>1, <2>2, InjectiveAppend, InjectiveTail DEF TypeOK, ListedOnce
  <2> QED BY <2>2, <2>3 DEF ListedOnce
<1>5. CASE SweepFree
  <2>1. heap' = heap /\ h' = Tail(h) /\ h # <<>>
    BY <1>5 DEF SweepFree
  <2>2. ToSet(h') \subseteq ToSet(h) /\ IsInjective(h')
    BY <2>1, ToSetHeadTail, InjectiveTail DEF TypeOK, ListedOnce
  <2> QED BY <2>1, <2>2 DEF ListedOnce
<1> QED
  BY <1>1, <1>2, <1>3, <1>4, <1>5
  DEF Next, vars, Allocator, Marking, Sweeping, TigerProgram, CallAlloc,
      MallocNodeFails, MallocCollects, MallocFails, GcRun, GcEnable, MarkRoot,
      MarkField, MarkReturn, SweepDone, SetInt, Load, Store, Return, Program

-----------------------------------------------------------------------------
(* The active calls of DFS are for marked blocks, each a block of its own. *)

\* A call of DFS on top of such frames.
LEMMA VisitActive ==
  ASSUME TypeOK, NEW w \in Word, NEW below \in Seq(Frame), Visit(w, below),
         \A k \in 1..Len(below) : below[k].obj \in Blocks /\ marked[below[k].obj],
         \A j, k \in 1..Len(below) : below[j].obj = below[k].obj => j = k
  PROVE  /\ \A k \in 1..Len(dfs') : dfs'[k].obj \in Blocks /\ marked'[dfs'[k].obj]
         /\ \A j, k \in 1..Len(dfs') : dfs'[j].obj = dfs'[k].obj => j = k
<1>1. CASE w.addr \in Blocks /\ ~marked[w.addr]
  <2>1. /\ dfs' = Append(below, [obj |-> w.addr, i |-> 1])
        /\ marked' = [marked EXCEPT ![w.addr] = TRUE]
        /\ w.addr \in Addr
    BY <1>1, BlocksType DEF Visit
  <2>2. /\ Len(below) \in Nat /\ Len(dfs') = Len(below) + 1
        /\ \A k \in 1..Len(below) : dfs'[k] = below[k]
        /\ dfs'[Len(below) + 1].obj = w.addr
    BY <2>1
  <2>3. \A k \in 1..Len(dfs') : k \in 1..Len(below) \/ k = Len(below) + 1
    BY <2>2
  <2>4. \A a \in Blocks : marked[a] => marked'[a]
    BY <2>1, BlocksType DEF TypeOK
  <2>5. marked'[w.addr]
    BY <2>1 DEF TypeOK
  <2>6. \A k \in 1..Len(below) : below[k].obj # w.addr
    BY <1>1
  <2> QED BY <1>1, <2>2, <2>3, <2>4, <2>5, <2>6
<1>2. CASE ~(w.addr \in Blocks /\ ~marked[w.addr])
  BY <1>2 DEF Visit
<1> QED BY <1>1, <1>2

LEMMA FramesPreserved ==
  ASSUME IInv, ActiveMarked, DepthBounded, [Next]_vars
  PROVE  ActiveMarked' /\ DepthBounded'
<1> USE GcAssumption DEF collector, memory
<1>1. CASE UNCHANGED <<heap, h, marked, dfs>>
  BY <1>1, SameBlocks DEF ActiveMarked, DepthBounded
<1>2. CASE dfs' = <<>>
  BY <1>2 DEF ActiveMarked, DepthBounded
<1>3. CASE MarkRoot
  <2>1. Blocks' = Blocks
    BY <1>3, SameBlocks DEF MarkRoot
  <2>2. scan + 1 \in 1..ScanWords
    BY <1>3 DEF MarkRoot, IInv, TypeOK, ScanWords
  <2>3. ScanWord(scan + 1) \in Word /\ Visit(ScanWord(scan + 1), dfs)
    BY <1>3, <2>2, ScanWordType DEF MarkRoot, IInv
  <2> QED BY <2>1, <2>3, VisitActive DEF IInv, TypeOK, ActiveMarked, DepthBounded
<1>4. CASE MarkField
  <2> DEFINE t == [obj |-> Top.obj, i |-> Top.i + 1]
             below == Append(Below, t)
  <2>1. Blocks' = Blocks
    BY <1>4, SameBlocks DEF MarkField
  <2>2. /\ Top \in Frame /\ Len(dfs) \in Nat \ {0} /\ Below \in Seq(Frame)
        /\ Len(Below) = Len(dfs) - 1
        /\ \A k \in 1..Len(dfs) - 1 : Below[k] = dfs[k]
    BY <1>4, TopBelow DEF MarkField, IInv, TypeOK
  <2>3. t \in Frame
    BY <2>2 DEF Frame
  <2>4. /\ below \in Seq(Frame) /\ Len(below) = Len(dfs)
        /\ \A k \in 1..Len(dfs) - 1 : below[k] = dfs[k]
        /\ below[Len(dfs)] = t
    BY <2>2, <2>3
  <2>5. Top.i \in 1..MaxWords /\ Top.obj \in Addr
    <3>1. Top.obj \in Addr /\ Top.i \in Nat \ {0} /\ Top.i <= size[Top.obj]
      BY <1>4, <2>2 DEF MarkField, Frame
    <3>2. size[Top.obj] \in 0..MaxWords
      BY <3>1 DEF IInv, TypeOK
    <3> QED BY <3>1, <3>2
  <2>6. f[Top.obj][Top.i] \in Word
    BY <2>5 DEF IInv, TypeOK
  <2>7. Visit(f[Top.obj][Top.i], below)
    BY <1>4 DEF MarkField
  <2>8. t.obj = dfs[Len(dfs)].obj
    BY DEF Top
  <2> HIDE DEF below, t
  <2>9. \A k \in 1..Len(below) : k \in 1..Len(dfs) /\ below[k].obj = dfs[k].obj
    <3>1. \A k \in 1..Len(below) : k \in 1..Len(dfs) - 1 \/ k = Len(dfs)
      BY <2>2, <2>4
    <3> QED BY <2>4, <2>8, <3>1
  <2>10. /\ \A k \in 1..Len(below) :
               below[k].obj \in Blocks /\ marked[below[k].obj]
         /\ \A j, k \in 1..Len(below) : below[j].obj = below[k].obj => j = k
    BY <2>9 DEF ActiveMarked, DepthBounded
  <2> QED BY <2>1, <2>4, <2>6, <2>7, <2>10, VisitActive
          DEF IInv, ActiveMarked, DepthBounded
<1>5. CASE MarkReturn
  <2>1. Blocks' = Blocks /\ marked' = marked
    BY <1>5, SameBlocks DEF MarkReturn
  <2>2. /\ Len(dfs) \in Nat \ {0} /\ Len(dfs') = Len(dfs) - 1
        /\ \A k \in 1..Len(dfs) - 1 : dfs'[k] = dfs[k]
    BY <1>5, TopBelow DEF MarkReturn, IInv, TypeOK
  <2>3. \A k \in 1..Len(dfs') : k \in 1..Len(dfs) /\ dfs'[k] = dfs[k]
    BY <2>2
  <2> QED BY <2>1, <2>3 DEF ActiveMarked, DepthBounded
<1> QED
  BY <1>1, <1>2, <1>3, <1>4, <1>5
  DEF Next, vars, Allocator, Marking, Sweeping, TigerProgram, CallAlloc,
      Malloc, MallocNodeFails, MallocCollects, MallocFails, GcRun, GcEnable,
      MarkDone, SweepKeep, SweepFree, SweepDone, SetInt, Load, Store, Return,
      Program, IInv, Phases

-----------------------------------------------------------------------------
(* What is marked, and what is kept, a scanned word leads to.              *)

LEMMA ConservativeScanned ==
  ASSUME NEW a \in Blocks, a \in ScannedAddrs
  PROVE  a \in Conservative
BY DEF Conservative

LEMMA ConservativeClosed ==
  ASSUME NEW a \in Conservative, NEW b \in Blocks, b \in Targets(a)
  PROVE  b \in Conservative
BY DEF Conservative, Closed

\* Nothing but the blocks, their words and the scanned words matters.
LEMMA SameConservative ==
  ASSUME UNCHANGED <<f, size, stack, held>>, Blocks' = Blocks
  PROVE  Conservative' = Conservative
<1>1. ScannedAddrs' = ScannedAddrs /\ \A a : Targets(a)' = Targets(a)
  BY SameScan DEF Targets
<1> QED BY <1>1 DEF Conservative, Closed

\* The step from within the block on top of DFS's stack, or from a scanned word.
LEMMA VisitInVain ==
  ASSUME IInv, NEW w \in Word, NEW below, Visit(w, below),
         UNCHANGED <<heap, h, f, size, stack, held>>,
         w.addr \in Blocks => w.addr \in Conservative,
         \A a \in Blocks : marked[a] => a \in Conservative
  PROVE  \A a \in Blocks' : marked'[a] => a \in Conservative'
<1>1. Blocks' = Blocks /\ Conservative' = Conservative
  BY SameBlocks, SameConservative
<1>2. \A a \in Blocks : marked'[a] => marked[a] \/ a = w.addr
  BY BlocksType, VisitMarks DEF IInv
<1> QED BY <1>1, <1>2

LEMMA MarkingNoneInVain ==
  ASSUME IInv, ActiveMarked, NoneInVain, MarkRoot \/ MarkField
  PROVE  NoneInVain'
<1> USE GcAssumption DEF memory
<1>1. /\ pc = "mark" /\ pc' = "mark"
      /\ UNCHANGED <<heap, h, f, size, stack, held>>
  BY DEF MarkRoot, MarkField
<1>2. \A a \in Blocks : marked[a] => a \in Conservative
  BY <1>1 DEF NoneInVain
<1>3. CASE MarkRoot
  <2>1. scan + 1 \in 1..ScanWords
    BY <1>3 DEF MarkRoot, IInv, TypeOK, ScanWords
  <2>2. ScanWord(scan + 1) \in Word /\ Visit(ScanWord(scan + 1), dfs)
    BY <1>3, <2>1, ScanWordType DEF MarkRoot, IInv
  <2>3. ScanWord(scan + 1).addr \in ScannedAddrs
    BY <2>1 DEF ScannedAddrs
  <2> QED BY <1>1, <1>2, <2>2, <2>3, ConservativeScanned, VisitInVain
          DEF NoneInVain
<1>4. CASE MarkField
  <2>1. Top \in Frame /\ Len(dfs) \in 1..Len(dfs)
    BY <1>4, TopBelow DEF MarkField, IInv, TypeOK
  <2>2. Top.obj \in Blocks /\ marked[Top.obj]
    BY <2>1 DEF ActiveMarked, Top
  <2>3. /\ Top.obj \in Addr /\ Top.i \in 1..size[Top.obj]
        /\ Top.i \in 1..MaxWords
    BY <1>4, <2>1 DEF MarkField, IInv, TypeOK, Frame
  <2>4. /\ f[Top.obj][Top.i] \in Word
        /\ f[Top.obj][Top.i].addr \in Targets(Top.obj)
    BY <2>3 DEF IInv, TypeOK, Targets
  <2>5. Visit(f[Top.obj][Top.i],
              Append(Below, [obj |-> Top.obj, i |-> Top.i + 1]))
    BY <1>4 DEF MarkField
  <2>6. f[Top.obj][Top.i].addr \in Blocks =>
          f[Top.obj][Top.i].addr \in Conservative
    BY <1>2, <2>2, <2>4, ConservativeClosed
  <2>7. \A a \in Blocks' : marked'[a] => a \in Conservative'
    BY <1>1, <1>2, <2>4, <2>5, <2>6, VisitInVain
  <2> QED BY <1>1, <2>7 DEF NoneInVain
<1> QED BY <1>3, <1>4

\* What the sweep keeps is all a scanned word leads to: no more by NoneInVain,
\* no less by SweepInv.
LEMMA KeptIsConservative ==
  ASSUME IInv, NoneInVain, pc = "sweep"
  PROVE  Kept = Conservative
<1>1. Kept \subseteq Blocks
  BY DEF Kept, Blocks
<1>2. ScannedAddrs \cap Blocks \subseteq Kept /\ Closed(Kept)
  BY DEF IInv, SweepInv
<1>3. Conservative \subseteq Kept
  BY <1>1, <1>2 DEF Conservative
<1> QED BY <1>3 DEF NoneInVain

\* Freeing a block changes nothing for the blocks that are kept.
LEMMA SweepFreeNoneInVain ==
  ASSUME IInv, ListedOnce, NoneInVain, SweepFree
  PROVE  NoneInVain'
<1> DEFINE x == Head(h)
<1>1. /\ Kept' = Kept /\ Kept \subseteq Blocks' /\ Blocks' \subseteq Blocks
  BY SweepFreeKeeps
<1>2. /\ UNCHANGED <<stack, held>> /\ pc = "sweep" /\ pc' = "sweep"
      /\ f' = [f EXCEPT ![x] = ZeroBlock] /\ size' = [size EXCEPT ![x] = 0]
      /\ ~marked[x] /\ h # <<>>
  BY DEF SweepFree
<1>3. x \in Addr /\ x \in ToSet(h)
  BY <1>2, ToSetHeadTail DEF IInv, TypeOK
<1> HIDE DEF x
<1>4. x \notin Kept
  BY <1>2, <1>3 DEF Kept, ListedOnce
<1>5. \A a \in Kept : Targets(a)' = Targets(a)
  <2>1. SUFFICES ASSUME NEW a \in Kept PROVE Targets(a)' = Targets(a)
    OBVIOUS
  <2>2. a \in Addr /\ a # x
    BY <1>4, BlocksType DEF IInv, Kept, Blocks
  <2>3. f'[a] = f[a] /\ size'[a] = size[a]
    BY <1>2, <2>2 DEF IInv, TypeOK
  <2> QED BY <2>3 DEF Targets
<1>6. ScannedAddrs' = ScannedAddrs
  BY <1>2, SameScan
<1>7. /\ ScannedAddrs \cap Blocks \subseteq Kept /\ Closed(Kept)
      /\ Kept \subseteq Conservative
  BY <1>2 DEF IInv, SweepInv, NoneInVain
<1>8. ASSUME NEW a \in Kept, NEW S \in SUBSET Blocks',
             ScannedAddrs' \cap Blocks' \subseteq S,
             \A b \in S : Targets(b)' \cap Blocks' \subseteq S
      PROVE  a \in S
  <2>1. S \cap Kept \in SUBSET Blocks
    BY <1>1
  <2>2. ScannedAddrs \cap Blocks \subseteq S \cap Kept
    BY <1>1, <1>6, <1>7, <1>8
  <2>3. Closed(S \cap Kept)
    <3>1. SUFFICES ASSUME NEW b \in S \cap Kept, NEW c \in Targets(b) \cap Blocks
                   PROVE  c \in S \cap Kept
      BY DEF Closed
    <3>2. c \in Kept
      BY <1>7, <3>1 DEF Closed
    <3>3. c \in Targets(b)' \cap Blocks'
      BY <1>1, <1>5, <3>1, <3>2
    <3> QED BY <1>8, <3>1, <3>2, <3>3
  <2> QED BY <1>7, <2>1, <2>2, <2>3 DEF Conservative
<1>9. Kept' \subseteq Conservative'
  BY <1>1, <1>8 DEF Conservative, Closed
<1> QED BY <1>2, <1>9 DEF NoneInVain

LEMMA NoneInVainPreserved ==
  ASSUME IInv, ListedOnce, ActiveMarked, NoneInVain, [Next]_vars
  PROVE  NoneInVain'
<1> USE GcAssumption DEF collector, memory
<1>1. CASE pc' \notin {"mark", "sweep"}
  BY <1>1 DEF NoneInVain
<1>2. CASE GcRun \/ MallocCollects
  <2>1. UNCHANGED <<heap, h, marked>> /\ pc' # "sweep"
    BY <1>2 DEF GcRun, MallocCollects
  <2>2. \A a \in Blocks' : ~marked'[a]
    BY <1>2, <2>1, SameBlocks DEF GcRun, MallocCollects, IInv, MarksClear
  <2> QED BY <2>1, <2>2 DEF NoneInVain
<1>3. CASE MarkRoot \/ MarkField
  BY <1>3, MarkingNoneInVain
<1>4. CASE MarkReturn \/ UNCHANGED vars
  <2>1. UNCHANGED <<heap, h, f, size, stack, held, marked, pc>>
    BY <1>4 DEF MarkReturn, vars
  <2>2. Blocks' = Blocks /\ Conservative' = Conservative /\ Kept' = Kept
    BY <2>1, SameBlocks, SameConservative DEF Kept
  <2> QED BY <2>1, <2>2 DEF NoneInVain
<1>5. CASE MarkDone
  <2>1. /\ heap' = <<>> /\ h' = heap /\ h = <<>> /\ pc = "mark" /\ pc' = "sweep"
        /\ UNCHANGED <<f, size, stack, held, marked>>
    BY <1>5 DEF MarkDone, IInv, Phases
  <2>2. Blocks' = Blocks /\ Kept' = {a \in Blocks : marked[a]}
    BY <2>1, ToSetEmpty DEF Blocks, Kept
  <2>3. Conservative' = Conservative
    BY <2>1, <2>2, SameConservative
  <2> QED BY <2>1, <2>2, <2>3 DEF NoneInVain
<1>6. CASE SweepKeep
  <2> DEFINE x == Head(h)
  <2>1. /\ x \in Addr /\ marked[x]
        /\ ToSet(h) = {x} \cup ToSet(h')
        /\ ToSet(heap') = ToSet(heap) \cup {x}
        /\ marked' = [marked EXCEPT ![x] = FALSE]
    BY <1>6, ToSetAppend, ToSetHeadTail DEF SweepKeep, IInv, TypeOK
  <2>2. ToSet(h) \subseteq Addr
    BY ToSetType DEF IInv, TypeOK
  <2>3. UNCHANGED <<f, size, stack, held>> /\ pc = "sweep" /\ pc' = "sweep"
    BY <1>6 DEF SweepKeep
  <2> HIDE DEF x
  <2>4. Blocks' = Blocks /\ Kept' = Kept
    BY <2>1, <2>2 DEF Blocks, Kept, IInv, TypeOK
  <2>5. Conservative' = Conservative
    BY <2>3, <2>4, SameConservative
  <2> QED BY <2>3, <2>4, <2>5 DEF NoneInVain
<1>7. CASE SweepFree
  BY <1>7, SweepFreeNoneInVain
<1> QED
  BY <1>1, <1>2, <1>3, <1>4, <1>5, <1>6, <1>7
  DEF Next, Allocator, Marking, Sweeping, TigerProgram, CallAlloc, Malloc,
      MallocNodeFails, MallocFails, GcEnable, SweepDone, IInv, TypeOK, SetInt,
      Load, Store, Return, Program

\* A collection that made room for nothing has kept every block.
LEMMA CollectedPreserved ==
  ASSUME IInv, NoneInVain, Collected, [Next]_vars
  PROVE  Collected'
<1> USE DEF collector, memory
<1>1. CASE pc' # "retry" \/ ~enabled'
  BY <1>1 DEF Collected
<1>2. CASE SweepDone /\ pc' = "retry"
  <2>1. UNCHANGED <<heap, h, f, size, stack, held>> /\ h = <<>> /\ pc = "sweep"
    BY <1>2 DEF SweepDone
  <2>2. Blocks' = Blocks /\ Kept = Blocks
    BY <2>1, SameBlocks, ToSetEmpty DEF Blocks, Kept
  <2>3. Conservative' = Conservative
    BY <2>1, <2>2, SameConservative
  <2> QED BY <2>1, <2>2, <2>3, KeptIsConservative DEF Collected
<1>3. CASE UNCHANGED vars
  <2>1. UNCHANGED <<heap, h, f, size, stack, held, pc, enabled>>
    BY <1>3 DEF vars
  <2>2. Blocks' = Blocks /\ Conservative' = Conservative
    BY <2>1, SameBlocks, SameConservative
  <2> QED BY <2>1, <2>2 DEF Collected
<1> QED
  BY <1>1, <1>2, <1>3
  DEF Next, Allocator, Marking, Sweeping, TigerProgram, CallAlloc, Malloc,
      MallocNodeFails, MallocCollects, MallocFails, GcRun, GcEnable, MarkRoot,
      MarkField, MarkReturn, MarkDone, SweepKeep, SweepFree, SetInt, Load,
      Store, Return, Program

LEMMA ServingPreserved ==
  ASSUME TypeOK, Serving, [Next]_vars
  PROVE  Serving'
<1> USE DEF collector, memory
<1>1. CASE CallAlloc
  <2>1. req'.slot \in 1..Slots
    BY <1>1 DEF CallAlloc
  <2> QED BY <1>1, <2>1 DEF CallAlloc, Serving, TypeOK
<1>2. CASE MallocCollects
  BY <1>2 DEF MallocCollects, Serving, TypeOK
<1>3. CASE Malloc \/ MallocNodeFails \/ MallocFails
  BY <1>3 DEF Malloc, MallocNodeFails, MallocFails, Serving, TypeOK
<1>4. CASE GcRun \/ GcEnable
  BY <1>4 DEF GcRun, GcEnable, Serving, TypeOK
<1>5. CASE Marking
  BY <1>5 DEF Marking, MarkRoot, MarkField, MarkReturn, MarkDone, Serving, TypeOK
<1>6. CASE Sweeping
  BY <1>6 DEF Sweeping, SweepKeep, SweepFree, SweepDone, Serving, TypeOK
<1>7. CASE TigerProgram
  BY <1>7 DEF TigerProgram, SetInt, Load, Store, Return, Program, Serving, TypeOK
<1>8. CASE UNCHANGED vars
  BY <1>8 DEF vars, Serving
<1> QED BY <1>1, <1>2, <1>3, <1>4, <1>5, <1>6, <1>7, <1>8 DEF Next, Allocator

LEMMA ExactInitial == Init => ExactInv
<1> SUFFICES ASSUME Init PROVE ExactInv
  OBVIOUS
<1>1. ListedOnce
  BY ToSetEmpty DEF Init, ListedOnce, IsInjective
<1>2. ActiveMarked /\ DepthBounded /\ NoneInVain /\ Collected /\ Serving
  BY DEF Init, ActiveMarked, DepthBounded, NoneInVain, Collected, Serving
<1> QED BY <1>1, <1>2, InitialInvariant DEF ExactInv

LEMMA ExactPreserved == ExactInv /\ [Next]_vars => ExactInv'
<1> SUFFICES ASSUME ExactInv, [Next]_vars PROVE ExactInv'
  OBVIOUS
<1>1. IInv'
  BY InvariantPreserved DEF ExactInv
<1>2. ListedOnce'
  BY ListedOncePreserved DEF ExactInv, IInv
<1>3. ActiveMarked' /\ DepthBounded'
  BY FramesPreserved DEF ExactInv
<1>4. NoneInVain' /\ Collected' /\ Serving'
  BY NoneInVainPreserved, CollectedPreserved, ServingPreserved
  DEF ExactInv, IInv
<1> QED BY <1>1, <1>2, <1>3, <1>4 DEF ExactInv

\* The stronger inductive invariant holds in every reachable state.
THEOREM ExactInvariance == Spec => []ExactInv
BY ExactInitial, ExactPreserved, PTL DEF Spec

\* The sweep keeps exactly the blocks a scanned word leads to: what gc_collect
\* frees is neither too much nor too little for any shape of the data.
THEOREM SweepsExactly == Spec => []SweepExact
<1>1. ExactInv => SweepExact
  BY KeptIsConservative DEF ExactInv, SweepExact
<1> QED BY <1>1, ExactInvariance, PTL

\* DFS is never active twice for one block, cycles among the blocks or not.
THEOREM DepthIsBounded == Spec => []DepthBounded
<1>1. ExactInv => DepthBounded
  BY DEF ExactInv
<1> QED BY <1>1, ExactInvariance, PTL

\* tc_malloc gives up only when a collection could have freed nothing.
THEOREM GivesUpOnlyWhenFull == Spec => []GivesUpHonestly
<1>1. ExactInv => GivesUpHonestly
  BY DEF ExactInv, Collected, GivesUpHonestly
<1> QED BY <1>1, ExactInvariance, PTL

-----------------------------------------------------------------------------
(* The run time implements GcSpec.                                         *)

LEMMA PromiseWords ==
  /\ Promise!Zero = Zero
  /\ Promise!Word = Word
  /\ \A a : Promise!Ref(a) = Ref(a)
BY DEF Promise!Zero, Zero, Promise!Word, Word, Promise!Ref, Ref

LEMMA InitialPromise == Init => Promise!Init
<1> SUFFICES ASSUME Init PROVE Promise!Init
  OBVIOUS
<1>1. Blocks = {} /\ pc \notin {"done", "failed"}
  BY ToSetEmpty DEF Init, Blocks
<1> QED BY <1>1, PromiseWords DEF Init, Promise!Init, ZeroBlock

\* A step that leaves the program's memory alone.
LEMMA InternalStep ==
  ASSUME UNCHANGED <<size, f, stack, held>>, Blocks' = Blocks,
         pc \notin {"done", "failed"}, pc' \notin {"done", "failed"}
  PROVE  UNCHANGED Promise!vars
BY DEF Promise!vars

\* The block the sweep frees is outside a set of blocks that holds all roots
\* and is closed under references: what SweepInv says of Kept.
LEMMA FreedUnreachable ==
  ASSUME IInv, ListedOnce, SweepFree
  PROVE  Head(h) \in Blocks /\ Head(h) \notin Promise!Reachable
<1> USE GcAssumption
<1>1. pc = "sweep" /\ h # <<>> /\ ~marked[Head(h)]
  BY DEF SweepFree
<1>2. Head(h) \in ToSet(h)
  BY <1>1, ToSetHeadTail DEF IInv, TypeOK
<1>3. Head(h) \notin Kept
  BY <1>1, <1>2 DEF Kept, ListedOnce
<1>4. ScannedAddrs \cap Blocks \subseteq Kept /\ Closed(Kept)
  BY <1>1 DEF IInv, SweepInv
<1>5. Kept \subseteq Blocks
  BY DEF Kept, Blocks
<1>6. Promise!Roots \subseteq ScannedAddrs
  <2>1. \A s \in 1..Slots : stack[s].addr \in ScannedAddrs
    <3>1. SUFFICES ASSUME NEW s \in 1..Slots PROVE stack[s].addr \in ScannedAddrs
      OBVIOUS
    <3>2. s + 2 \in 1..ScanWords /\ ScanWord(s + 2) = stack[s]
      BY DEF ScanWord, ScanWords
    <3> QED BY <3>2 DEF ScannedAddrs
  <2>2. \A k \in 1..2 : held[k].addr \in ScannedAddrs
    <3>1. SUFFICES ASSUME NEW k \in 1..2 PROVE held[k].addr \in ScannedAddrs
      OBVIOUS
    <3>2. k \in 1..ScanWords /\ ScanWord(k) = held[k]
      BY DEF ScanWord, ScanWords
    <3> QED BY <3>2 DEF ScannedAddrs
  <2> QED BY <2>1, <2>2 DEF Promise!Roots
<1>7. \A a : Promise!RefsOf(a) \subseteq Targets(a)
  BY DEF Promise!RefsOf, Targets
<1>8. Promise!Closed(Kept)
  BY <1>4, <1>7 DEF Promise!Closed, Closed
<1>9. Promise!Roots \cap Blocks \subseteq Kept
  BY <1>4, <1>6
<1>10. Head(h) \notin Promise!Reachable
  BY <1>3, <1>5, <1>8, <1>9 DEF Promise!Reachable
<1> QED BY <1>2, <1>10 DEF Blocks

\* The words the program computes and the stale one are integers.
LEMMA IntegersAreWords ==
  \A w \in {Number(a) : a \in Addr} \cup {Zero} : w \in Word /\ ~w.ref
<1>1. \A a \in Addr : Number(a) \in Word /\ ~Number(a).ref
  <2>1. \A a \in Addr : ~Number(a).ref
    BY DEF Number
  <2> QED BY <2>1, WordTypes
<1>2. Zero \in Word /\ ~Zero.ref
  <2>1. ~Zero.ref
    BY DEF Zero
  <2> QED BY <2>1, WordTypes
<1> QED BY <1>1, <1>2

\* gc_collect enters with one more word that is no reference.
LEMMA EnterCollectPromise ==
  ASSUME EnterCollect, UNCHANGED <<size, f, stack>>, Blocks' = Blocks,
         pc \notin {"done", "failed"}, pc' \notin {"done", "failed"}
  PROVE  Promise!Next
<1>1. PICK w \in {Number(a) : a \in Addr} \cup {Zero} : held' = <<held[1], w>>
  BY DEF EnterCollect
<1>2. w \in Word /\ ~w.ref
  BY IntegersAreWords
<1>3. Promise!EnterRuntime
  BY <1>1, <1>2, PromiseWords DEF Promise!EnterRuntime
<1> QED BY <1>3 DEF Promise!Next

LEMMA AllocatorPromise ==
  ASSUME ExactInv, CallAlloc \/ Allocator
  PROVE  Promise!Next \/ UNCHANGED Promise!vars
<1> USE DEF collector, memory
<1>1. CASE CallAlloc
  <2>1. /\ Blocks' = Blocks /\ UNCHANGED <<size, f>>
        /\ pc = "tiger" /\ pc' = "alloc"
    BY <1>1, SameBlocks DEF CallAlloc
  <2>2. CASE UNCHANGED <<held, stack>>
    BY <2>1, <2>2, InternalStep
  <2>3. CASE \E t \in 1..Slots : /\ held' = <<stack[t], Zero>>
                                 /\ stack' = [stack EXCEPT ![t] = Zero]
    <3>1. Zero \in Word /\ ~Zero.ref
      BY WordTypes DEF Zero
    <3>2. Promise!EnterRuntime
      BY <2>1, <2>3, <3>1, PromiseWords DEF Promise!EnterRuntime
    <3> QED BY <3>2 DEF Promise!Next
  <2> QED BY <1>1, <2>2, <2>3 DEF CallAlloc
<1>2. CASE Malloc
  <2>1. PICK a \in Addr \ Blocks :
          /\ heap' = <<a>> \o heap
          /\ size' = [size EXCEPT ![a] = req.words]
          /\ f' = [f EXCEPT ![a] = [i \in 1..MaxWords |->
                                      IF i <= req.words THEN held[1] ELSE Zero]]
          /\ stack' = [stack EXCEPT ![req.slot] = Ref(a)]
    BY <1>2 DEF Malloc
  <2>2. Blocks' = Blocks \cup {a}
    BY <1>2, <2>1, ToSetPush DEF Blocks, Malloc, ExactInv, IInv, TypeOK
  <2>3. req.words \in 0..MaxWords /\ req.slot \in 1..Slots
    BY <1>2 DEF Malloc, ExactInv, IInv, TypeOK, Serving
  <2>4. /\ pc \in {"alloc", "retry"} /\ pc' = "tiger" /\ held' = <<Zero, Zero>>
    BY <1>2 DEF Malloc
  <2>5. Promise!Allocate
    BY <2>1, <2>2, <2>3, <2>4, PromiseWords DEF Promise!Allocate
  <2> QED BY <2>5 DEF Promise!Next
<1>3. CASE MallocNodeFails \/ MallocFails
  <2>1. /\ Blocks' = Blocks /\ UNCHANGED <<size, f, stack, held>>
        /\ pc \in {"alloc", "retry"} /\ pc' = "failed"
    BY <1>3, SameBlocks DEF MallocNodeFails, MallocFails
  <2>2. Promise!Stop
    BY <2>1 DEF Promise!Stop
  <2> QED BY <2>2 DEF Promise!Next
<1>4. CASE MallocCollects
  <2>1. /\ Blocks' = Blocks /\ UNCHANGED <<size, f, stack>>
        /\ pc = "alloc" /\ pc' \in {"mark", "retry"}
    BY <1>4, SameBlocks DEF MallocCollects
  <2>2. CASE UNCHANGED held
    BY <2>1, <2>2, InternalStep
  <2>3. CASE EnterCollect
    BY <2>1, <2>3, EnterCollectPromise
  <2> QED BY <1>4, <2>2, <2>3 DEF MallocCollects
<1> QED BY <1>1, <1>2, <1>3, <1>4 DEF Allocator

LEMMA CollectorPromise ==
  ASSUME ExactInv, GcRun \/ GcEnable \/ Marking \/ Sweeping
  PROVE  Promise!Next \/ UNCHANGED Promise!vars
<1> USE DEF collector, memory
<1>1. CASE GcRun
  <2>1. /\ Blocks' = Blocks /\ UNCHANGED <<size, f, stack>>
        /\ pc = "tiger" /\ pc' = "mark" /\ EnterCollect
    BY <1>1, SameBlocks DEF GcRun
  <2> QED BY <2>1, EnterCollectPromise
<1>2. CASE GcEnable
  <2>1. /\ Blocks' = Blocks /\ UNCHANGED <<size, f, stack, held>>
        /\ pc = "tiger" /\ pc' = "tiger"
    BY <1>2, SameBlocks DEF GcEnable
  <2> QED BY <2>1, InternalStep
<1>3. CASE MarkRoot \/ MarkField \/ MarkReturn
  <2>1. /\ Blocks' = Blocks /\ UNCHANGED <<size, f, stack, held>>
        /\ pc = "mark" /\ pc' = "mark"
    BY <1>3, SameBlocks DEF MarkRoot, MarkField, MarkReturn
  <2> QED BY <2>1, InternalStep
<1>4. CASE MarkDone
  <2>1. /\ heap' = <<>> /\ h' = heap /\ h = <<>>
        /\ UNCHANGED <<size, f, stack, held>>
        /\ pc = "mark" /\ pc' = "sweep"
    BY <1>4 DEF MarkDone, ExactInv, IInv, Phases
  <2>2. Blocks' = Blocks
    BY <2>1, ToSetEmpty DEF Blocks
  <2> QED BY <2>1, <2>2, InternalStep
<1>5. CASE SweepKeep
  <2>1. /\ ToSet(h) = {Head(h)} \cup ToSet(h')
        /\ ToSet(heap') = ToSet(heap) \cup {Head(h)}
    BY <1>5, ToSetAppend, ToSetHeadTail DEF SweepKeep, ExactInv, IInv, TypeOK
  <2>2. /\ UNCHANGED <<size, f, stack, held>> /\ pc = "sweep" /\ pc' = "sweep"
    BY <1>5 DEF SweepKeep
  <2>3. Blocks' = Blocks
    BY <2>1 DEF Blocks
  <2> QED BY <2>2, <2>3, InternalStep
<1>6. CASE SweepFree
  <2>1. Head(h) \in Blocks /\ Head(h) \notin Promise!Reachable
    BY <1>6, FreedUnreachable DEF ExactInv
  <2>2. /\ heap' = heap /\ h' = Tail(h) /\ h # <<>>
        /\ size' = [size EXCEPT ![Head(h)] = 0]
        /\ f' = [f EXCEPT ![Head(h)] = ZeroBlock]
        /\ UNCHANGED <<stack, held>> /\ pc = "sweep" /\ pc' = "sweep"
    BY <1>6 DEF SweepFree
  <2>3. /\ Head(h) \notin ToSet(Tail(h)) /\ Head(h) \notin ToSet(heap)
        /\ ToSet(h) = {Head(h)} \cup ToSet(Tail(h))
    BY <2>2, InjectiveTail, ToSetHeadTail DEF ExactInv, ListedOnce, IInv, TypeOK
  <2>4. Blocks' = Blocks \ {Head(h)}
    BY <2>2, <2>3 DEF Blocks
  <2>5. Promise!Reclaim
    BY <2>1, <2>2, <2>4, PromiseWords DEF Promise!Reclaim, ZeroBlock
  <2> QED BY <2>5 DEF Promise!Next
<1>7. CASE SweepDone
  <2>1. /\ Blocks' = Blocks /\ UNCHANGED <<size, f, stack>>
        /\ pc = "sweep" /\ pc' \in {"tiger", "retry"}
        /\ held' \in {<<Zero, Zero>>, held}
    BY <1>7, SameBlocks DEF SweepDone, ExactInv, IInv, TypeOK
  <2>2. CASE held' = held
    BY <2>1, <2>2, InternalStep
  <2>3. CASE held' = <<Zero, Zero>>
    <3>1. Promise!LeaveRuntime
      BY <2>1, <2>3, PromiseWords DEF Promise!LeaveRuntime
    <3> QED BY <3>1 DEF Promise!Next
  <2> QED BY <2>1, <2>2, <2>3
<1> QED
  BY <1>1, <1>2, <1>3, <1>4, <1>5, <1>6, <1>7 DEF Marking, Sweeping

LEMMA ProgramPromise ==
  ASSUME ExactInv, TigerProgram
  PROVE  Promise!Next \/ UNCHANGED Promise!vars
<1> USE GcAssumption DEF collector, memory
<1>1. CASE SetInt
  <2>1. PICK s \in 1..Slots, w \in {Number(a) : a \in Addr} \cup {Zero} :
          stack' = [stack EXCEPT ![s] = w]
    BY <1>1 DEF SetInt
  <2>2. w \in Word /\ ~w.ref
    BY IntegersAreWords
  <2>3. /\ Blocks' = Blocks /\ UNCHANGED <<size, f, held>>
        /\ pc = "tiger" /\ pc' = "tiger"
    BY <1>1, SameBlocks DEF SetInt, Program
  <2>4. Promise!SetSlot
    BY <2>1, <2>2, <2>3, PromiseWords DEF Promise!SetSlot
  <2> QED BY <2>4 DEF Promise!Next
<1>2. CASE Load
  <2>1. PICK s \in 1..Slots, t \in 1..Slots :
          /\ stack[t].ref
          /\ \E i \in 1..size[stack[t].addr] :
               stack' = [stack EXCEPT ![s] = f[stack[t].addr][i]]
    BY <1>2 DEF Load
  <2>2. PICK i \in 1..size[stack[t].addr] :
          stack' = [stack EXCEPT ![s] = f[stack[t].addr][i]]
    BY <2>1
  <2>3. /\ Blocks' = Blocks /\ UNCHANGED <<size, f, held>>
        /\ pc = "tiger" /\ pc' = "tiger"
    BY <1>2, SameBlocks DEF Load, Program
  <2>4. stack[t].addr \in Blocks /\ stack[t].addr \in Addr
    BY <2>1, BlocksType DEF ExactInv, IInv, NoDangling
  <2>5. i \in 1..MaxWords
    <3>1. size[stack[t].addr] \in 0..MaxWords
      BY <2>4 DEF ExactInv, IInv, TypeOK
    <3> QED BY <3>1
  <2>6. f[stack[t].addr][i] \in Word
    BY <2>4, <2>5 DEF ExactInv, IInv, TypeOK
  <2>7. f[stack[t].addr][i].ref => f[stack[t].addr][i].addr \in Blocks
    BY <2>3, <2>4 DEF ExactInv, IInv, NoDangling
  <2>8. Promise!SetSlot
    BY <2>2, <2>3, <2>6, <2>7, PromiseWords DEF Promise!SetSlot
  <2> QED BY <2>8 DEF Promise!Next
<1>3. CASE Store
  <2>1. PICK s \in 1..Slots, t \in 1..Slots :
          /\ stack[t].ref
          /\ \E i \in 1..size[stack[t].addr] :
               f' = [f EXCEPT ![stack[t].addr][i] = stack[s]]
    BY <1>3 DEF Store
  <2>2. stack[t].addr \in Blocks
    BY <2>1 DEF ExactInv, IInv, NoDangling
  <2>3. /\ Blocks' = Blocks /\ UNCHANGED <<size, stack, held>>
        /\ pc = "tiger" /\ pc' = "tiger"
    BY <1>3, SameBlocks DEF Store
  <2>4. Promise!SetField
    BY <2>1, <2>2, <2>3 DEF Promise!SetField
  <2> QED BY <2>4 DEF Promise!Next
<1>4. CASE Return
  <2>1. /\ Blocks' = Blocks /\ UNCHANGED <<size, f, stack, held>>
        /\ pc = "tiger" /\ pc' = "done"
    BY <1>4, SameBlocks DEF Return
  <2>2. Promise!Stop
    BY <2>1 DEF Promise!Stop
  <2> QED BY <2>2 DEF Promise!Next
<1> QED BY <1>1, <1>2, <1>3, <1>4 DEF TigerProgram

\* The collector and the allocator implement GcSpec: no block that the program
\* can reach is taken back, and a block handed out holds nothing of its past.
THEOREM PromiseKept == Spec => ImplementsPromise
<1>1. ExactInv /\ [Next]_vars => [Promise!Next]_(Promise!vars)
  <2>1. SUFFICES ASSUME ExactInv, [Next]_vars
                 PROVE  Promise!Next \/ UNCHANGED Promise!vars
    OBVIOUS
  <2>2. CASE UNCHANGED vars
    <3>1. UNCHANGED <<size, f, stack, held, pc>> /\ Blocks' = Blocks
      BY <2>2, SameBlocks DEF vars
    <3> QED BY <3>1 DEF Promise!vars
  <2> QED
    BY <2>1, <2>2, AllocatorPromise, CollectorPromise, ProgramPromise DEF Next
<1> QED
  BY <1>1, InitialPromise, ExactInvariance, PTL
  DEF Spec, ImplementsPromise, Promise!Spec

-----------------------------------------------------------------------------
(* No word is lost.                                                        *)

\* The words of the listed blocks and those available are all there are.
Balance == pc # "failed" => avail + SumFunctionOnSet(Words, Blocks) = Memory

LEMMA ToSetFinite ==
  ASSUME NEW S, NEW s \in Seq(S)
  PROVE  IsFiniteSet(ToSet(s))
<1>1. IsFiniteSet(1..Len(s)) /\ 1..Len(s) = DOMAIN s
  BY FS_Interval
<1>2. s \in Surjection(1..Len(s), ToSet(s))
  BY <1>1 DEF Surjection, ToSet
<1> QED BY <1>1, <1>2, FS_Surjection

LEMMA BlocksFinite == TypeOK => IsFiniteSet(Blocks)
<1> SUFFICES ASSUME TypeOK PROVE IsFiniteSet(Blocks)
  OBVIOUS
<1>1. IsFiniteSet(ToSet(heap)) /\ IsFiniteSet(ToSet(h))
  BY ToSetFinite DEF TypeOK
<1> QED BY <1>1, FS_Union DEF Blocks

LEMMA WordsType == TypeOK => Words \in [Addr -> Nat]
<1> SUFFICES ASSUME TypeOK PROVE Words \in [Addr -> Nat]
  OBVIOUS
<1>1. \A a \in Addr : size[a] \in 0..MaxWords
  BY DEF TypeOK
<1>2. \A a \in Addr : MdWords + size[a] + NodeWords \in Nat
  BY <1>1, GcAssumption
<1> QED BY <1>2 DEF Words

\* Two lists without a block in common, each with its blocks once, make one.
LEMMA ConcatInjective ==
  ASSUME NEW S, NEW s \in Seq(S), NEW t \in Seq(S),
         IsInjective(s), IsInjective(t), ToSet(s) \cap ToSet(t) = {}
  PROVE  IsInjective(s \o t)
<1> DEFINE u == s \o t
<1>1. /\ DOMAIN u = 1..(Len(s) + Len(t)) /\ Len(s) \in Nat /\ Len(t) \in Nat
      /\ DOMAIN s = 1..Len(s) /\ DOMAIN t = 1..Len(t)
  BY ConcatProperties
<1>2. \A i \in 1..Len(s) : u[i] = s[i]
  BY ConcatProperties
<1>3. \A i \in DOMAIN u : i \notin 1..Len(s) =>
        i - Len(s) \in 1..Len(t) /\ u[i] = t[i - Len(s)]
  BY <1>1, ConcatProperties
<1>4. \A i \in 1..Len(s) : u[i] \in ToSet(s)
  BY <1>1, <1>2 DEF ToSet
<1>5. \A i \in DOMAIN u : i \notin 1..Len(s) => u[i] \in ToSet(t)
  BY <1>1, <1>3 DEF ToSet
<1> HIDE DEF u
<1>6. ASSUME NEW i \in DOMAIN u, NEW j \in DOMAIN u, u[i] = u[j]
      PROVE  i = j
  <2>1. CASE i \in 1..Len(s) /\ j \in 1..Len(s)
    BY <1>1, <1>2, <1>6, <2>1 DEF IsInjective
  <2>2. CASE i \notin 1..Len(s) /\ j \notin 1..Len(s)
    <3>1. i - Len(s) = j - Len(s)
      BY <1>1, <1>3, <1>6, <2>2 DEF IsInjective
    <3> QED BY <1>1, <3>1
  <2> QED BY <1>4, <1>5, <1>6, <2>1, <2>2
<1> QED BY <1>6 DEF IsInjective, u

LEMMA InitialBalance == Init => Balance
<1> SUFFICES ASSUME Init PROVE Balance
  OBVIOUS
<1>1. Blocks = {}
  BY ToSetEmpty DEF Init, Blocks
<1>2. SumFunctionOnSet(Words, {}) = 0
  BY FS_EmptySet, SumFacts
<1> QED BY <1>1, <1>2, GcAssumption DEF Init, Balance

LEMMA SameBalance ==
  ASSUME Balance, UNCHANGED <<size, avail>>, Blocks' = Blocks, pc # "failed"
  PROVE  Balance'
BY DEF Balance, Words

LEMMA BalancePreserved ==
  ASSUME ExactInv, Balance, [Next]_vars
  PROVE  Balance'
<1> USE DEF collector, memory
<1>1. CASE Malloc
  <2> DEFINE r == MdWords + req.words + NodeWords
  <2>1. PICK a \in Addr \ Blocks :
          heap' = <<a>> \o heap /\ size' = [size EXCEPT ![a] = req.words]
    BY <1>1 DEF Malloc
  <2>2. /\ avail' = avail - r /\ h' = h /\ pc # "failed"
    BY <1>1 DEF Malloc
  <2>3. Blocks' = Blocks \cup {a}
    BY <2>1, <2>2, ToSetPush DEF Blocks, ExactInv, IInv, TypeOK
  <2>4. req.words \in Nat /\ avail \in Nat /\ r \in Nat
    BY GcAssumption DEF ExactInv, IInv, TypeOK
  <2>5. size \in [Addr -> 0..MaxWords] /\ Blocks \subseteq Addr
    BY BlocksType DEF ExactInv, IInv, TypeOK
  <2>6. Words' = [Words EXCEPT ![a] = r]
    BY <2>1, <2>5 DEF Words
  <2>7. Words \in [Addr -> Nat] /\ IsFiniteSet(Blocks)
    BY WordsType, BlocksFinite DEF ExactInv, IInv
  <2> HIDE DEF r
  <2>8. SumFunctionOnSet(Words', Blocks') = r + SumFunctionOnSet(Words', Blocks)
    <3>1. \A b \in Blocks \cup {a} : Words'[b] \in Int
      BY <2>4, <2>5, <2>6, <2>7
    <3>2. Words'[a] = r
      BY <2>6, <2>7
    <3> QED BY <2>3, <2>7, <3>1, <3>2, SumWithOneMore
  <2>9. SumFunctionOnSet(Words', Blocks) = SumFunctionOnSet(Words, Blocks)
    <3>1. \A b \in Blocks : Words'[b] = Words[b]
      BY <2>5, <2>6, <2>7
    <3> QED BY <2>7, <3>1, SumOfSame
  <2>10. SumFunctionOnSet(Words, Blocks) \in Int
    BY <2>5, <2>7, SumFacts
  <2>11. avail + SumFunctionOnSet(Words, Blocks) = Memory
    BY <2>2 DEF Balance
  <2> QED BY <2>2, <2>4, <2>8, <2>9, <2>10, <2>11 DEF Balance
<1>2. CASE MallocNodeFails \/ MallocFails
  BY <1>2 DEF MallocNodeFails, MallocFails, Balance
<1>3. CASE SweepFree
  <2> DEFINE a == Head(h)
             r == MdWords + size[a] + NodeWords
  <2>1. /\ heap' = heap /\ h' = Tail(h) /\ h # <<>> /\ pc = "sweep"
        /\ size' = [size EXCEPT ![a] = 0]
        /\ avail' = avail + MdWords + size[a] + NodeWords
    BY <1>3 DEF SweepFree
  <2>2. /\ a \notin ToSet(Tail(h)) /\ a \notin ToSet(heap)
        /\ ToSet(h) = {a} \cup ToSet(Tail(h))
    BY <2>1, InjectiveTail, ToSetHeadTail DEF ExactInv, ListedOnce, IInv, TypeOK
  <2>3. Blocks = Blocks' \cup {a} /\ a \notin Blocks'
    BY <2>1, <2>2 DEF Blocks
  <2> HIDE DEF a
  <2>4. /\ Blocks \subseteq Addr /\ a \in Addr /\ avail \in Nat
        /\ size \in [Addr -> 0..MaxWords]
    BY <2>3, BlocksType DEF ExactInv, IInv, TypeOK
  <2>5. size[a] \in Nat /\ r \in Nat /\ avail' = avail + r /\ Words[a] = r
    BY <2>1, <2>4, GcAssumption DEF Words
  <2>6. Words' = [Words EXCEPT ![a] = MdWords + 0 + NodeWords]
    BY <2>1, <2>4 DEF Words
  <2>7. Words \in [Addr -> Nat] /\ IsFiniteSet(Blocks) /\ IsFiniteSet(Blocks')
    <3>1. Words \in [Addr -> Nat] /\ IsFiniteSet(Blocks)
      BY WordsType, BlocksFinite DEF ExactInv, IInv
    <3> QED BY <2>3, <3>1, FS_Subset
  <2> HIDE DEF r
  <2>8. SumFunctionOnSet(Words, Blocks) = r + SumFunctionOnSet(Words, Blocks')
    <3>1. \A b \in Blocks' \cup {a} : Words[b] \in Int
      BY <2>3, <2>4, <2>7
    <3>2. SumFunctionOnSet(Words, Blocks' \cup {a})
            = Words[a] + SumFunctionOnSet(Words, Blocks')
      BY <2>3, <2>7, <3>1, SumWithOneMore
    <3> QED BY <2>3, <2>5, <3>2
  <2>9. SumFunctionOnSet(Words', Blocks') = SumFunctionOnSet(Words, Blocks')
    <3>1. \A b \in Blocks' : Words'[b] = Words[b]
      BY <2>3, <2>4, <2>6, <2>7
    <3> QED BY <2>7, <3>1, SumOfSame
  <2>10. SumFunctionOnSet(Words, Blocks') \in Int
    <3>1. \A b \in Blocks' : Words[b] \in Int
      BY <2>3, <2>4, <2>7
    <3> QED BY <2>7, <3>1, SumFacts
  <2>11. avail + SumFunctionOnSet(Words, Blocks) = Memory
    BY <2>1 DEF Balance
  <2> QED BY <2>4, <2>5, <2>8, <2>9, <2>10, <2>11 DEF Balance
<1>4. CASE SweepKeep
  <2>1. /\ ToSet(h) = {Head(h)} \cup ToSet(h')
        /\ ToSet(heap') = ToSet(heap) \cup {Head(h)}
    BY <1>4, ToSetAppend, ToSetHeadTail DEF SweepKeep, ExactInv, IInv, TypeOK
  <2>2. Blocks' = Blocks
    BY <2>1 DEF Blocks
  <2> QED BY <1>4, <2>2, SameBalance DEF SweepKeep
<1>5. CASE MarkDone
  <2>1. heap' = <<>> /\ h' = heap /\ h = <<>>
    BY <1>5 DEF MarkDone, ExactInv, IInv, Phases
  <2>2. Blocks' = Blocks
    BY <2>1, ToSetEmpty DEF Blocks
  <2> QED BY <1>5, <2>2, SameBalance DEF MarkDone
<1>6. CASE CallAlloc \/ MallocCollects \/ GcRun \/ GcEnable
  BY <1>6, SameBlocks, SameBalance
  DEF CallAlloc, MallocCollects, GcRun, GcEnable
<1>7. CASE MarkRoot \/ MarkField \/ MarkReturn \/ SweepDone
  BY <1>7, SameBlocks, SameBalance DEF MarkRoot, MarkField, MarkReturn, SweepDone
<1>8. CASE TigerProgram
  BY <1>8, SameBlocks, SameBalance
  DEF TigerProgram, SetInt, Load, Store, Return, Program
<1>9. CASE UNCHANGED vars
  BY <1>9, SameBlocks DEF vars, Balance, Words
<1> QED
  BY <1>1, <1>2, <1>3, <1>4, <1>5, <1>6, <1>7, <1>8, <1>9
  DEF Next, Allocator, Marking, Sweeping

\* Every word calloc handed out for a block is there again once the block has
\* been freed, and a block is on the list once: collections leak nothing.
THEOREM NothingLost == Spec => []Accounting
<1>1. ExactInv /\ Balance => Accounting
  <2> SUFFICES ASSUME ExactInv, Balance PROVE Accounting
    OBVIOUS
  <2>1. IsInjective(heap \o h)
    BY ConcatInjective DEF ExactInv, ListedOnce, IInv, TypeOK
  <2> QED BY <2>1 DEF Balance, Accounting
<1>2. ExactInv /\ Balance /\ [Next]_vars => Balance'
  BY BalancePreserved
<1> QED BY <1>1, <1>2, InitialBalance, ExactInvariance, PTL DEF Spec

=============================================================================
