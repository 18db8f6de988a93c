--------------------------------- MODULE Gc ---------------------------------
(***************************************************************************)
(* The mark and sweep collector of the Tiger run time and its allocator    *)
(* (src/src/llvmgc/runtime), one step of the collector's loops at a time,  *)
(* driven by an arbitrary well typed compiled program.                     *)
(*                                                                         *)
(* A block is named by the address tc_malloc returned, and shares its name *)
(* with the list node that holds it.  The list of nodes is split at the    *)
(* cursor of the sweep: heap ends with the node prev points to, h starts   *)
(* with the node h points to; h is empty outside the sweep.  A freed block *)
(* is reset, since nothing may read it before calloc hands it out again.   *)
(***************************************************************************)
EXTENDS SequencesExt

CONSTANTS
  Addr,      \* the addresses calloc may return
  NoAddr,    \* the address part of a word that is no block's address
  MaxWords,  \* bound: the largest number of words requested
  Slots,     \* bound: the number of stack words of the compiled program
  MdWords,   \* the words calloc adds to a request for struct gc_md
  NodeWords, \* the words of a struct list_obj
  Memory     \* bound: the words the C library can hand out in all

ASSUME GcAssumption ==
  /\ NoAddr \notin Addr
  /\ MaxWords \in Nat
  /\ Slots \in Nat
  /\ MdWords \in Nat
  /\ NodeWords \in Nat
  /\ Memory \in Nat

VARIABLES
  heap,     \* gc_ctx_.heap, the nodes up to prev while sweeping
  h,        \* the nodes the sweep has still to visit
  size,     \* md.size of each block, in words
  f,        \* the words of each block
  marked,   \* md.marked of each block
  enabled,  \* gc_ctx_.gc_enabled
  stack,    \* the words of the compiled program's frames, up to tos
  held,     \* the words of the run time's frames: elt, and a stale one
  scan,     \* how many stack words gc_collect has scanned
  dfs,      \* the C stack of DFS: the block and the index of its loop
  req,      \* the request tc_malloc is serving: words and where it goes
  back,     \* where control goes when gc_collect returns
  pc,       \* where control is
  avail     \* the words the C library still has (external)

collector == <<heap, h, marked, scan, dfs>>
memory == <<size, f, avail>>
vars == <<heap, h, size, f, marked, enabled, stack, held, scan, dfs, req,
          back, pc, avail>>

Word == {w \in [addr : Addr \cup {NoAddr}, ref : BOOLEAN] :
           w.ref => w.addr # NoAddr}
Zero   == [addr |-> NoAddr, ref |-> FALSE]
Ref(a) == [addr |-> a, ref |-> TRUE]
Number(a) == [addr |-> a, ref |-> FALSE]

ZeroBlock == [i \in 1..MaxWords |-> Zero]

\* Every block on the list; find_in_heap finds these and no other word.
Blocks == ToSet(heap) \cup ToSet(h)

(***************************************************************************)
(* Calls of the compiled program into the allocator.  Records and strings  *)
(* leave their words zero; an array is filled with elt, which from here on *)
(* may live nowhere but in the frame of tc_init_array.                     *)
(***************************************************************************)
CallAlloc ==
  /\ pc = "tiger"
  /\ \E n \in 0..MaxWords, s \in 1..Slots :
       req' = [words |-> n, slot |-> s]
  /\ \/ UNCHANGED <<held, stack>>
     \/ \E t \in 1..Slots :
          /\ held' = <<stack[t], Zero>>
          /\ stack' = [stack EXCEPT ![t] = Zero]
  /\ pc' = "alloc"
  /\ UNCHANGED <<collector, memory, enabled, back>>

\* The frame of gc_collect holds words that nothing has written since earlier
\* calls used that part of the stack: the scan meets one more word, of any value.
EnterCollect ==
  \E stale \in {Number(a) : a \in Addr} \cup {Zero} :
    held' = <<held[1], stale>>

Fits(words) == avail >= words

\* The calloc of tc_malloc finds a free address with room for the object ...
Calloc == Fits(MdWords + req.words) /\ Blocks # Addr

\* Mutant: malloc instead of calloc, the words are whatever was there.
MallocUncleared ==
  /\ pc \in {"alloc", "retry"}
  /\ Calloc
  /\ Fits(MdWords + req.words + NodeWords)
  /\ avail' = avail - (MdWords + req.words + NodeWords)
  /\ \E a \in Addr \ Blocks, w \in Word :
       /\ heap' = <<a>> \o heap
       /\ marked' = [marked EXCEPT ![a] = FALSE]
       /\ size' = [size EXCEPT ![a] = req.words]
       /\ f' = [f EXCEPT ![a] = [i \in 1..MaxWords |->
                                   IF i <= req.words THEN w ELSE Zero]]
       /\ stack' = [stack EXCEPT ![req.slot] = Ref(a)]
  /\ held' = <<Zero, Zero>>
  /\ req' = [words |-> 0, slot |-> 0]
  /\ pc' = "tiger"
  /\ UNCHANGED <<h, scan, dfs, enabled, back>>

\* ... the node is allocated too, and pushed in front of the list ...
Malloc ==
  /\ pc \in {"alloc", "retry"}
  /\ Calloc
  /\ Fits(MdWords + req.words + NodeWords)
  /\ avail' = avail - (MdWords + req.words + NodeWords)
  /\ \E a \in Addr \ Blocks :
       /\ heap' = <<a>> \o heap
       /\ marked' = [marked EXCEPT ![a] = FALSE]
       /\ size' = [size EXCEPT ![a] = req.words]
       /\ f' = [f EXCEPT ![a] = [i \in 1..MaxWords |->
                                   IF i <= req.words THEN held[1] ELSE Zero]]
       /\ stack' = [stack EXCEPT ![req.slot] = Ref(a)]
  /\ held' = <<Zero, Zero>>
  /\ req' = [words |-> 0, slot |-> 0]
  /\ pc' = "tiger"
  /\ UNCHANGED <<h, scan, dfs, enabled, back>>

\* ... or there is no room left for the node: exit (EXIT_FAILURE).
MallocNodeFails ==
  /\ pc \in {"alloc", "retry"}
  /\ Calloc
  /\ ~Fits(MdWords + req.words + NodeWords)
  /\ avail' = avail - (MdWords + req.words)
  /\ pc' = "failed"
  /\ UNCHANGED <<collector, size, f, enabled, stack, held, req, back>>

\* Mutant: the second calloc is tried without a collection in between.
MallocForgetsToCollect ==
  /\ pc = "alloc"
  /\ ~Calloc
  /\ pc' = "retry"
  /\ UNCHANGED <<collector, memory, enabled, stack, held, req, back>>

\* calloc returns NULL: collect, unless collection is off, and try again ...
MallocCollects ==
  /\ pc = "alloc"
  /\ ~Calloc
  /\ IF enabled
     THEN pc' = "mark" /\ back' = "retry" /\ EnterCollect
     ELSE pc' = "retry" /\ UNCHANGED <<back, held>>
  /\ UNCHANGED <<collector, memory, enabled, stack, req>>

\* Mutant: collect again and again until there is room.
MallocNeverGivesUp ==
  /\ pc = "retry"
  /\ ~Calloc
  /\ pc' = "alloc"
  /\ UNCHANGED <<collector, memory, enabled, stack, held, req, back>>

\* ... and give up when the second calloc returns NULL too.
MallocFails ==
  /\ pc = "retry"
  /\ ~Calloc
  /\ pc' = "failed"
  /\ UNCHANGED <<collector, memory, enabled, stack, held, req, back>>

(***************************************************************************)
(* tc_gc_run and tc_gc_enable.                                             *)
(***************************************************************************)
GcRun ==
  /\ pc = "tiger"
  /\ enabled
  /\ EnterCollect
  /\ pc' = "mark"
  /\ back' = "tiger"
  /\ UNCHANGED <<collector, memory, enabled, stack, req>>

GcEnable ==
  /\ pc = "tiger"
  /\ enabled' = ~enabled
  /\ UNCHANGED <<collector, memory, stack, held, req, back, pc>>

(***************************************************************************)
(* gc_collect, first half: every word from its own frame up to tos, and    *)
(* DFS over the words of the blocks they lead to.                          *)
(***************************************************************************)
\* Mutant: the scan stops one word below tos.
ScanWordsShort == 1 + Slots

\* The run time and the program are compiled without optimisation: across a
\* call every word they use is in a frame, none in a register only.
ScanWords == 2 + Slots
ScanWord(k) == IF k <= 2 THEN held[k] ELSE stack[k - 2]

\* Mutant: DFS does not look at the mark.
VisitAgain(w, below) ==
  IF w.addr \in Blocks
  THEN /\ marked' = [marked EXCEPT ![w.addr] = TRUE]
       /\ dfs' = Append(below, [obj |-> w.addr, i |-> 1])
  ELSE UNCHANGED marked /\ dfs' = below

\* Mutant: a block reached through a field is marked but not traversed.
VisitShallow(w, below) ==
  /\ marked' = [a \in Addr |-> marked[a] \/ (a = w.addr /\ a \in Blocks)]
  /\ dfs' = IF w.addr \in Blocks /\ ~marked[w.addr] /\ below = <<>>
            THEN <<[obj |-> w.addr, i |-> 1]>>
            ELSE below

\* DFS (node) called with the frames below it on the C stack.
Visit(w, below) ==
  IF w.addr \in Blocks /\ ~marked[w.addr]
  THEN /\ marked' = [marked EXCEPT ![w.addr] = TRUE]
       /\ dfs' = Append(below, [obj |-> w.addr, i |-> 1])
  ELSE UNCHANGED marked /\ dfs' = below

Top == dfs[Len(dfs)]
Below == SubSeq(dfs, 1, Len(dfs) - 1)

MarkRoot ==
  /\ pc = "mark"
  /\ dfs = <<>>
  /\ scan < ScanWords
  /\ scan' = scan + 1
  /\ Visit(ScanWord(scan + 1), dfs)
  /\ UNCHANGED <<heap, h, memory, enabled, stack, held, req, back, pc>>

MarkField ==
  /\ pc = "mark"
  /\ dfs # <<>>
  /\ Top.i <= size[Top.obj]
  /\ Visit(f[Top.obj][Top.i], Append(Below, [obj |-> Top.obj, i |-> Top.i + 1]))
  /\ UNCHANGED <<heap, h, scan, memory, enabled, stack, held, req, back, pc>>

MarkReturn ==
  /\ pc = "mark"
  /\ dfs # <<>>
  /\ Top.i > size[Top.obj]
  /\ dfs' = Below
  /\ UNCHANGED <<heap, h, marked, scan, memory, enabled, stack, held, req,
                 back, pc>>

MarkDone ==
  /\ pc = "mark"
  /\ dfs = <<>>
  /\ scan = ScanWords
  /\ scan' = 0
  /\ heap' = <<>>
  /\ h' = heap
  /\ pc' = "sweep"
  /\ UNCHANGED <<marked, dfs, memory, enabled, stack, held, req, back>>

(***************************************************************************)
(* gc_collect, second half: clear the mark of a marked block, free the     *)
(* others with their nodes, until the end of the list.                     *)
(***************************************************************************)
\* Mutant: the mark is left for the next collection.
SweepKeepMarked ==
  /\ pc = "sweep"
  /\ h # <<>>
  /\ marked[Head(h)]
  /\ heap' = Append(heap, Head(h))
  /\ h' = Tail(h)
  /\ UNCHANGED <<marked, scan, dfs, memory, enabled, stack, held, req, back, pc>>

SweepKeep ==
  /\ pc = "sweep"
  /\ h # <<>>
  /\ marked[Head(h)]
  /\ marked' = [marked EXCEPT ![Head(h)] = FALSE]
  /\ heap' = Append(heap, Head(h))
  /\ h' = Tail(h)
  /\ UNCHANGED <<scan, dfs, memory, enabled, stack, held, req, back, pc>>

\* Mutant: the object is freed, its node is not.
SweepFreeLeaksNode ==
  /\ pc = "sweep"
  /\ h # <<>>
  /\ ~marked[Head(h)]
  /\ size' = [size EXCEPT ![Head(h)] = 0]
  /\ f' = [f EXCEPT ![Head(h)] = ZeroBlock]
  /\ avail' = avail + MdWords + size[Head(h)]
  /\ h' = Tail(h)
  /\ UNCHANGED <<heap, marked, scan, dfs, enabled, stack, held, req, back, pc>>

SweepFree ==
  /\ pc = "sweep"
  /\ h # <<>>
  /\ ~marked[Head(h)]
  /\ size' = [size EXCEPT ![Head(h)] = 0]
  /\ f' = [f EXCEPT ![Head(h)] = ZeroBlock]
  /\ avail' = avail + MdWords + size[Head(h)] + NodeWords
  /\ h' = Tail(h)
  /\ UNCHANGED <<heap, marked, scan, dfs, enabled, stack, held, req, back, pc>>

SweepDone ==
  /\ pc = "sweep"
  /\ h = <<>>
  /\ pc' = back
  /\ held' = IF back = "tiger" THEN <<Zero, Zero>> ELSE held
  /\ back' = "tiger"
  /\ UNCHANGED <<collector, memory, enabled, stack, req>>

(***************************************************************************)
(* The compiled program: it copies words between its stack and the blocks  *)
(* it holds references to, and computes integers, which may look like      *)
(* addresses.                                                              *)
(***************************************************************************)
Program == <<collector, memory, enabled, held, req, back, pc>>

SetInt ==
  /\ pc = "tiger"
  /\ \E s \in 1..Slots, w \in {Number(a) : a \in Addr} \cup {Zero} :
       stack' = [stack EXCEPT ![s] = w]
  /\ UNCHANGED Program

Load ==
  /\ pc = "tiger"
  /\ \E s, t \in 1..Slots :
       /\ stack[t].ref
       /\ \E i \in 1..size[stack[t].addr] :
            stack' = [stack EXCEPT ![s] = f[stack[t].addr][i]]
  /\ UNCHANGED Program

Store ==
  /\ pc = "tiger"
  /\ \E s, t \in 1..Slots :
       /\ stack[t].ref
       /\ \E i \in 1..size[stack[t].addr] :
            f' = [f EXCEPT ![stack[t].addr][i] = stack[s]]
  /\ UNCHANGED <<collector, size, avail, enabled, stack, held, req, back, pc>>

\* tc_main returns, and main with it.
Return ==
  /\ pc = "tiger"
  /\ pc' = "done"
  /\ UNCHANGED <<collector, memory, enabled, stack, held, req, back>>

-----------------------------------------------------------------------------
Init ==
  /\ heap = <<>>
  /\ h = <<>>
  /\ size = [a \in Addr |-> 0]
  /\ f = [a \in Addr |-> ZeroBlock]
  /\ marked = [a \in Addr |-> FALSE]
  /\ enabled = TRUE
  /\ stack = [s \in 1..Slots |-> Zero]
  /\ held = <<Zero, Zero>>
  /\ scan = 0
  /\ dfs = <<>>
  /\ req = [words |-> 0, slot |-> 0]
  /\ back = "tiger"
  /\ pc = "tiger"
  /\ avail = Memory

Allocator == Malloc \/ MallocNodeFails \/ MallocCollects \/ MallocFails
Marking == MarkRoot \/ MarkField \/ MarkReturn \/ MarkDone
Sweeping == SweepKeep \/ SweepFree \/ SweepDone
TigerProgram == SetInt \/ Load \/ Store \/ Return

Next ==
  \/ CallAlloc
  \/ Allocator
  \/ GcRun
  \/ GcEnable
  \/ Marking
  \/ Sweeping
  \/ TigerProgram

Spec == Init /\ [][Next]_vars

\* The run time is straight line code and finite loops of the only thread: it
\* takes its next step.  Nothing forces the compiled program to do anything.
FairSpec == Spec /\ WF_vars(Allocator \/ Marking \/ Sweeping)
=============================================================================
