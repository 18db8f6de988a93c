------------------------------ MODULE GcProps ------------------------------
(***************************************************************************)
(* What the collector and the allocator of module Gc must guarantee.       *)
(***************************************************************************)
EXTENDS Gc

Frame == [obj : Addr, i : Nat \ {0}]

\* Every variable has its type; the two halves of the list are disjoint.
TypeOK ==
  /\ heap \in Seq(Addr)
  /\ h \in Seq(Addr)
  /\ size \in [Addr -> 0..MaxWords]
  /\ f \in [Addr -> [1..MaxWords -> Word]]
  /\ marked \in [Addr -> BOOLEAN]
  /\ enabled \in BOOLEAN
  /\ stack \in [1..Slots -> Word]
  /\ held \in [1..2 -> Word]
  /\ scan \in 0..ScanWords
  /\ dfs \in Seq(Frame)
  /\ req \in [words : 0..MaxWords, slot : 0..Slots]
  /\ back \in {"tiger", "retry"}
  /\ pc \in {"tiger", "alloc", "retry", "mark", "sweep", "done", "failed"}
  /\ avail \in Nat

-----------------------------------------------------------------------------
\* The addresses the words of block a denote, whatever their type.
Targets(a) == {f[a][i].addr : i \in 1..size[a]}

\* The addresses found between gc_collect's frame and tos.
ScannedAddrs == {ScanWord(k).addr : k \in 1..ScanWords}

Closed(S) == \A a \in S : Targets(a) \cap Blocks \subseteq S

\* What a conservative collector must keep: the least set of blocks that holds
\* the scanned ones and is closed under the words of its members.
Conservative ==
  {a \in Blocks : \A S \in SUBSET Blocks :
     (ScannedAddrs \cap Blocks \subseteq S /\ Closed(S)) => a \in S}

\* The blocks the sweep has kept, or is going to keep.
Kept == ToSet(heap) \cup {a \in ToSet(h) : marked[a]}

\* No reference of the compiled program ever dangles: every reference on its
\* stack or held by the run time for it denotes a block of the list and, but
\* for the blocks the sweep is about to free, so does every reference stored
\* in a block.  A scan or a DFS that misses one word breaks it.
NoDangling ==
  /\ \A s \in 1..Slots : stack[s].ref => stack[s].addr \in Blocks
  /\ \A k \in 1..2 : held[k].ref => held[k].addr \in Blocks
  /\ \A a \in IF pc = "sweep" THEN Kept ELSE Blocks : \A i \in 1..size[a] :
       f[a][i].ref => f[a][i].addr \in Blocks

\* Marks are clear whenever gc_collect is not running: a mark left over would
\* make the next DFS stop at that block, and its fields would be lost.
MarksClear == pc \notin {"mark", "sweep"} => \A a \in Blocks : ~marked[a]

\* The sweep decides rightly, both ways: the blocks it keeps are exactly the
\* ones a scanned word leads to.  With address-like integers among the words
\* this is all a conservative collector can do.
SweepExact == pc = "sweep" => Kept = Conservative

\* Depth of the recursion: DFS is never active twice on one block, so cyclic
\* data cannot make it recurse for ever, and its C stack is bounded by the
\* number of blocks.
DepthBounded ==
  \A j, k \in 1..Len(dfs) : dfs[j].obj = dfs[k].obj => j = k

\* The words the C library gave for each block: the object with its header,
\* and the node.
Words == [a \in Addr |-> MdWords + size[a] + NodeWords]

\* A block is on the list once (or it would be freed twice), and every word
\* handed out is either in a listed object with its node, or available again:
\* the sweep loses neither objects nor nodes.
Accounting ==
  /\ IsInjective(heap \o h)
  /\ pc # "failed" => avail + SumFunctionOnSet(Words, Blocks) = Memory

\* When the second calloc fails, collection being on, nothing but blocks a
\* word still leads to stood in the way.
GivesUpHonestly ==
  pc = "retry" /\ ~Calloc /\ enabled => Conservative = Blocks

\* gc_collect always returns, and a request is always answered: by a block or
\* by the end of the program.
Answered ==
  pc \in {"alloc", "retry", "mark", "sweep"} ~> pc \in {"tiger", "failed"}

-----------------------------------------------------------------------------
(***************************************************************************)
(* The inductive invariant behind NoDangling and SweepExact.               *)
(***************************************************************************)
\* The variables of a phase are at rest outside it.
Phases ==
  /\ pc # "sweep" => h = <<>>
  /\ pc # "mark" => scan = 0 /\ dfs = <<>>

\* Field i of block a is still to be visited by an active call of DFS.
Pending(a, i) == \E k \in 1..Len(dfs) : dfs[k].obj = a /\ dfs[k].i <= i

\* What has been scanned is marked, and so is what a marked block leads to, but
\* for the fields an active call of DFS has still to visit.
MarkInv == pc = "mark" =>
  /\ \A k \in 1..scan : ScanWord(k).addr \in Blocks => marked[ScanWord(k).addr]
  /\ \A a \in Blocks : marked[a] => \A i \in 1..size[a] :
       f[a][i].addr \in Blocks => marked[f[a][i].addr] \/ Pending(a, i)

\* What the sweep keeps holds the scanned words and is closed.
SweepInv == pc = "sweep" =>
  /\ ScannedAddrs \cap Blocks \subseteq Kept
  /\ Closed(Kept)
  /\ \A a \in ToSet(heap) : ~marked[a]

IInv ==
  /\ TypeOK
  /\ Phases
  /\ MarksClear
  /\ MarkInv
  /\ SweepInv
  /\ NoDangling

-----------------------------------------------------------------------------
(***************************************************************************)
(* The inductive invariant behind SweepExact, DepthBounded, the honesty of *)
(* the allocator and the refinement of GcSpec.                             *)
(***************************************************************************)
\* A block is on the list once.
ListedOnce ==
  /\ IsInjective(heap)
  /\ IsInjective(h)
  /\ ToSet(heap) \cap ToSet(h) = {}

\* A call of DFS is for a block that it has marked.
ActiveMarked ==
  \A k \in 1..Len(dfs) : dfs[k].obj \in Blocks /\ marked[dfs[k].obj]

\* Nothing is marked, and nothing kept, that no scanned word leads to.
NoneInVain ==
  /\ pc = "mark" => \A a \in Blocks : marked[a] => a \in Conservative
  /\ pc = "sweep" => Kept \subseteq Conservative

\* The second calloc, after a collection.
Collected == pc = "retry" /\ enabled => Conservative = Blocks

\* The request survives the collection it waits for.
Serving ==
  /\ pc \in {"alloc", "retry"} => req.slot \in 1..Slots
  /\ back = "retry" => pc \in {"mark", "sweep"} /\ req.slot \in 1..Slots

ExactInv ==
  /\ IInv
  /\ ListedOnce
  /\ ActiveMarked
  /\ DepthBounded
  /\ NoneInVain
  /\ Collected
  /\ Serving

-----------------------------------------------------------------------------
(***************************************************************************)
(* The run time implements the memory of GcSpec: the blocks of the list    *)
(* are the program's, and a step of the sweep that frees one is a Reclaim. *)
(***************************************************************************)
Promise == INSTANCE GcSpec WITH
             blocks <- Blocks,
             running <- pc \notin {"done", "failed"}

\* The collector and allocator implement GcSpec.
ImplementsPromise == Promise!Spec

=============================================================================
