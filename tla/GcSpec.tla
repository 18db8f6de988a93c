------------------------------- MODULE GcSpec -------------------------------
(***************************************************************************)
(* What the Tiger run time promises to a compiled program: a memory of     *)
(* zero-initialised blocks in which a block the program can still reach    *)
(* through its references is never taken back.  When, and how many,        *)
(* unreachable blocks are reclaimed is left open.                          *)
(***************************************************************************)
EXTENDS Naturals

CONSTANTS
  Addr,      \* the addresses the C library may hand out
  NoAddr,    \* the address part of a word that is no block's address
  MaxWords,  \* bound: the largest number of words of a block
  Slots      \* bound: the number of words of the program's own stack

(***************************************************************************)
(* A word is a bit pattern (the address it denotes, if any) together with  *)
(* what the type checker knows and the collector does not: whether it is a *)
(* reference or an integer that merely looks like one.                     *)
(***************************************************************************)
Word == {w \in [addr : Addr \cup {NoAddr}, ref : BOOLEAN] :
           w.ref => w.addr # NoAddr}

Zero   == [addr |-> NoAddr, ref |-> FALSE]
Ref(a) == [addr |-> a, ref |-> TRUE]
Number(a) == [addr |-> a, ref |-> FALSE]

VARIABLES
  blocks,    \* the blocks the program owns
  size,      \* how many words each block has
  f,         \* the words of each block
  stack,     \* the words of the frames of the compiled program
  held,      \* the words of the run time's own frames: arguments in use
  running    \* FALSE once the program has ended

vars == <<blocks, size, f, stack, held, running>>

RefsOf(a) == {f[a][i].addr : i \in {j \in 1..size[a] : f[a][j].ref}}

Roots == {stack[s].addr : s \in {r \in 1..Slots : stack[r].ref}}
           \cup {held[k].addr : k \in {r \in 1..2 : held[r].ref}}

\* A set of blocks closed under the references of its members.
Closed(S) == \A a \in S : RefsOf(a) \cap blocks \subseteq S

\* The blocks the program can reach: the least closed set holding the roots.
Reachable == {a \in blocks : \A S \in SUBSET blocks :
                (Roots \cap blocks \subseteq S /\ Closed(S)) => a \in S}

Init ==
  /\ blocks = {}
  /\ size = [a \in Addr |-> 0]
  /\ f = [a \in Addr |-> [i \in 1..MaxWords |-> Zero]]
  /\ stack = [s \in 1..Slots |-> Zero]
  /\ held = <<Zero, Zero>>
  /\ running = TRUE

\* A request hands out a block that is not in use, with every word zero.  An
\* array is then filled with the element the caller passed.
Allocate ==
  /\ running
  /\ \E a \in Addr \ blocks, n \in 0..MaxWords, s \in 1..Slots,
        w \in {Zero, held[1]} :
       /\ blocks' = blocks \cup {a}
       /\ size' = [size EXCEPT ![a] = n]
       /\ f' = [f EXCEPT ![a] =
                  [i \in 1..MaxWords |-> IF i <= n THEN w ELSE Zero]]
       /\ stack' = [stack EXCEPT ![s] = Ref(a)]
  /\ held' = <<Zero, Zero>>
  /\ UNCHANGED running

\* Only a block no path of references leads to may be reclaimed.
Reclaim ==
  /\ running
  /\ \E a \in blocks :
       /\ blocks' = blocks \ {a}
       /\ a \notin Reachable
       /\ size' = [size EXCEPT ![a] = 0]
       /\ f' = [f EXCEPT ![a] = [i \in 1..MaxWords |-> Zero]]
  /\ UNCHANGED <<stack, held, running>>

\* The program writes one word of its stack.
SetSlot ==
  /\ running
  /\ \E s \in 1..Slots, w \in Word :
       /\ w.ref => w.addr \in blocks
       /\ stack' = [stack EXCEPT ![s] = w]
  /\ UNCHANGED <<blocks, size, f, held, running>>

\* The program writes one word of a block it holds a reference to.
SetField ==
  /\ running
  /\ \E t, s \in 1..Slots :
       /\ stack[t].ref
       /\ stack[t].addr \in blocks
       /\ \E i \in 1..size[stack[t].addr] :
            f' = [f EXCEPT ![stack[t].addr][i] = stack[s]]
  /\ UNCHANGED <<blocks, size, stack, held, running>>

\* The program enters the run time with an argument taken from its stack, and
\* leaves it; the second word stands for what was there before the call.
EnterRuntime ==
  /\ running
  /\ \E w \in Word :
       /\ ~w.ref
       /\ \/ held' = <<held[1], w>> /\ UNCHANGED stack
          \/ \E s \in 1..Slots :
               /\ held' = <<stack[s], w>>
               /\ stack' = [stack EXCEPT ![s] = Zero]
  /\ UNCHANGED <<blocks, size, f, running>>

LeaveRuntime ==
  /\ running
  /\ held' = <<Zero, Zero>>
  /\ UNCHANGED <<blocks, size, f, stack, running>>

Stop ==
  /\ running
  /\ running' = FALSE
  /\ UNCHANGED <<blocks, size, f, stack, held>>

Next ==
  \/ Allocate
  \/ Reclaim
  \/ SetSlot
  \/ SetField
  \/ EnterRuntime
  \/ LeaveRuntime
  \/ Stop

Spec == Init /\ [][Next]_vars

=============================================================================
