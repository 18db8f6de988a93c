------------------------------- MODULE Binder -------------------------------
(***************************************************************************)
(* bind::Binder, the visitor that binds each use of an identifier to its   *)
(* declaration, and each break to its loop.                                *)
(*                                                                         *)
(* The program is chosen while it is visited: a step visits one node and   *)
(* chooses what stands there.  nodes is the tree so far, in the order of   *)
(* the visit, each node with its parent; todo is what the visit still has  *)
(* to do, the stack of the calls of operator(): the visit of a node        *)
(* replaces its item by the calls its handler makes, in their order.       *)
(***************************************************************************)
EXTENDS ScopedMap

CONSTANTS
  Builtin,   \* "int" and "string", types without declaration
  MaxNodes,  \* bound: no choice of a further node beyond it
  MaxBatch   \* bound: declarations in a chunk, formals, expressions in a list

ASSUME BinderAssumption ==
  /\ Builtin \cap Key = {}
  /\ NoPointer = 0
  /\ MaxNodes \in Nat
  /\ MaxBatch \in Nat \ {0}

NoName == "no name"  \* the name of nodes that have none

VARIABLES
  nodes,        \* the tree: kind, parent, name and, of a use, its definition
  todo,         \* the calls the visit still has to make
  map_vardec_, map_fundec_, map_typedec_,
  in_loop_,     \* may a break stand here
  loops_,       \* the loops entered, innermost last
  outcome       \* "visiting", "bound", or what was diagnosed, at the last node

maps == <<map_vardec_, map_fundec_, map_typedec_>>
vars == <<nodes, todo, maps, in_loop_, loops_, outcome>>

This == Len(nodes) + 1  \* the node a step adds

Node(kind, parent, name, def) ==
  [kind |-> kind, in |-> parent, name |-> name, def |-> def]

Visiting(what) == outcome = "visiting" /\ todo # <<>> /\ Head(todo).do = what

\* The node the visited item hangs under, or, of a declaration, its own.
At == Head(todo).at

\* A call of a visitor, and the end of a handler that restores in_loop_.
Call(what, node) == [do |-> what, at |-> node, copy |-> FALSE]
Leave(what, node) == [do |-> what, at |-> node, copy |-> in_loop_]

Calls(what, node, n) == [i \in 1..n |-> Call(what, node)]

\* The handler at hand makes these calls and returns.
Goes(calls) == todo' = calls \o Tail(todo)

Adds(node) == nodes' = Append(nodes, node)

CanGrow == Len(nodes) < MaxNodes

\* error_.exit () throws out of the whole visit.
Diagnose(what) == outcome' = what /\ todo' = <<>>

ScopesBegin ==
  /\ map_vardec_' = scope_begin(map_vardec_)
  /\ map_fundec_' = scope_begin(map_fundec_)
  /\ map_typedec_' = scope_begin(map_typedec_)

ScopesEnd ==
  /\ map_vardec_' = scope_end(map_vardec_)
  /\ map_fundec_' = scope_end(map_fundec_)
  /\ map_typedec_' = scope_end(map_typedec_)

(***************************************************************************)
(* The visitors that only walk (ast::DefaultVisitor): the operands of a    *)
(* node, from left to right; and expressions without any.                  *)
(***************************************************************************)
Literal ==
  /\ Visiting("exp")
  /\ Goes(<<>>)
  /\ UNCHANGED <<nodes, maps, in_loop_, loops_, outcome>>

Operands ==
  /\ Visiting("exp")
  /\ CanGrow
  /\ \E n \in 1..MaxBatch :
       /\ Adds(Node("operands", At, NoName, NoPointer))
       /\ Goes(Calls("exp", This, n))
  /\ UNCHANGED <<maps, in_loop_, loops_, outcome>>

\* RecordExp and ArrayExp: the name of the type, then expressions.
TypedExp ==
  /\ Visiting("exp")
  /\ CanGrow
  /\ \E n \in 0..MaxBatch :
       /\ Adds(Node("operands", At, NoName, NoPointer))
       /\ Goes(<<Call("type", This)>> \o Calls("exp", This, n))
  /\ UNCHANGED <<maps, in_loop_, loops_, outcome>>

(***************************************************************************)
(* Uses.                                                                   *)
(***************************************************************************)
SimpleVar ==
  /\ Visiting("exp")
  /\ CanGrow
  /\ \E name \in Key :
       LET def == get(map_vardec_, name)
       IN /\ Adds(Node("variable", At, name, def))
          /\ IF def = NoPointer
             THEN Diagnose("undeclared variable")
             ELSE Goes(<<>>) /\ UNCHANGED outcome
  /\ UNCHANGED <<maps, in_loop_, loops_>>

CallExp ==
  /\ Visiting("exp")
  /\ CanGrow
  /\ \E name \in Key, n \in 0..MaxBatch :
       LET def == get(map_fundec_, name)
       IN /\ Adds(Node("call", At, name, def))
          /\ IF def = NoPointer
             THEN Diagnose("undeclared/undefined function")
             ELSE Goes(Calls("exp", This, n)) /\ UNCHANGED outcome
  /\ UNCHANGED <<maps, in_loop_, loops_>>

NameTy ==
  /\ Visiting("type")
  /\ \E name \in Key \cup Builtin :
       LET def == IF name \in Key THEN get(map_typedec_, name) ELSE NoPointer
       IN /\ Adds(Node("type name", At, name, def))
          /\ IF def = NoPointer /\ name \notin Builtin
             THEN Diagnose("undeclared type")
             ELSE Goes(<<>>) /\ UNCHANGED outcome
  /\ UNCHANGED <<maps, in_loop_, loops_>>

\* Mutant: only the stack of loops is consulted.
BreakExpAnyLoop ==
  /\ Visiting("exp")
  /\ CanGrow
  /\ IF loops_ # <<>>
     THEN /\ Adds(Node("break", At, NoName, Last(loops_)))
          /\ Goes(<<>>)
          /\ UNCHANGED outcome
     ELSE /\ Adds(Node("break", At, NoName, NoPointer))
          /\ Diagnose("invalid break")
  /\ UNCHANGED <<maps, in_loop_, loops_>>

BreakExp ==
  /\ Visiting("exp")
  /\ CanGrow
  /\ IF in_loop_ /\ loops_ # <<>>
     THEN /\ Adds(Node("break", At, NoName, Last(loops_)))
          /\ Goes(<<>>)
          /\ UNCHANGED outcome
     ELSE /\ Adds(Node("break", At, NoName, NoPointer))
          /\ Diagnose("invalid break")
  /\ UNCHANGED <<maps, in_loop_, loops_>>

(***************************************************************************)
(* Loops.                                                                  *)
(***************************************************************************)
\* The bounds and the variable of the loop are visited inside the loop.
ForExp ==
  /\ Visiting("exp")
  /\ CanGrow
  /\ Adds(Node("loop", At, NoName, NoPointer))
  /\ in_loop_' = TRUE
  /\ loops_' = Append(loops_, This)
  /\ ScopesBegin
  /\ Goes(<<Call("index", This), Call("exp", This), Call("exp", This),
            Leave("leave for", This)>>)
  /\ UNCHANGED outcome

\* Mutant: the loop stays on the stack.
LeaveForStays ==
  /\ Visiting("leave for")
  /\ ScopesEnd
  /\ in_loop_' = Head(todo).copy
  /\ Goes(<<>>)
  /\ UNCHANGED <<nodes, loops_, outcome>>

LeaveFor ==
  /\ Visiting("leave for")
  /\ ScopesEnd
  /\ loops_' = Front(loops_)
  /\ in_loop_' = Head(todo).copy
  /\ Goes(<<>>)
  /\ UNCHANGED <<nodes, outcome>>

\* The test of the loop, here a constant or a use, is not visited.
WhileExp ==
  /\ Visiting("exp")
  /\ CanGrow
  /\ LET loop == Node("loop", At, NoName, NoPointer)
     IN \/ Adds(loop)
        \/ \E name \in Key :
             nodes' = nodes \o <<loop, Node("test", This, name, NoPointer)>>
  /\ in_loop_' = TRUE
  /\ loops_' = Append(loops_, This)
  /\ Goes(<<Call("exp", This), Leave("leave while", This)>>)
  /\ UNCHANGED <<maps, outcome>>

LeaveWhile ==
  /\ Visiting("leave while")
  /\ loops_' = Front(loops_)
  /\ in_loop_' = Head(todo).copy
  /\ Goes(<<>>)
  /\ UNCHANGED <<nodes, maps, outcome>>

(***************************************************************************)
(* Scopes.                                                                 *)
(***************************************************************************)
\* Each expression of a sequence has a scope of its own.
SeqExp ==
  /\ Visiting("exp")
  /\ CanGrow
  /\ \E n \in 0..MaxBatch :
       /\ Adds(Node("operands", At, NoName, NoPointer))
       /\ Goes(Calls("scoped exp", This, n))
  /\ UNCHANGED <<maps, in_loop_, loops_, outcome>>

ScopedExp ==
  /\ Visiting("scoped exp")
  /\ ScopesBegin
  /\ Goes(<<Call("exp", At), Call("leave exp", At)>>)
  /\ UNCHANGED <<nodes, in_loop_, loops_, outcome>>

LeaveExp ==
  /\ Visiting("leave exp")
  /\ ScopesEnd
  /\ Goes(<<>>)
  /\ UNCHANGED <<nodes, in_loop_, loops_, outcome>>

LetExp ==
  /\ Visiting("exp")
  /\ CanGrow
  /\ Adds(Node("let", At, NoName, NoPointer))
  /\ ScopesBegin
  /\ in_loop_' = FALSE
  /\ Goes(<<Call("chunks", This), Call("exp", This), Leave("leave let", This)>>)
  /\ UNCHANGED <<loops_, outcome>>

LeaveLet ==
  /\ Visiting("leave let")
  /\ ScopesEnd
  /\ in_loop_' = Head(todo).copy
  /\ Goes(<<>>)
  /\ UNCHANGED <<nodes, loops_, outcome>>

(***************************************************************************)
(* Chunks and declarations.                                                *)
(***************************************************************************)
\* A ChunkList: its chunks in order, until there is none left.
NoMoreChunks ==
  /\ Visiting("chunks")
  /\ Goes(<<>>)
  /\ UNCHANGED <<nodes, maps, in_loop_, loops_, outcome>>

\* The grammar puts one declaration in each VarChunk of a ChunkList, so that
\* the handler's check for duplicates has nothing to compare.
VarChunk ==
  /\ Visiting("chunks")
  /\ CanGrow
  /\ Goes(<<Call("vardec", At), Head(todo)>>)
  /\ UNCHANGED <<nodes, maps, in_loop_, loops_, outcome>>

\* The name is put before the type and the initial value are visited.
VarDec ==
  /\ Visiting("vardec")
  /\ \E name \in Key, types \in 0..1 :
       /\ Adds(Node("var", At, name, NoPointer))
       /\ map_vardec_' = put(map_vardec_, name, This)
       /\ Goes(Calls("type", This, types) \o <<Call("exp", This)>>)
  /\ UNCHANGED <<map_fundec_, map_typedec_, in_loop_, loops_, outcome>>

\* The variable of a for: it has no type.
Index ==
  /\ Visiting("index")
  /\ \E name \in Key :
       /\ Adds(Node("var", At, name, NoPointer))
       /\ map_vardec_' = put(map_vardec_, name, This)
       /\ Goes(<<Call("exp", This)>>)
  /\ UNCHANGED <<map_fundec_, map_typedec_, in_loop_, loops_, outcome>>

\* A formal: it has a type and no initial value.
Formal ==
  /\ Visiting("formal")
  /\ \E name \in Key :
       /\ Adds(Node("formal", At, name, NoPointer))
       /\ map_vardec_' = put(map_vardec_, name, This)
       /\ Goes(<<Call("type", This)>>)
  /\ UNCHANGED <<map_fundec_, map_typedec_, in_loop_, loops_, outcome>>

TypeChunk ==
  /\ Visiting("chunks")
  /\ CanGrow
  /\ \E n \in 1..MaxBatch :
       /\ Adds(Node("chunk", At, NoName, NoPointer))
       /\ Goes(Calls("typedec", This, n) \o <<Head(todo)>>)
  /\ UNCHANGED <<maps, in_loop_, loops_, outcome>>

\* The check of TypeChunk, and TypeDec: the type itself is not visited.
TypeDec ==
  /\ Visiting("typedec")
  /\ \E name \in Key :
       /\ Adds(Node("type", At, name, NoPointer))
       /\ IF contains(map_typedec_, name)
          THEN Diagnose("duplicated type") /\ UNCHANGED map_typedec_
          ELSE /\ map_typedec_' = put(map_typedec_, name, This)
               /\ Goes(<<>>)
               /\ UNCHANGED outcome
  /\ UNCHANGED <<map_vardec_, map_fundec_, in_loop_, loops_>>

\* The names of all the functions of the chunk, then their contents.
FunctionChunk ==
  /\ Visiting("chunks")
  /\ CanGrow
  /\ \E n \in 1..MaxBatch :
       /\ Adds(Node("chunk", At, NoName, NoPointer))
       /\ Goes(Calls("declare", This, n)
                 \o [i \in 1..n |-> Call("fundec", This + i)]
                 \o <<Head(todo)>>)
  /\ UNCHANGED <<maps, in_loop_, loops_, outcome>>

\* Mutant: the name is put without a check.
DeclareUnchecked ==
  /\ Visiting("declare")
  /\ \E name \in Key :
       /\ Adds(Node("function", At, name, NoPointer))
       /\ map_fundec_' = put(map_fundec_, name, This)
       /\ Goes(<<>>)
  /\ UNCHANGED <<map_vardec_, map_typedec_, in_loop_, loops_, outcome>>

Declare ==
  /\ Visiting("declare")
  /\ \E name \in Key :
       /\ Adds(Node("function", At, name, NoPointer))
       /\ IF contains(map_fundec_, name)
          THEN Diagnose("duplicated function") /\ UNCHANGED map_fundec_
          ELSE /\ map_fundec_' = put(map_fundec_, name, This)
               /\ Goes(<<>>)
               /\ UNCHANGED outcome
  /\ UNCHANGED <<map_vardec_, map_typedec_, in_loop_, loops_>>

\* The formals one by one, and the body, which primitives do not have; the
\* type of the result is not visited.
FunctionDec ==
  /\ Visiting("fundec")
  /\ \E n \in 0..MaxBatch, bodies \in 0..1 :
       Goes(Calls("formal", At, n) \o Calls("exp", At, bodies)
              \o <<Leave("leave function", At)>>)
  /\ in_loop_' = FALSE
  /\ ScopesBegin
  /\ UNCHANGED <<nodes, loops_, outcome>>

LeaveFunction ==
  /\ Visiting("leave function")
  /\ ScopesEnd
  /\ in_loop_' = Head(todo).copy
  /\ Goes(<<>>)
  /\ UNCHANGED <<nodes, loops_, outcome>>

(***************************************************************************)
(* The visit of a program: the declarations at its root.                   *)
(***************************************************************************)
Init ==
  /\ nodes = <<>>
  /\ todo = <<[do |-> "chunks", at |-> 0, copy |-> FALSE]>>
  /\ map_vardec_ = NewMap
  /\ map_fundec_ = NewMap
  /\ map_typedec_ = NewMap
  /\ in_loop_ = FALSE
  /\ loops_ = <<>>
  /\ outcome = "visiting"

Return ==
  /\ outcome = "visiting"
  /\ todo = <<>>
  /\ outcome' = "bound"
  /\ UNCHANGED <<nodes, todo, maps, in_loop_, loops_>>

Use == SimpleVar \/ CallExp \/ NameTy \/ BreakExp
Walk == Literal \/ Operands \/ TypedExp
Loop == ForExp \/ LeaveFor \/ WhileExp \/ LeaveWhile
Scope == SeqExp \/ ScopedExp \/ LeaveExp \/ LetExp \/ LeaveLet
Chunk == NoMoreChunks \/ VarChunk \/ TypeChunk \/ FunctionChunk
Declaration == VarDec \/ Index \/ Formal \/ TypeDec \/ Declare \/ FunctionDec
                 \/ LeaveFunction

Next == Use \/ Walk \/ Loop \/ Scope \/ Chunk \/ Declaration \/ Return

Spec == Init /\ [][Next]_vars
=============================================================================
