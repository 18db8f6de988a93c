---------------------------- MODULE LambdaLifting ----------------------------
(***************************************************************************)
(* How nested functions get at the variables of the functions around them. *)
(* Three visitors walk the program one after the other:                    *)
(* escapes::EscapesVisitor flags variables, llvmtranslate::EscapesCollector*)
(* gives each function the set of flagged variables it is to be passed by  *)
(* address, and Translator turns those sets into arguments and looks each  *)
(* variable up among the locals of the function being translated.          *)
(*                                                                         *)
(* A body is the sequence of what the visitors meet in it that concerns    *)
(* them, in the order of the visit.  The primitives, which have no body    *)
(* and use nothing, are left out.                                          *)
(***************************************************************************)
EXTENDS Integers, Sequences, FiniteSets

CONSTANTS
  Fun,      \* function declarations
  Main,     \* _main, whose body is the program
  Var,      \* variable declarations, formals among them
  Programs  \* the programs: each function's formals and body

Op == {"use", "call", "var", "open", "close", "functions"}

ASSUME LiftingAssumption ==
  /\ Main \in Fun
  /\ \A p \in Programs :
       /\ DOMAIN p.formals = Fun /\ DOMAIN p.body = Fun
       /\ \A f \in Fun : p.formals[f] \in SUBSET Var
       /\ \A f \in Fun : /\ Len(p.body[f]) \in Nat
                         /\ DOMAIN p.body[f] = 1..Len(p.body[f])
       /\ \A f \in Fun : \A i \in DOMAIN p.body[f] :
            LET item == p.body[f][i]
            IN  /\ item.op \in Op
                /\ item.op \in {"use", "var"} => item.of \in Var
                /\ item.op = "call" => item.of \in Fun
                /\ item.op = "functions" => item.of \in Seq(Fun)

-----------------------------------------------------------------------------
\* The text of a program: the items of a kind in a body, and what they are about.
Items(p, f) == DOMAIN p.body[f]
OpAt(p, f, i) == p.body[f][i].op
OfAt(p, f, i) == p.body[f][i].of
Where(p, f, op) == {i \in Items(p, f) : OpAt(p, f, i) = op}

Elements(chunk) == {chunk[k] : k \in DOMAIN chunk}
Nested(p, f) == UNION {Elements(OfAt(p, f, i)) : i \in Where(p, f, "functions")}

\* f and what leads from it along a relation between functions.
Closure(f, Leads(_)) ==
  {g \in Fun : \A S \in SUBSET Fun : f \in S /\ (\A h \in S : Leads(h) \subseteq S) => g \in S}

Inside(p, f) == Closure(f, LAMBDA h : Nested(p, h))

\* Lets and loops open at the ith item of f.
Before(p, f, op, i) == Cardinality({j \in Where(p, f, op) : j < i})
Depth(p, f, i) == Before(p, f, "open", i) - Before(p, f, "close", i)

\* What is open at the jth item of f is open up to the ith.
StaysOpen(p, f, j, i) == \A m \in j..i : Depth(p, f, j) <= Depth(p, f, m)

\* The ith item of f is the mth item of h, or in a function declared there.
Within(p, f, i, h, m) ==
  \/ f = h /\ i = m
  \/ m \in Where(p, h, "functions") /\ \E g \in Elements(OfAt(p, h, m)) : f \in Inside(p, g)

\* v is a formal of h, or declared in it in front of the mth item, in a let or
\* loop that is still open there; and the function g is declared up to there.
SeesVar(p, v, h, m) ==
  \/ v \in p.formals[h]
  \/ \E j \in Where(p, h, "var") : j < m /\ OfAt(p, h, j) = v /\ StaysOpen(p, h, j, m)
SeesFun(p, g, h, m) ==
  \E j \in Where(p, h, "functions") : j <= m /\ g \in Elements(OfAt(p, h, j))

\* Each function is declared at one place, _main at none.
OnePlaceEach(p) ==
  \A f, g \in Fun : \A i \in Where(p, f, "functions"), j \in Where(p, g, "functions") :
    \A k \in DOMAIN OfAt(p, f, i), l \in DOMAIN OfAt(p, g, j) :
      /\ OfAt(p, f, i)[k] # Main
      /\ OfAt(p, f, i)[k] = OfAt(p, g, j)[l] => f = g /\ i = j /\ k = l

\* Each variable too, as a formal or by a declaration.
DeclaredOnce(p) ==
  \A f, g \in Fun :
    /\ f # g => p.formals[f] \cap p.formals[g] = {}
    /\ \A i \in Where(p, f, "var") :
         /\ OfAt(p, f, i) \notin p.formals[g]
         /\ \A j \in Where(p, g, "var") : OfAt(p, f, i) = OfAt(p, g, j) => f = g /\ i = j

\* Lets and loops end where they started.
Balanced(p) ==
  \A f \in Fun : /\ \A i \in 1..Len(p.body[f]) + 1 : Depth(p, f, i) >= 0
                 /\ Depth(p, f, Len(p.body[f]) + 1) = 0

\* Uses and calls are in the scope of what they name.
Lexical(p) ==
  \A f \in Fun :
    /\ \A i \in Where(p, f, "use") :
         \E h \in Fun : \E m \in Items(p, h) :
           Within(p, f, i, h, m) /\ SeesVar(p, OfAt(p, f, i), h, m)
    /\ \A i \in Where(p, f, "call") :
         \E h \in Fun : \E m \in Items(p, h) :
           Within(p, f, i, h, m) /\ SeesFun(p, OfAt(p, f, i), h, m)

\* The program is a tree that the binder has accepted (see BoundLexically and
\* ScopesBalanced of BinderProps), its primitives left out.
ASSUME ScopingAssumption ==
  \A p \in Programs : OnePlaceEach(p) /\ DeclaredOnce(p) /\ Balanced(p) /\ Lexical(p)

-----------------------------------------------------------------------------
VARIABLES
  program,
  phase,        \* the visitor at work, then "done", or "thrown" by map::at
  stack,        \* the calls of the visitor in progress, innermost first
  scope_,       \* EscapesVisitor: depth of functions, lets and loops
  vars_scope_,  \* and the depth each variable was declared at
  escape_,      \* the flag of the declarations, ast::Escapable::escaped_
  escaped_,     \* EscapesCollector: the variables each function is passed
  did_modify_,
  function_,    \* actual_func_ of the collector, current_function_ of the translator
  locals_       \* Translator: the variables each function has an address of

walk == <<program, phase, stack>>
depths == <<scope_, vars_scope_, escape_>>
sets == <<escaped_, did_modify_>>
vars == <<walk, depths, sets, function_, locals_>>

NoDepth == -1  \* not in vars_scope_

-----------------------------------------------------------------------------
\* The walk that the three visitors share.

\* A visit of a chunk of functions, and of one of them; what it will restore.
Chunk(functions) ==
  [is |-> "chunk", functions |-> functions, at |-> 1, saved |-> did_modify_]
Body(f) == [is |-> "function", function |-> f, at |-> 1, saved |-> function_]

Top == Head(stack)
Past(frame) == [frame EXCEPT !.at = @ + 1]

InFunction == stack # <<>> /\ Top.is = "function"
InChunk == stack # <<>> /\ Top.is = "chunk"
Code == program.body[Top.function]
Meets(op) == InFunction /\ Top.at <= Len(Code) /\ Code[Top.at].op = op
What == Code[Top.at].of
BodyVisited == InFunction /\ Top.at > Len(Code)
ChunkVisited == InChunk /\ Top.at > Len(Top.functions)

GoesOn == stack' = <<Past(Top)>> \o Tail(stack) /\ UNCHANGED <<program, phase>>
GoesInto(frame) ==
  stack' = <<frame, Past(Top)>> \o Tail(stack) /\ UNCHANGED <<program, phase>>
Returns == stack' = Tail(stack) /\ UNCHANGED <<program, phase>>

\* The visitors of a chunk and of its next function, and the end of a chunk.
EntersChunk == Meets("functions") /\ GoesInto(Chunk(What))
EntersFunction(f) ==
  InChunk /\ Top.at <= Len(Top.functions) /\ f = Top.functions[Top.at] /\ GoesInto(Body(f))
LeavesChunk == ChunkVisited /\ Returns

-----------------------------------------------------------------------------
\* EscapesVisitor.
Flagging == phase = "escapes" /\ UNCHANGED <<sets, function_, locals_>>

\* The variables are declared here, one after the other.
DeclareAt(vs, depth) ==
  /\ vars_scope_' = [v \in Var |-> IF v \in vs THEN depth ELSE vars_scope_[v]]
  /\ escape_' = [v \in Var |-> v \notin vs /\ escape_[v]]

FlagVarDec ==
  /\ Flagging /\ Meets("var") /\ GoesOn
  /\ DeclareAt({What}, scope_)
  /\ UNCHANGED scope_

FlagSimpleVar ==
  /\ Flagging /\ Meets("use") /\ GoesOn
  /\ escape_' = [escape_ EXCEPT ![What] =
                   @ \/ (vars_scope_[What] # NoDepth /\ vars_scope_[What] < scope_)]
  /\ UNCHANGED <<scope_, vars_scope_>>

\* A let or a for, and its end.
FlagLet ==
  Flagging /\ Meets("open") /\ GoesOn /\ scope_' = scope_ + 1 /\ UNCHANGED <<vars_scope_, escape_>>

FlagLetEnd ==
  Flagging /\ Meets("close") /\ GoesOn /\ scope_' = scope_ - 1 /\ UNCHANGED <<vars_scope_, escape_>>

\* Mutant: a function is as deep as what is around it.
FlagFunctionDecFlat ==
  \E f \in Fun :
    /\ Flagging /\ EntersFunction(f)
    /\ DeclareAt(program.formals[f], scope_)
    /\ UNCHANGED scope_

FlagFunctionDec ==
  \E f \in Fun :
    /\ Flagging /\ EntersFunction(f)
    /\ scope_' = scope_ + 1
    /\ DeclareAt(program.formals[f], scope_')

FlagFunctionDecEnd ==
  Flagging /\ BodyVisited /\ Returns /\ scope_' = scope_ - 1 /\ UNCHANGED <<vars_scope_, escape_>>

FlagWalk ==
  /\ Flagging
  /\ \/ Meets("call") /\ GoesOn
     \/ EntersChunk
     \/ LeavesChunk
  /\ UNCHANGED depths

-----------------------------------------------------------------------------
\* EscapesCollector.
Collecting == phase = "collect" /\ UNCHANGED <<depths, locals_>>

CollectChunk ==
  /\ Collecting /\ EntersChunk
  /\ did_modify_' = FALSE
  /\ UNCHANGED <<escaped_, function_>>

\* The loop of a chunk: once more, or the end of it.
CollectAgain ==
  /\ Collecting /\ ChunkVisited /\ did_modify_
  /\ did_modify_' = FALSE
  /\ stack' = <<[Top EXCEPT !.at = 1]>> \o Tail(stack)
  /\ UNCHANGED <<program, phase, escaped_, function_>>

CollectChunkEnd ==
  /\ Collecting /\ ~did_modify_ /\ LeavesChunk
  /\ did_modify_' = Top.saved
  /\ UNCHANGED <<escaped_, function_>>

CollectFunctionDec ==
  /\ Collecting
  /\ \E f \in Fun : EntersFunction(f) /\ function_' = f
  /\ UNCHANGED sets

\* Mutant: actual_func_ is not restored.
CollectFunctionDecStays ==
  Collecting /\ BodyVisited /\ Returns /\ UNCHANGED <<sets, function_>>

CollectFunctionDecEnd ==
  /\ Collecting /\ BodyVisited /\ Returns
  /\ function_' = Top.saved
  /\ UNCHANGED sets

\* Mutant: a call counts as a modification if the callee has variables at all.
CollectCallExpAlways ==
  /\ Collecting /\ Meets("call") /\ GoesOn
  /\ escaped_' = [escaped_ EXCEPT ![function_] = @ \cup escaped_[What]]
  /\ did_modify_' = (did_modify_ \/ escaped_[What] # {})
  /\ UNCHANGED function_

\* A callee not yet visited has no set, which is as an empty one.
CollectCallExp ==
  /\ Collecting /\ Meets("call") /\ GoesOn
  /\ escaped_' = [escaped_ EXCEPT ![function_] = @ \cup escaped_[What]]
  /\ did_modify_' = (did_modify_ \/ escaped_' # escaped_)
  /\ UNCHANGED function_

\* A new variable of a use does not count as a modification.
CollectSimpleVar ==
  /\ Collecting /\ Meets("use") /\ GoesOn
  /\ escaped_' = [escaped_ EXCEPT ![function_] = @ \cup {v \in {What} : escape_[v]}]
  /\ UNCHANGED <<did_modify_, function_>>

CollectWalk ==
  /\ Collecting
  /\ \E op \in {"var", "open", "close"} : Meets(op)
  /\ GoesOn
  /\ UNCHANGED <<sets, function_>>

-----------------------------------------------------------------------------
\* Translator.
Translating == phase = "translate" /\ UNCHANGED <<program, depths, sets>>

Known == locals_[function_]

\* The look-up in locals_ throws std::out_of_range, which nothing catches.
Throws == phase' = "thrown" /\ UNCHANGED stack

\* The headers of all functions of a chunk come first; they find the sets
\* complete and change none.
TranslateChunk == Translating /\ EntersChunk /\ UNCHANGED <<function_, locals_>>
TranslateChunkEnd == Translating /\ LeavesChunk /\ UNCHANGED <<function_, locals_>>

\* The arguments of the function are the addresses of the variables it is
\* passed; each formal is given a place of its own.
TranslateBody ==
  \E f \in Fun :
    /\ Translating /\ EntersFunction(f)
    /\ function_' = f
    /\ locals_' = [locals_ EXCEPT ![f] = @ \cup escaped_[f] \cup program.formals[f]]

TranslateBodyEnd ==
  Translating /\ BodyVisited /\ Returns /\ function_' = Top.saved /\ UNCHANGED locals_

TranslateVarDec ==
  /\ Translating /\ Meets("var") /\ GoesOn
  /\ locals_' = [locals_ EXCEPT ![function_] = @ \cup {What}]
  /\ UNCHANGED function_

access_var ==
  /\ Translating /\ Meets("use")
  /\ IF What \in Known THEN GoesOn ELSE Throws
  /\ UNCHANGED <<function_, locals_>>

TranslateCallExp ==
  /\ Translating /\ Meets("call")
  /\ IF escaped_[What] \subseteq Known THEN GoesOn ELSE Throws
  /\ UNCHANGED <<function_, locals_>>

TranslateWalk ==
  /\ Translating
  /\ \E op \in {"open", "close"} : Meets(op)
  /\ GoesOn
  /\ UNCHANGED <<function_, locals_>>

-----------------------------------------------------------------------------
\* The visitor at work has returned; the next one visits the program.
NextVisitor ==
  /\ stack = <<>>
  /\ \/ phase = "escapes" /\ phase' = "collect" /\ stack' = <<Chunk(<<Main>>)>>
     \/ phase = "collect" /\ phase' = "translate" /\ stack' = <<Chunk(<<Main>>)>>
     \/ phase = "translate" /\ phase' = "done" /\ UNCHANGED stack
  /\ UNCHANGED <<program, depths, sets, function_, locals_>>

Init ==
  /\ program \in Programs
  /\ phase = "escapes"
  /\ scope_ = 0
  /\ vars_scope_ = [v \in Var |-> NoDepth]
  /\ escape_ = [v \in Var |-> TRUE]
  /\ escaped_ = [f \in Fun |-> {}]
  /\ did_modify_ = FALSE
  /\ function_ = Main
  /\ locals_ = [f \in Fun |-> {}]
  /\ stack = <<Chunk(<<Main>>)>>

Escapes ==
  \/ FlagVarDec \/ FlagSimpleVar \/ FlagLet \/ FlagLetEnd
  \/ FlagFunctionDec \/ FlagFunctionDecEnd \/ FlagWalk

Collect ==
  \/ CollectChunk \/ CollectAgain \/ CollectChunkEnd
  \/ CollectFunctionDec \/ CollectFunctionDecEnd
  \/ CollectCallExp \/ CollectSimpleVar \/ CollectWalk

Translate ==
  \/ TranslateChunk \/ TranslateChunkEnd \/ TranslateBody \/ TranslateBodyEnd
  \/ TranslateVarDec \/ access_var \/ TranslateCallExp \/ TranslateWalk

Next == Escapes \/ Collect \/ Translate \/ NextVisitor

\* The compiler is one thread and keeps running.
Spec == Init /\ [][Next]_vars /\ WF_vars(Next)
=============================================================================
