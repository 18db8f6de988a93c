---------------------------- MODULE LiftingProps ----------------------------
(***************************************************************************)
(* What escape analysis and lambda lifting promise, against the text of    *)
(* the program alone: who uses, calls and declares what, and where.        *)
(***************************************************************************)
EXTENDS LambdaLifting

\* The variables have their types; a visitor that has returned left nothing
\* open behind it.
TypeOK ==
  /\ scope_ \in Nat /\ vars_scope_ \in [Var -> Nat \cup {NoDepth}]
  /\ escape_ \in [Var -> BOOLEAN]
  /\ escaped_ \in [Fun -> SUBSET Var] /\ locals_ \in [Fun -> SUBSET Var]
  /\ did_modify_ \in BOOLEAN /\ function_ \in Fun
  /\ stack = <<>> => scope_ = 0 /\ function_ = Main

-----------------------------------------------------------------------------
\* The text of the program, from _main on.
Uses(f) == {OfAt(program, f, i) : i \in Where(program, f, "use")}
Calls(f) == {OfAt(program, f, i) : i \in Where(program, f, "call")}
DeclaredIn(p, f) == p.formals[f] \cup {OfAt(p, f, i) : i \in Where(p, f, "var")}
Declares(f) == DeclaredIn(program, f)

Present == Inside(program, Main)
Chunks == {<<Main>>} \cup UNION {{OfAt(program, f, i) : i \in Where(program, f, "functions")} : f \in Fun}

\* v is used in a let or a loop inside the one that declares it.
UsedDeeper(v) ==
  \E f \in Present : \E i \in Where(program, f, "use") :
    /\ OfAt(program, f, i) = v
    /\ \/ v \in program.formals[f] /\ Depth(program, f, i) > 0
       \/ \E j \in Where(program, f, "var") :
            OfAt(program, f, j) = v /\ Depth(program, f, j) < Depth(program, f, i)

\* "be accessed by an inner function" (escapes-visitor.hh).
UsedByInner(v) == \E f \in Present : v \in Uses(f) /\ v \notin Declares(f)

\* The sets are what the collector should make of the flags: all a function
\* uses, and all its callees do.
Escaping(f) == {v \in Uses(f) : escape_[v]}
Called(f) == Closure(f, Calls)
Needed(f) == UNION {Escaping(g) : g \in Called(f)}

\* Each function finds the sets of its callees complete: nobody in the first
\* functions of a chunk, nor inside them, calls a later one or itself.
CalleesFirst ==
  \A chunk \in Chunks : \A k, l \in DOMAIN chunk :
    k <= l => \A f \in Inside(program, chunk[k]) : chunk[l] \notin Calls(f)

Closed == \A f \in Present : \A g \in Calls(f) : escaped_[g] \subseteq escaped_[f]

-----------------------------------------------------------------------------
\* When EscapesVisitor has returned, each variable that an inner function accesses
\* is flagged, however lets, loops and functions are nested around its declaration
\* and its uses; and no visitor that has returned leaves a scope or a function open.
InnerUsesFlagged ==
  /\ TypeOK
  /\ phase = "escapes" /\ stack = <<>> =>
       \A f \in Present : \A v \in Declares(f) : UsedByInner(v) => escape_[v]

\* The collector passes no function a variable that neither it nor anybody it
\* may come to call uses.
OnlyNeeded == phase = "collect" => \A f \in Present : escaped_[f] \subseteq Needed(f)

\* Where callees stand before their callers, one pass of the collector's loop
\* is enough: each function is passed all it needs.
ExactWhenCalleesFirst ==
  phase = "collect" /\ stack = <<>> /\ CalleesFirst =>
    \A f \in Present : escaped_[f] = Needed(f)

\* Wherever the collector did reach a fixpoint the translator has an address
\* for each variable it looks up, be it a use or an argument of a call; a
\* variable without flag is only used where its place is.
ClosedSuffices == phase = "thrown" => ~Closed

\* The loops of the collector end, and the three visitors return.
Terminates == <>(phase \in {"done", "thrown"})

-----------------------------------------------------------------------------
\* The loop iterates "in order to iteratively collect all the callee functions'
\* escaped variables" (escapes-collector.cc): callers have all their callees'.
CollectsCallees == phase = "collect" /\ stack = <<>> => Closed

-----------------------------------------------------------------------------
(* What the walk keeps, level by level of the stack from the bottom.       *)

ChunkFrame == [is : {"chunk"}, functions : Seq(Fun), at : Nat \ {0}, saved : BOOLEAN]
FunctionFrame == [is : {"function"}, function : Fun, at : Nat \ {0}, saved : Fun]
Frame == ChunkFrame \cup FunctionFrame

Level(s, d) == s[Len(s) + 1 - d]
Bodies(s) == {d \in 1..Len(s) : Level(s, d).is = "function"}
OnStack(s) == {Level(s, d).function : d \in Bodies(s)}

\* upper is the visit of what lower has just moved past: of the next function
\* of a chunk, or of a chunk in a body.
InVisit(p, lower, upper) ==
  \/ /\ lower.is = "chunk" /\ upper.is = "function"
     /\ lower.at - 1 \in DOMAIN lower.functions
     /\ upper.function = lower.functions[lower.at - 1]
  \/ /\ lower.is = "function" /\ upper.is = "chunk"
     /\ lower.at - 1 \in Where(p, lower.function, "functions")
     /\ upper.functions = OfAt(p, lower.function, lower.at - 1)

\* The stack is a path down the program from _main, which meets no function twice.
Path(p, s) ==
  /\ s # <<>> => Level(s, 1).is = "chunk" /\ Level(s, 1).functions = <<Main>>
  /\ \A d \in 1..Len(s) - 1 : InVisit(p, Level(s, d), Level(s, d + 1))
  /\ \A d \in Bodies(s) :
       /\ Level(s, d).function \in Inside(p, Main)
       /\ Level(s, d).at <= Len(p.body[Level(s, d).function]) + 1
       /\ \A e \in Bodies(s) : Level(s, d).function = Level(s, e).function => d = e

\* The function being visited is fun, and it is the one to come back to.
Charged(s, fun) ==
  /\ Len(s) <= 1 => fun = Main
  /\ \A d \in Bodies(s) :
       /\ Level(s, d).saved = IF d = 2 THEN Main ELSE Level(s, d - 2).function
       /\ d >= Len(s) - 1 => fun = Level(s, d).function

\* Functions whose visit is over: inside of what a frame has passed.
Passed(p, frame, to) ==
  IF frame.is = "chunk"
  THEN {frame.functions[k] : k \in {k \in DOMAIN frame.functions : k < to}}
  ELSE UNION {Elements(OfAt(p, frame.function, i)) :
                i \in {i \in Where(p, frame.function, "functions") : i < to}}
Reached(s, d) == IF d = Len(s) THEN Level(s, d).at ELSE Level(s, d).at - 1
Over(p, s, d) == UNION {Inside(p, g) : g \in Passed(p, Level(s, d), Reached(s, d))}
Visited(p, s) ==
  IF s = <<>> THEN Inside(p, Main) ELSE UNION {Over(p, s, d) : d \in 1..Len(s)}

WalkInv ==
  /\ program \in Programs
  /\ stack \in Seq(Frame)
  /\ phase \in {"escapes", "collect", "translate", "done", "thrown"}
  /\ function_ \in Fun /\ did_modify_ \in BOOLEAN
  /\ Path(program, stack)
  /\ phase = "escapes" => function_ = Main
  /\ phase \in {"collect", "translate"} => Charged(stack, function_)
  /\ phase = "done" => stack = <<>> /\ function_ = Main
  /\ phase = "thrown" => stack # <<>>
-----------------------------------------------------------------------------
(* EscapesVisitor.                                                         *)

\* The ith item of f, a use, is deeper than the declaration of its variable.
DeepUse(p, f, i) ==
  LET v == OfAt(p, f, i)
  IN  \/ v \notin DeclaredIn(p, f)
      \/ v \in p.formals[f] /\ Depth(p, f, i) > 0
      \/ \E j \in Where(p, f, "var") : OfAt(p, f, j) = v /\ Depth(p, f, j) < Depth(p, f, i)

Declared(depth, v) == depth[v] # NoDepth

\* f is visited up to an item: its uses have set their flags for good.
FlaggedUpTo(p, depth, flags, f, to) ==
  /\ \A v \in p.formals[f] : Declared(depth, v)
  /\ \A i \in Where(p, f, "var") : i < to => Declared(depth, OfAt(p, f, i))
  /\ \A i \in Where(p, f, "use") :
       i < to => /\ Declared(depth, OfAt(p, f, i))
                 /\ DeepUse(p, f, i) => flags[OfAt(p, f, i)]

\* The scopes a frame has open in front of an item, and the depth each frame
\* of a stack starts at.
Opened(p, frame, to) == IF frame.is = "chunk" THEN 0 ELSE 1 + Depth(p, frame.function, to)
Nesting(p, s, start, scope) ==
  /\ s = <<>> => scope = 0
  /\ s # <<>> => /\ start[1] = 0
                 /\ scope = start[Len(s)] + Opened(p, Level(s, Len(s)), Level(s, Len(s)).at)
  /\ \A d \in 1..Len(s) - 1 :
       /\ start[d + 1] = start[d] + Opened(p, Level(s, d), Level(s, d).at - 1)
       /\ \A e \in d + 1..Len(s) : start[d + 1] <= start[e]

\* The variables of the functions on the stack are at the depths of their places.
PlacedUpTo(p, depth, from, f, to) ==
  /\ \A v \in p.formals[f] : depth[v] = from + 1
  /\ \A i \in Where(p, f, "var") : i < to => depth[OfAt(p, f, i)] = from + 1 + Depth(p, f, i)
Placed(p, s, start, depth) ==
  \A d \in Bodies(s) : PlacedUpTo(p, depth, start[d], Level(s, d).function, Level(s, d).at)

\* Nothing of what is ahead is declared yet.
NotYet(p, s, depth) ==
  /\ \A d \in Bodies(s) : \A i \in Where(p, Level(s, d).function, "var") :
       i >= Level(s, d).at => ~Declared(depth, OfAt(p, Level(s, d).function, i))
  /\ \A f \in Inside(p, Main) \ (Visited(p, s) \cup OnStack(s)) :
       \A v \in DeclaredIn(p, f) : ~Declared(depth, v)

FlagTypes ==
  /\ scope_ \in Nat /\ vars_scope_ \in [Var -> Nat \cup {NoDepth}]
  /\ escape_ \in [Var -> BOOLEAN]

\* The flags there are in the end: a let or a loop counts as a function does, so that
\* more is flagged than what an inner function accesses.
FlagsRight ==
  \A f \in Present : \A v \in Declares(f) : escape_[v] <=> UsedByInner(v) \/ UsedDeeper(v)

FlagInv ==
  /\ FlagTypes
  /\ phase = "escapes" =>
       /\ \E start \in [1..Len(stack) -> Nat] :
            Nesting(program, stack, start, scope_) /\ Placed(program, stack, start, vars_scope_)
       /\ \A f \in Visited(program, stack) :
            FlaggedUpTo(program, vars_scope_, escape_, f, Len(program.body[f]) + 1)
       /\ \A d \in Bodies(stack) :
            FlaggedUpTo(program, vars_scope_, escape_, Level(stack, d).function, Level(stack, d).at)
       /\ NotYet(program, stack, vars_scope_)
       /\ \A v \in Var :
            Declared(vars_scope_, v) /\ escape_[v] => UsedByInner(v) \/ UsedDeeper(v)
  /\ phase # "escapes" => scope_ = 0 /\ FlagsRight

-----------------------------------------------------------------------------
(* EscapesCollector and Translator.                                        *)

\* f is visited up to an item: it is passed its own variables, and those
\* of its callees.
OwnUpTo(passed, f, to) ==
  \A i \in Where(program, f, "use") :
    i < to /\ escape_[OfAt(program, f, i)] => OfAt(program, f, i) \in passed[f]
CalleesUpTo(passed, f, to) ==
  \A i \in Where(program, f, "call") : i < to => Needed(OfAt(program, f, i)) \subseteq passed[f]

CollectInv ==
  /\ escaped_ \in [Fun -> SUBSET Var]
  /\ phase = "escapes" => \A f \in Fun : escaped_[f] = {}
  /\ phase = "collect" =>
       /\ \A f \in Fun : escaped_[f] \subseteq Needed(f)
       /\ \A f \in Visited(program, stack) : OwnUpTo(escaped_, f, Len(program.body[f]) + 1)
       /\ \A d \in Bodies(stack) : OwnUpTo(escaped_, Level(stack, d).function, Level(stack, d).at)
       /\ CalleesFirst =>
            /\ \A f \in Visited(program, stack) : escaped_[f] = Needed(f)
            /\ \A d \in Bodies(stack) : CalleesUpTo(escaped_, Level(stack, d).function, Level(stack, d).at)
  /\ phase \notin {"escapes", "collect"} =>
       \A f \in Present : OwnUpTo(escaped_, f, Len(program.body[f]) + 1)

\* The function has an address of its formals, of what it is passed, and of what it
\* has declared so far.
KnownUpTo(p, passed, known, f, to) ==
  p.formals[f] \cup passed[f]
    \cup {OfAt(p, f, i) : i \in {i \in Where(p, f, "var") : i < to}} \subseteq known[f]

TranslateInv ==
  /\ locals_ \in [Fun -> SUBSET Var]
  /\ phase = "translate" =>
       \A d \in Bodies(stack) :
         KnownUpTo(program, escaped_, locals_, Level(stack, d).function, Level(stack, d).at)
  /\ phase = "thrown" => ~Closed
=============================================================================
