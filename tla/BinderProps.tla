----------------------------- MODULE BinderProps -----------------------------
(***************************************************************************)
(* What the binder promises, against the scoping rules of Tiger stated on  *)
(* the tree alone, without scoped maps, flags or stacks.                   *)
(***************************************************************************)
EXTENDS Binder

\* The variables have their types; a map always has a scope to put in.
TypeOK ==
  /\ \A i \in 1..Len(nodes) : nodes[i].in \in 0..(i - 1) /\ nodes[i].def \in 0..(i - 1)
  /\ \A i \in 1..Len(todo) : todo[i].at \in 0..(Len(nodes) + MaxBatch)
  /\ \A map \in {map_vardec_, map_fundec_, map_typedec_} :
       /\ Len(map) > 0
       /\ \A i \in 1..Len(map) : map[i] \in [DOMAIN map[i] -> 1..Len(nodes)]
  /\ in_loop_ \in BOOLEAN
  /\ loops_ \in Seq(1..Len(nodes))

Kind(i) == nodes[i].kind

\* The nodes above i, the root and i itself included; parents come earlier in
\* the tree, so the greatest of some ancestors is the innermost.
Ancestors[i \in 0..Len(nodes)] ==
  IF i = 0 THEN {0} ELSE {i} \cup Ancestors[nodes[i].in]

\* The node whose scope declaration d belongs to.
Owner(d) ==
  IF Kind(d) \in {"var", "formal"} THEN nodes[d].in ELSE nodes[nodes[d].in].in

\* The declarations of these kinds that i can see under its name: those that
\* stand before it, in its own scope or in one around it.
Visible(i, kinds) ==
  {d \in 1..(i - 1) : /\ Kind(d) \in kinds
                      /\ nodes[d].name = nodes[i].name
                      /\ Owner(d) \in Ancestors[i]}

Innermost(S) == IF S = {} THEN NoPointer ELSE Max(S)

Variables == {"var", "formal"}

\* Each use the visit has reached is bound to the innermost and latest
\* declaration of its name in its name space, and is diagnosed if and only if
\* there is none; a declaration sees itself, and the functions of a chunk see
\* each other.
BoundLexically ==
  \A i \in 1..Len(nodes) :
    /\ Kind(i) = "variable" => nodes[i].def = Innermost(Visible(i, Variables))
    /\ Kind(i) = "call" => nodes[i].def = Innermost(Visible(i, {"function"}))
    /\ Kind(i) = "type name" => nodes[i].def = Innermost(Visible(i, {"type"}))

Duplicated(kind) == IF kind = "type" THEN "duplicated type" ELSE "duplicated function"

\* Of two functions, or two types, of one name in a chunk the second is rejected;
\* and one is only ever rejected where another of its name is visible, so that a
\* program in which no declaration hides another has no duplicates, whatever scopes
\* were opened and closed before.
RejectsDuplicates ==
  /\ \A d, i \in 1..Len(nodes) :
       (/\ d < i /\ Kind(i) \in {"function", "type"} /\ Kind(d) = Kind(i)
        /\ nodes[d].in = nodes[i].in /\ nodes[d].name = nodes[i].name)
         => i = Len(nodes) /\ outcome = Duplicated(Kind(i))
  /\ \A kind \in {"function", "type"} :
       outcome = Duplicated(kind) =>
         /\ nodes # <<>> /\ Kind(Len(nodes)) = kind
         /\ Visible(Len(nodes), {kind}) # {}

Barrier == {"loop", "let", "function"}

\* A break belongs to the innermost loop around it, unless the body of a
\* function or a let comes in between, and is diagnosed when there is none.
BreakInnermost ==
  \A i \in 1..Len(nodes) : Kind(i) = "break" =>
    LET around == Innermost({a \in Ancestors[i] \ {0} : Kind(a) \in Barrier})
    IN nodes[i].def = IF around # NoPointer /\ Kind(around) = "loop"
                      THEN around ELSE NoPointer

\* Of the last n calls of s, those of these kinds.
Picks(s, kinds) ==
  LET picks[n \in 0..Len(s)] ==
        IF n = 0 THEN <<>>
        ELSE LET call == s[Len(s) + 1 - n]
             IN IF call.do \in kinds THEN <<call>> \o picks[n - 1] ELSE picks[n - 1]
  IN picks
Picked(s, kinds) == Picks(s, kinds)[Len(s)]

Pending(kinds) == Picked(todo, kinds)

\* The scopes open are those that a pending call will close, and the stack of
\* loops is that of the loops being visited: a program that binds leaves the
\* binder as it was at the start.  The types are checked along.
ScopesBalanced ==
  /\ TypeOK
  /\ outcome \in {"visiting", "bound"} =>
       LET open == 1 + Len(Pending({"leave exp", "leave for", "leave let",
                                    "leave function"}))
           inside == Pending({"leave for", "leave while"})
       IN /\ \A map \in {map_vardec_, map_fundec_, map_typedec_} : Len(map) = open
          /\ loops_ = Reverse([i \in 1..Len(inside) |-> inside[i].at])
          /\ outcome = "bound" => ~in_loop_

-----------------------------------------------------------------------------
(***************************************************************************)
(* The inductive invariant behind these four: what the calls that are      *)
(* pending, the scoped maps and the tree say of each other.                *)
(***************************************************************************)
ScopeEnds == {"leave exp", "leave for", "leave let", "leave function"}
LoopEnds == {"leave for", "leave while"}
BarrierEnds == {"leave for", "leave while", "leave let", "leave function"}
Declarations == {"var", "formal", "function", "type"}

DeclaredIn(kinds, o) == {d \in 1..Len(nodes) : Kind(d) \in kinds /\ Owner(d) = o}

\* Nodes come after their parents.  A declaration is in a scope that something
\* opens; only loops, lets and functions do.
Planting ==
  [kind : {"operands", "variable", "call", "type name", "break", "loop", "test", "let",
           "chunk"} \cup Declarations,
   in : Nat, name : Key \cup Builtin \cup {NoName}, def : Nat]

TreeInv ==
  /\ nodes \in Seq(Planting)
  /\ \A i \in 1..Len(nodes) :
       /\ nodes[i].in < i /\ nodes[i].def < i
       /\ Kind(i) \in Declarations => nodes[i].name \in Key
       /\ Kind(i) \in {"function", "type"} =>
            nodes[i].in > 0 /\ Kind(nodes[i].in) = "chunk"
       /\ Kind(i) \in Declarations =>
            Owner(i) = 0 \/ (Owner(i) \in 1..Len(nodes) /\ Kind(Owner(i)) \in Barrier)

\* The pending calls.  The declarations of the functions of a chunk are on the
\* top, and those of their bodies that have no node yet wait for one of them.
Calling ==
  [do : {"chunks", "exp", "type", "scoped exp", "index", "formal", "vardec", "typedec",
         "declare", "fundec", "leave while"} \cup ScopeEnds,
   at : Nat, copy : BOOLEAN]

Placed(j) ==
  LET do == todo[j].do
      at == todo[j].at
  IN /\ do # "fundec" => at <= Len(nodes)
     /\ do \in {"index", "formal", "typedec", "declare", "fundec"} \cup BarrierEnds => at > 0
     /\ do \in LoopEnds => Kind(at) = "loop"
     /\ do \in BarrierEnds \ LoopEnds => Kind(at) \in {"let", "function"}
     /\ do \in {"typedec", "declare"} => Kind(at) = "chunk"
     /\ do = "declare" =>
          j <= MaxBatch /\ \A i \in 1..j : todo[i].do = "declare" /\ todo[i].at = at
     /\ do = "fundec" /\ at <= Len(nodes) => Kind(at) = "function"
     /\ do = "fundec" /\ at > Len(nodes) =>
          at - Len(nodes) <= Len(todo) /\ todo[at - Len(nodes)].do = "declare"

TodoInv ==
  /\ todo \in Seq(Calling)
  /\ \A j \in 1..Len(todo) : Placed(j)

\* The node around what call j visits, and its loops, lets and functions.
Around(j) ==
  IF todo[j].do # "fundec" THEN todo[j].at
  ELSE IF todo[j].at <= Len(nodes) THEN nodes[todo[j].at].in
  ELSE todo[1].at
Barriers(i) == {a \in Ancestors[i] \ {0} : Kind(a) \in Barrier}

Enders(j) == {todo[k].at : k \in {m \in j..Len(todo) : todo[m].do \in BarrierEnds}}

\* What is around call j is what will be left after it, no more and no less.
Enclosed(j) == Barriers(Around(j)) = Enders(j)

\* Call k is the first of these ends after call j.
NextEnd(ends, j, k) ==
  /\ k \in (j + 1)..Len(todo) /\ todo[k].do \in ends
  /\ \A m \in (j + 1)..(k - 1) : todo[m].do \notin ends

\* The scope the declarations of call j belong to is the first to be left after it.
Holder(j) == IF todo[j].do \in {"typedec", "declare"} THEN nodes[todo[j].at].in ELSE todo[j].at
Houses(j, o) ==
  \/ o = 0 /\ \A m \in (j + 1)..Len(todo) : todo[m].do \notin ScopeEnds
  \/ \E k \in (j + 1)..Len(todo) :
       NextEnd(ScopeEnds, j, k) /\ todo[k].do # "leave exp" /\ todo[k].at = o
Housed(j) ==
  todo[j].do \in {"index", "formal", "vardec", "chunks", "typedec", "declare"} =>
    Houses(j, Holder(j))

\* A loop, a let or a function is visited once; a function that has yet to be,
\* and a while, hold no declaration.
Once(j) ==
  todo[j].do \in BarrierEnds \cup {"fundec"} =>
    \A k \in (j + 1)..Len(todo) :
      todo[k].do \in BarrierEnds \cup {"fundec"} => todo[k].at # todo[j].at
Empty(j) ==
  todo[j].do \in {"fundec", "leave while"} => DeclaredIn(Declarations, todo[j].at) = {}

\* Where call j is made breaks are allowed if and only if a loop is the first
\* barrier to be left after it.
Breakable(j) ==
  \E k \in (j + 1)..Len(todo) : NextEnd(BarrierEnds, j, k) /\ todo[k].do \in LoopEnds

Restores(j) == todo[j].do \in BarrierEnds => todo[j].copy = Breakable(j)

CallsInv ==
  /\ in_loop_ = Breakable(0)
  /\ \A j \in 1..Len(todo) :
       Enclosed(j) /\ Housed(j) /\ Once(j) /\ Empty(j) /\ Restores(j)

\* The node that opened the scope at a level of the maps.
Opener(level) ==
  LET ends == Pending(ScopeEnds)
      end == ends[Len(ends) + 2 - level]
  IN IF level = 1 THEN 0 ELSE IF end.do = "leave exp" THEN -1 ELSE end.at

\* A scoped map has a level for each scope to be left, which holds for each name
\* the latest declaration in that scope; what is deeper has been declared later.
MapInv(map, kinds) ==
  /\ Len(map) = 1 + Len(Pending(ScopeEnds))
  /\ \A l \in 1..Len(map) :
       /\ map[l] \in [DOMAIN map[l] -> DeclaredIn(kinds, Opener(l))]
       /\ \A name \in DOMAIN map[l] : nodes[map[l][name]].name = name
       /\ \A d \in DeclaredIn(kinds, Opener(l)) :
            nodes[d].name \in DOMAIN map[l] /\ d <= map[l][nodes[d].name]
       /\ \A m \in 1..(l - 1) : Opener(m) = -1 \/ Opener(m) # Opener(l)
       /\ \A m \in 1..(l - 1) :
            \A c \in DeclaredIn(kinds, Opener(m)), d \in DeclaredIn(kinds, Opener(l)) : c < d

\* What the code rejects is any declaration that another one of its name is
\* visible from; HidingIsLegal is about those it should not have rejected.
RejectsVisibleNames ==
  \A i \in 1..Len(nodes) : Kind(i) \in {"function", "type"} =>
    (Visible(i, {Kind(i)}) # {} <=>
       /\ i = Len(nodes)
       /\ outcome = (IF Kind(i) = "type" THEN "duplicated type" ELSE "duplicated function"))

MapsInv ==
  /\ \A map \in {map_vardec_, map_fundec_, map_typedec_} : map \in Seq(Range(map))
  /\ MapInv(map_vardec_, Variables)
  /\ MapInv(map_fundec_, {"function"})
  /\ MapInv(map_typedec_, {"type"})

LoopsInv ==
  LET inside == Pending(LoopEnds)
  IN loops_ = Reverse([i \in 1..Len(inside) |-> inside[i].at])

BinderInv ==
  /\ TypeOK
  /\ TreeInv
  /\ outcome \in {"visiting", "bound"} =>
       TodoInv /\ CallsInv /\ MapsInv /\ LoopsInv
  /\ outcome # "visiting" => todo = <<>>
  /\ BoundLexically
  /\ RejectsVisibleNames
  /\ BreakInnermost

-----------------------------------------------------------------------------
\* Every use of an accepted program is bound to a definition.
EveryUseBound ==
  outcome = "bound" =>
    \A i \in 1..Len(nodes) :
      Kind(i) \in {"variable", "call", "test"} => nodes[i].def # NoPointer

\* A declaration may hide one of the same name that is not in its own chunk.
HidingIsLegal ==
  outcome \in {"duplicated function", "duplicated type"} =>
    LET last == Len(nodes)
    IN \E d \in 1..(last - 1) : /\ Kind(d) = Kind(last)
                                /\ nodes[d].name = nodes[last].name
                                /\ nodes[d].in = nodes[last].in
=============================================================================
