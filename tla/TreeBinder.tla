------------------------------- MODULE TreeBinder ------------------------------
(***************************************************************************)
(* bind::Binder (src/src/bind/binder.cc) on a whole tree, for the modules  *)
(* that run one pass after the other; Binder models its steps.  The state  *)
(* of a visit is                                                           *)
(*   v, f, t  the maps of variables, functions and types                   *)
(*   loop     in_loop_                                                     *)
(*   loops    loops_, the innermost loop last                              *)
(*   def      what def_set was given, by the address of the node           *)
(*   out      "" or the error the program exits with                       *)
(***************************************************************************)
EXTENDS Ast, TLC

LOCAL Map == INSTANCE ScopedMap WITH Key <- {}, NoPointer <- 0

BinderStart ==
  [v |-> Map!NewMap, f |-> Map!NewMap, t |-> Map!NewMap,
   loop |-> FALSE, loops |-> <<>>, def |-> <<>>, out |-> ""]

scope_begin(s) ==
  [s EXCEPT !.v = Map!scope_begin(@), !.f = Map!scope_begin(@), !.t = Map!scope_begin(@)]
scope_end(s) ==
  [s EXCEPT !.v = Map!scope_end(@), !.f = Map!scope_end(@), !.t = Map!scope_end(@)]

BindError(s, what) == [s EXCEPT !.out = what]
Refers(s, e, def)  == [s EXCEPT !.def = (e.id :> def) @@ @]

RECURSIVE Bind(_, _)
BindAll(es, s) == FoldLeft(LAMBDA r, e : Bind(e, r), s, es)

\* A variable is in scope in its own initial value.
BindVarDec(e, s) == BindAll(e.ch, [s EXCEPT !.v = Map!put(@, e.name, e.id)])

BindVarChunk(e, s) ==
  IF \E i, j \in DOMAIN e.ch : i # j /\ e.ch[i].name = e.ch[j].name
  THEN BindError(s, "duplicated parameter") ELSE BindAll(e.ch, s)

\* What is declared is not visited: the types in it stay unbound.
BindTypeDec(e, s) ==
  IF Map!contains(s.t, e.name) THEN BindError(s, "duplicated type")
  ELSE [s EXCEPT !.t = Map!put(@, e.name, e.id)]
BindTypeChunk(e, s) ==
  FoldLeft(LAMBDA r, d : IF r.out = "" THEN BindTypeDec(d, r) ELSE r, s, e.ch)

DeclareFunction(e, s) ==
  IF s.out # "" THEN s
  ELSE IF Map!contains(s.f, e.name) THEN BindError(s, "duplicated function")
  ELSE [s EXCEPT !.f = Map!put(@, e.name, e.id)]
BindFunctionChunk(e, s) ==
  BindAll(e.ch, FoldLeft(LAMBDA r, d : DeclareFunction(d, r), s, e.ch))

\* The type of the result is not visited.
BindFunctionDec(e, s) ==
  LET inner == scope_begin([s EXCEPT !.loop = FALSE])
      left  == Bind(body_get(e), BindAll(formals_get(e).ch, inner))
  IN  [scope_end(left) EXCEPT !.loop = s.loop]

BindForExp(e, s) ==
  LET inner == scope_begin([s EXCEPT !.loop = TRUE, !.loops = Append(@, e.id)])
  IN  [scope_end(BindAll(e.ch, inner)) EXCEPT !.loop = s.loop, !.loops = s.loops]

\* Mutant: only for loops can be left with a break.
BindWhileNoLoop(e, s) ==
  LET inner == [s EXCEPT !.loops = Append(@, e.id)]
  IN  [Bind(while_body_get(e), inner) EXCEPT !.loop = s.loop, !.loops = s.loops]

\* The test is not visited.
BindWhileExp(e, s) ==
  LET inner == [s EXCEPT !.loop = TRUE, !.loops = Append(@, e.id)]
  IN  [Bind(while_body_get(e), inner) EXCEPT !.loop = s.loop, !.loops = s.loops]

BindSimpleVar(e, s) ==
  LET def == Map!get(s.v, e.name)
  IN  IF def = 0 THEN BindError(s, "undeclared variable") ELSE Refers(s, e, def)

BindCallExp(e, s) ==
  LET def == Map!get(s.f, e.name)
  IN  IF def = 0 THEN BindError(s, "undeclared function") ELSE BindAll(e.ch, Refers(s, e, def))

BindBreakExp(e, s) ==
  IF s.loop /\ s.loops # <<>> THEN Refers(s, e, Last(s.loops)) ELSE BindError(s, "invalid break")

BindNameTy(e, s) ==
  LET def == Map!get(s.t, e.name)
  IN  IF def = 0 /\ e.name \notin {"int", "string"} THEN BindError(s, "undeclared type")
      ELSE Refers(s, e, def)

BindSeqExp(e, s) ==
  FoldLeft(LAMBDA r, x : IF r.out = "" THEN scope_end(Bind(x, scope_begin(r))) ELSE r, s, e.ch)

\* No loop goes through a let: a break in its body is invalid.
BindLetExp(e, s) ==
  [scope_end(BindAll(e.ch, scope_begin([s EXCEPT !.loop = FALSE]))) EXCEPT !.loop = s.loop]

Bind(e, s) ==
  IF s.out # "" \/ IsNull(e) THEN s
  ELSE CASE e.k = "VarDec"        -> BindVarDec(e, s)
         [] e.k = "VarChunk"      -> BindVarChunk(e, s)
         [] e.k = "TypeChunk"     -> BindTypeChunk(e, s)
         [] e.k = "FunctionChunk" -> BindFunctionChunk(e, s)
         [] e.k = "FunctionDec"   -> BindFunctionDec(e, s)
         [] e.k = "ForExp"        -> BindForExp(e, s)
         [] e.k = "WhileExp"      -> BindWhileExp(e, s)
         [] e.k = "SimpleVar"     -> BindSimpleVar(e, s)
         [] e.k = "CallExp"       -> BindCallExp(e, s)
         [] e.k = "BreakExp"      -> BindBreakExp(e, s)
         [] e.k = "NameTy"        -> BindNameTy(e, s)
         [] e.k = "SeqExp"        -> BindSeqExp(e, s)
         [] e.k = "LetExp"        -> BindLetExp(e, s)
         [] OTHER                 -> BindAll(e.ch, s)

\* The tree with its definition sites set; a node the binder does not visit keeps
\* the one it has.
RECURSIVE def_set(_, _)
def_set(e, def) ==
  [e EXCEPT !.def = IF e.id \in DOMAIN def THEN def[e.id] ELSE @,
            !.ch = Each(@, LAMBDA c : def_set(c, def))]
================================================================================
