--------------------------------- MODULE Renamer -------------------------------
(***************************************************************************)
(* bind::Renamer (src/src/bind/renamer.cc): every declaration is given a   *)
(* name of its own, and its uses with it.  n is the counter of             *)
(* misc::symbol::fresh, and names unique_names_, by the address of the     *)
(* declaration.                                                            *)
(***************************************************************************)
EXTENDS Ast, TLC

\* Mutant: the counter is left out of the symbol.
freshSame(name, n) == name \o "_"

fresh(name, n) == name \o "_" \o ToString(n)

\* Mutant: the calls of primitives are renamed.
RenamesPrimitives(e, dec) ==
  CASE e.k \in {"VarDec", "TypeDec"} -> e.id
    [] e.k = "FunctionDec" -> IF IsNull(body_get(e)) \/ e.name = "_main" THEN 0 ELSE e.id
    [] e.k \in {"CallExp", "SimpleVar", "NameTy"} -> e.def
    [] OTHER -> 0

\* The declaration whose name a node takes; 0 if it keeps its own.  dec is the
\* declaration at an address.
Renames(e, dec) ==
  CASE e.k \in {"VarDec", "TypeDec"} -> e.id
    [] e.k = "FunctionDec" -> IF IsNull(body_get(e)) \/ e.name = "_main" THEN 0 ELSE e.id
    [] e.k = "CallExp" -> IF e.def # 0 /\ ~IsNull(body_get(dec[e.def])) THEN e.def ELSE 0
    [] e.k \in {"SimpleVar", "NameTy"} -> e.def
    [] OTHER -> 0

\* The visit of one node: its declaration gets a fresh name if it has none yet.
RenamerVisit(e, r, dec) ==
  LET d == Renames(e, dec)
  IN  IF d = 0 \/ d \in DOMAIN r.names THEN r
      ELSE [names |-> (d :> fresh(dec[d].name, r.n)) @@ r.names, n |-> r.n + 1]

\* The nodes visited: of a primitive, not the formals.
RECURSIVE RenamerWalk(_)
RenamerWalk(e) ==
  IF e.k = "FunctionDec" /\ IsNull(body_get(e)) THEN <<e>>
  ELSE <<e>> \o Joined(Owned(e), LAMBDA c : RenamerWalk(c))

UniqueNames(program, n, dec) ==
  FoldLeft(LAMBDA r, e : RenamerVisit(e, r, dec), [names |-> <<>>, n |-> n],
           RenamerWalk(program))

RECURSIVE name_set(_, _, _)
name_set(e, names, dec) ==
  LET d == IF IsNull(e) THEN 0 ELSE Renames(e, dec)
      skip == e.k = "FunctionDec" /\ IsNull(body_get(e))
  IN  [e EXCEPT !.name = IF d \in DOMAIN names THEN names[d] ELSE @,
                !.ch = IF skip THEN @ ELSE Each(@, LAMBDA c : name_set(c, names, dec))]
================================================================================
