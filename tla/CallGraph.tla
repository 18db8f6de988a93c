--------------------------------- MODULE CallGraph -----------------------------
(***************************************************************************)
(* The graphs of the functions of a program (src/src/callgraph): which one *)
(* is declared in which, and which ones there are.  Vertices are numbered  *)
(* from 0; a FunctionDec is its address, and 0 is a null pointer.          *)
(***************************************************************************)
EXTENDS Ast, TLC

\* hfundecs is a map: what is not in it becomes 0 when it is looked up.
NoFunctions == [label |-> <<>>, hfundecs |-> <<>>, edges |-> {}]

fundec_add(g, f) ==
  [g EXCEPT !.label = Append(@, f), !.hfundecs = (f :> Len(g.label)) @@ @]

Looked(h, f) == IF f \in DOMAIN h THEN h ELSE (f :> 0) @@ h
fundec_link(g, fu, fv) ==
  LET h == Looked(Looked(g.hfundecs, fu), fv)
  IN  [g EXCEPT !.hfundecs = h, !.edges = @ \cup {<<h[fu], h[fv]>>}]

adjacent_vertices(g, v) == {w \in {e[2] : e \in g.edges} : <<v, w>> \in g.edges}

\* searched, if it is start or a function around it, and otherwise a null pointer.
RECURSIVE hfundec_deep_get(_, _, _)
hfundec_deep_get(g, start, searched) ==
  LET parent == g.label[1 + CHOOSE v \in adjacent_vertices(g, g.hfundecs[start]) : TRUE]
  IN  IF start = searched THEN searched
      ELSE IF parent = start THEN 0
      ELSE hfundec_deep_get(g, parent, searched)

-----------------------------------------------------------------------------
(* What a visitor of functions meets: the functions of a chunk before they *)
(* are visited, and a function when it is entered and when it is left.     *)

Meets(what, of) == [what |-> what, of |-> of]
Ids(es) == [i \in DOMAIN es |-> es[i].id]

RECURSIVE Walk(_, _)
Walk(e, skipped) ==
  LET inside == Joined(Owned(e), LAMBDA c : Walk(c, skipped))
  IN  CASE e.k \in skipped         -> <<>>
        [] e.k = "FunctionChunk" -> <<Meets("chunk", Ids(e.ch))>> \o inside
        [] e.k = "FunctionDec"   -> <<Meets("enter", <<e.id>>)>> \o inside \o <<Meets("leave", <<e.id>>)>>
        [] OTHER                 -> inside

\* A visitor: its graph, the function it is in, and those it was in, innermost first.
GraphStart == [g |-> NoFunctions, in |-> 0, tmp |-> <<>>]

Entered(s, f) == [s EXCEPT !.in = f, !.tmp = <<s.in>> \o @]

\* Mutant: what follows a function is taken to be in it.
LeftIn(s) == [s EXCEPT !.tmp = Tail(@)]

Left(s) == [s EXCEPT !.in = Head(s.tmp), !.tmp = Tail(@)]

\* Each function is linked to the one around it, also if there is none.
ParentVisit(s, m) ==
  CASE m.what = "enter" -> Entered(s, m.of[1])
    [] m.what = "leave" -> Left(s)
    [] m.what = "chunk" ->
         [s EXCEPT !.g = FoldLeft(LAMBDA g, f : fundec_link(fundec_add(g, f), f, s.in), @, m.of)]

parentgraph_compute(tree) == FoldLeft(ParentVisit, GraphStart, Walk(tree, {})).g

\* Calls are not visited: nobody is linked, and the functions in their arguments
\* are not there.
CallVisit(s, m) ==
  CASE m.what = "enter" -> Entered(s, m.of[1])
    [] m.what = "leave" -> Left(s)
    [] m.what = "chunk" -> [s EXCEPT !.g = FoldLeft(fundec_add, @, m.of)]

callgraph_compute(tree) == FoldLeft(CallVisit, GraphStart, Walk(tree, {"CallExp"})).g
================================================================================
