--------------------------------- MODULE Tweasts -------------------------------
(***************************************************************************)
(* parse::Tweast (src/src/parse): source text with trees in it.  A tree is *)
(* put in the text as a metavariable, a token for its sort and a number,   *)
(* which the parser takes the tree for.                                    *)
(***************************************************************************)
EXTENDS Parser, TLC

\* MetavarMap::show; sort is "_exp", "_lvalue", "_namety", "_chunks" or "_tweast".
show(sort, key) == <<T(sort), T("("), Num(key), T(")")>>

NewTweast == [input |-> <<>>, map |-> <<>>]

\* Tokens appended to the text, and a tree or a Tweast under the number count.
Appended(tw, tokens) == [tw EXCEPT !.input = @ \o tokens]
append_(tw, sort, data, count) ==
  [input |-> tw.input \o show(sort, count), map |-> (count :> <<sort, data>>) @@ tw.map]

\* What pieces say, numbered from count on: tokens or <<sort, data>> in order.
Text_(tokens) == <<"text", tokens>>
Tweast(pieces, count) ==
  FoldLeft(LAMBDA r, p : IF p[1] = "text" THEN [r EXCEPT !.tw = Appended(@, p[2])]
                         ELSE [tw |-> append_(r.tw, p[1], p[2], r.n), n |-> r.n + 1],
           [tw |-> NewTweast, n |-> count], pieces).tw

\* The first occurrence of old in a text replaced by new.
replace_first(input, old, new) ==
  LET at == {i \in 1 .. Len(input) - Len(old) + 1 : SubSeq(input, i, i + Len(old) - 1) = old}
      i  == CHOOSE i \in at : \A j \in at : i <= j
  IN  IF at = {} THEN input
      ELSE SubSeq(input, 1, i - 1) \o new \o SubSeq(input, i + Len(old), Len(input))

KeysOf(tw, sort) == SetToSortSeq({k \in DOMAIN tw.map : tw.map[k][1] = sort}, <)

\* The metavariables of one sort of inner join those of r.tw under new numbers,
\* in its map and in the text r.input that will stand for inner.
move_metavars_(r, inner, sort) ==
  FoldLeft(LAMBDA q, k :
             [tw    |-> [q.tw EXCEPT !.map = (q.n :> inner.map[k]) @@ @],
              input |-> replace_first(q.input, show(sort, k), show(sort, q.n)),
              n     |-> q.n + 1],
           r, KeysOf(inner, sort))

\* A Tweast whose metavariables are all trees; n is the next number.
RECURSIVE flatten(_, _)
flatten(tw, n) ==
  LET inner(r, k) ==
        LET flat == flatten(tw.map[k][2], r.n)
        IN  [r EXCEPT !.flat = (k :> flat.tw) @@ @, !.n = flat.n]
      flats == FoldLeft(inner, [flat |-> <<>>, n |-> n], KeysOf(tw, "_tweast"))
      merge(r, k) ==
        LET moved == FoldLeft(LAMBDA q, sort : move_metavars_(q, flats.flat[k], sort),
                              [tw |-> r.tw, input |-> flats.flat[k].input, n |-> r.n],
                              <<"_exp", "_lvalue", "_namety", "_chunks">>)
        IN  [tw |-> [moved.tw EXCEPT !.input = replace_first(@, show("_tweast", k), moved.input),
                                     !.map = [j \in DOMAIN @ \ {k} |-> @[j]]],
             n |-> moved.n]
  IN  FoldLeft(merge, [tw |-> tw, n |-> flats.n], KeysOf(tw, "_tweast"))

\* The metavariables a text takes, as often as it takes them.
TakenIn(ts) ==
  LET at == {i \in DOMAIN ts : ts[i][1] \in {"_exp", "_lvalue", "_namety", "_chunks"}}
  IN  [k \in {ts[i + 2][3] : i \in at} |-> Cardinality({i \in at : ts[i + 2][3] = k})]

\* The tree a Tweast is parsed into.  Taking a metavariable takes it out of the
\* map: a second time is an internal error, and so is one that is never taken.
EachOnce(map, taken, r) ==
  IF r.i # 0 /\ DOMAIN taken = DOMAIN map /\ \A k \in DOMAIN taken : taken[k] = 1 THEN r ELSE Fail

ParsedFlat(flat) ==
  EachOnce(flat.map, TakenIn(flat.input),
           program(flat.input, [meta |-> [k \in DOMAIN flat.map |-> flat.map[k][2]], import |-> <<>>]))

ParsedTweast(tw) == ParsedFlat(flatten(tw, 1000).tw)

\* The program of an expression: the chunks of the prelude, if there is one, and a
\* _main whose body is the expression.
WithMain(prelude_chunks, exp) ==
  ParsedTweast(Tweast(
    (IF IsNull(prelude_chunks) THEN <<>> ELSE <<<<"_chunks", prelude_chunks>>>>) \o
    <<Text_(<<T("function"), Id("_main"), T("("), T(")"), T("="), T("(")>>), <<"_exp", exp>>,
      Text_(<<T(";"), T("("), T(")"), T(")")>>)>>, 0)).ns[1]
================================================================================
