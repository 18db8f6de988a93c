------------------------------- MODULE FrontEndProps ---------------------------
(***************************************************************************)
(* What the passes of the front end promise of the tree they hand on.      *)
(***************************************************************************)
EXTENDS FrontEnd

\* A copy of the tree that no later pass binds leaves the next passes with null
\* pointers: TaskProps says of which orders that is true, and the properties
\* below are about the others.
InOrder == {"clone", "raw-desugar"} \cap done = {}
Bound   == InOrder /\ "bindings-compute" \in done /\ status = "running"

-----------------------------------------------------------------------------
(* What is printed is read again. *)

\* What the text of a tree leaves open: parentheses around one expression, where a
\* chunk ends and the next one starts, and, backwards, the order of functions.
RECURSIVE Shape(_, _)
Shape(e, back) ==
  LET shapes(es) == Each(es, LAMBDA c : Shape(c, back))
      join(r, c) == IF r # <<>> /\ Last(r).k = c.k
                    THEN [r EXCEPT ![Len(r)].ch = IF back /\ c.k = "FunctionChunk"
                                                  THEN c.ch \o @ ELSE @ \o c.ch]
                    ELSE Append(r, c)
  IN  CASE e.k = "SeqExp" /\ Len(e.ch) = 1 -> Shape(e.ch[1], back)
        [] e.k = "ChunkList" -> Node(e.k, "", 0, FoldLeft(join, <<>>, shapes(e.ch)))
        [] e.k = "FunctionChunk" /\ back -> Node(e.k, "", 0, Reverse(shapes(e.ch)))
        [] OTHER -> Node(e.k, e.name, e.val, shapes(e.ch))

\* What is not printed as it was read: the field of a record, a string with special
\* characters, an operation under one that binds tighter (a minus sign) and a
\* conditional without an else clause before an else.
Ambiguous(e) ==
  \/ e.k = "FieldVar" \/ (e.k = "StringExp" /\ e.name \in Special)
  \/ e.k = "OpExp" /\ \E i \in {1, 2} : e.ch[i].k \in {"OpExp", "IfExp", "ForExp", "WhileExp", "AssignExp"}
                                       /\ (e.ch[i].k = "OpExp" => Level(e.ch[i].name) < Level(e.name) + i - 1)
  \/ e.k = "IfExp" /\ elseclause_get(e) # SeqExp(<<>>)
     /\ thenclause_get(e).k \in {"IfExp", "ForExp", "WhileExp"}

\* Reading what ast-display prints of a program gives the program back, but for the
\* cases above.  The printer has no parentheses of its own and relies on what the
\* tree kept, after a desugaring too.
PrintedReadsBack ==
  (~IsNull(tree) /\ \A e \in NodesOf(tree) : ~Ambiguous(e)) =>
    LET r == program(Text(tree), NoMeta)
    IN  r.i # 0 /\ Shape(r.ns[1], TRUE) = Shape(tree, FALSE)

\* What ast-dump draws of a tree is the tree: each node once, an edge from each
\* node to each of its children that leaves it at a port no other edge leaves and
\* that it shows, and from each use to its declaration.  The edges of a record type
\* leave ports it does not show.
DrawnIsTheTree ==
  (~IsNull(tree) /\ status = "running") =>
    LET d == dump_dot(tree, DOMAIN types.ty)
        all   == Visited(tree)
        drawn == SelectSeq(d, LAMBDA x : x.is = "node")
        links == SelectSeq(d, LAMBDA x : x.is = "link")
        node(id) == id - tree.id + 1
        shows(x) == \E i \in DOMAIN drawn[node(x.from)].ports : drawn[node(x.from)].ports[i] = x.port
    IN  /\ Len(drawn) = Len(all) /\ Len(links) = Len(all) - 1
        /\ \A i \in DOMAIN all : drawn[i].id = all[i].id
        /\ \A i \in DOMAIN links : \E c \in ToSet(all[node(links[i].from)].ch) : c.id = links[i].to
        /\ Cardinality({<<x.from, x.port>> : x \in ToSet(links)}) = Len(links)
        /\ \A i \in DOMAIN links : shows(links[i]) \/ all[node(links[i].from)].k = "RecordTy"
        /\ \A i \in DOMAIN d : d[i].is = "def" => node(d[i].to) \in DOMAIN all /\ shows(d[i])

\* Asked for a function, the graph of parents finds it from that function and from
\* those declared in it, and from no other.  Nothing is said of the first function of
\* the program: it is found from each of them, for those that are in no function are
\* linked to a null pointer, which is looked up as vertex 0, against "searched is
\* start or one of its parent" (fundec-graph.hh:33).  The graph of calls has the same
\* functions; nothing is said of those in the arguments of a call, which its visitor
\* does not visit.
ParentsEnclose ==
  ~IsNull(tree) =>
    LET g  == parentgraph_compute(tree)
        fs == SelectSeq(Visited(tree), LAMBDA e : e.k = "FunctionDec")
        size  == Each(fs, LAMBDA f : Len(Visited(f)))
        around(j, i) == fs[j].id <= fs[i].id /\ fs[i].id < fs[j].id + size[j]
        calls == SelectSeq(Visited(tree), LAMBDA e : e.k = "CallExp")
        apart(f) == \A i \in DOMAIN calls : ~(calls[i].id < f /\ f < calls[i].id + Len(Visited(calls[i])))
    IN  /\ \A i, j \in DOMAIN fs :
             LET found == hfundec_deep_get(g, fs[i].id, fs[j].id)
             IN  IF around(j, i) THEN found = fs[j].id
                 ELSE fs[j].id # g.label[1] => found = 0
        /\ SelectSeq(callgraph_compute(tree).label, apart) = SelectSeq(g.label, apart)

-----------------------------------------------------------------------------
(* Names and definitions. *)

\* Binding the tree once more changes nothing: every definition site is a live node
\* of this tree, and the one that the names say, after a renaming and after a pass
\* that built another tree as well.
UsesFindDeclarations ==
  Bound => LET s == Bind(tree, BinderStart) IN s.out = "" /\ def_set(tree, s.def) = tree

\* After a renaming no two declarations have the same name, but for those of the
\* primitives and what the desugaring declares.
RenamedApart ==
  (Bound /\ "rename" \in done /\ "desugar" \notin done) =>
    LET ds == SelectSeq(RenamerWalk(tree), LAMBDA e :
                          e.k \in Decs /\ (e.k = "FunctionDec" => ~IsNull(body_get(e))))
    IN  \A i, j \in DOMAIN ds : i < j => ds[i].name # ds[j].name

-----------------------------------------------------------------------------
(* Types and meaning. *)

\* Comparisons of strings become calls of strcmp and streq, which are only there if
\* the program starts with them, by its prelude or by its own chunk of primitives.
Strcmp(e) == /\ e.k = "FunctionDec" /\ e.name \in {"strcmp", "streq"} /\ IsNull(body_get(e))
             /\ Each(formals_get(e).ch, LAMBDA x : type_name_get(x).name) = <<"string", "string">>
             /\ result_get(e).name = "int"
ComparesStrings == \E e \in NodesOf(tree) : e.k = "OpExp" /\ type_get(types, left_get(e)) = StringType
HasStrcmp == /\ tree.ch # <<>>
             /\ {e.name : e \in {x \in ToSet(tree.ch[1].ch) : Strcmp(x)}} = {"strcmp", "streq"}

\* What the desugaring, the inliner and the pruner make of an accepted program is
\* accepted when it is bound and typed again: with a prelude, without, and of a list
\* of declarations.  Comparisons of strings need strcmp and streq for that.
RebuiltIsAccepted ==
  (InOrder /\ status \in {"refused", "ice", "crash"}) =>
    "desugar-string-cmp" \in done /\ ComparesStrings /\ ~HasStrcmp

\* An accepted program uses nothing that is not there: each variable is stored
\* before it is read, each primitive and operator gets what it expects and each
\* break has its loop.  Left out are division, and a variable without a value.
Divides == \E i \in DOMAIN source.text : source.text[i] = T("/")
HoldsNothing == \E e \in NodesOf(tree) : e.k = "VarDec" /\ type_get(types, e) = VoidType
AcceptedRuns ==
  (said.stop = "undefined" /\ status = "running" /\ InOrder) => Divides \/ HoldsNothing

\* What tc makes of a program does what the program means, whichever passes ran
\* before the translation, once for loops and comparisons of strings are gone.
Lowered == \A e \in NodesOf(tree) :
  e.k # "ForExp" /\ (e.k = "OpExp" => type_get(types, left_get(e)) # StringType)
SameMeaning ==
  (does # Unknown /\ Lowered /\ InOrder /\ "fuel" \notin {said.stop, does.stop}) => does = said

-----------------------------------------------------------------------------
(* The code. *)

Terminators(block) == {i \in DOMAIN block : block[i].op \in {"br", "ret"}}

\* The part of a block that runs ends with its first terminator; a break leaves
\* more behind it, which the reader of the text takes for another block.
Runs(block) == LET ends == Terminators(block) IN block[CHOOSE i \in ends : \A j \in ends : i <= j]
LeavesIn(block) == Cardinality(Terminators(block)) > 1

RECURSIVE Reached(_, _, _)
Reached(blocks, from, without) ==
  LET next == from \cup (UNION {ToSet(Runs(blocks[x]).to) : x \in from} \ without)
  IN  IF next = from THEN from ELSE Reached(blocks, next, without)

\* Whenever block x is reached, block d was before.
Dominates(blocks, d, x) == d = x \/ d = 1 \/ x \notin Reached(blocks, {1} \ {d}, {d})

\* The code of an accepted program is what LLVM asks for, nested functions, loops
\* and conditionals mixed: operands have the types of the instruction and of the
\* function called; a block ends with a terminator; a phi has a value for each block
\* that comes before, but after a break; and a value is defined before it is used,
\* whichever way the use is reached.  Nobody looks at what the verifier says.  Left
\* out are variables without a value.
CodeIsWellFormed ==
  (InOrder /\ status = "running" /\ ~HoldsNothing) =>
    \A f \in DOMAIN code :
      LET blocks == code[f].blocks
          reached == Reached(blocks, {1}, {})
          before(x) == {y \in DOMAIN blocks : \E i \in Terminators(blocks[y]) : x \in ToSet(blocks[y][i].to)}
          defined(v, x, n) == v.at[1] = 0 \/ IF v.at[1] = x THEN v.at[2] < n ELSE Dominates(blocks, v.at[1], x)
          agrees(i) == Len(i.args) >= Len(i.want) /\ \A k \in DOMAIN i.want : i.args[k].t = i.want[k]
          phi(i, x) == /\ before(x) \ {y \in before(x) : LeavesIn(blocks[y])} \subseteq ToSet(i.to)
                       /\ ToSet(i.to) \subseteq before(x)
                       /\ \A k \in DOMAIN i.to : i.to[k] \in reached => defined(i.args[k], i.to[k], Len(blocks[i.to[k]]))
      IN  blocks # <<>> =>
            \A x \in DOMAIN blocks :
              /\ Terminators(blocks[x]) # {} /\ Last(blocks[x]).op \in {"br", "ret"}
              /\ \A n \in DOMAIN blocks[x] :
                   LET i == blocks[x][n]
                   IN  /\ agrees(i)
                       /\ IF i.op = "phi" THEN phi(i, x)
                          ELSE x \in reached => \A k \in DOMAIN i.args : defined(i.args[k], x, n)
=============================================================================
