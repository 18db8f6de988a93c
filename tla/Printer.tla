-------------------------------- MODULE Printer --------------------------------
(***************************************************************************)
(* What is shown of a tree: ast::PrettyPrinter (src/src/ast/               *)
(* pretty-printer.cc), the text a tree is displayed as, and ast::DumperDot *)
(* (src/src/ast/dumper-dot), the graph that ast-dump draws.  Of the text,  *)
(* line breaks and indentation are left out, and the comments that show    *)
(* bindings and escapes with them; of the graph, what a cell says, and     *)
(* colours.                                                                *)
(***************************************************************************)
EXTENDS Parser

RECURSIVE Text(_)

\* The elements of a collection with a token between them.
Separated(es, sep) ==
  IF es = <<>> THEN <<>>
  ELSE Text(Head(es)) \o Joined(Tail(es), LAMBDA e : <<sep>> \o Text(e))

\* A field's name comes before the record it is a field of.
PrintFieldVar(e)     == <<Id(e.name), T(".")>> \o Text(var_get(e))
PrintSubscriptVar(e) == Text(var_get(e)) \o <<T("[")>> \o Text(index_get(e)) \o <<T("]")>>
PrintCast(e) ==
  <<T("_cast"), T("(")>> \o Text(e.ch[1]) \o <<T(",")>> \o Text(e.ch[2]) \o <<T(")")>>

PrintArrayExp(e) ==
  Text(array_type_get(e)) \o <<T("[")>> \o Text(size_get(e)) \o <<T("]"), T("of")>>
    \o Text(array_init_get(e))
PrintArrayTy(e) == <<T("array"), T("of")>> \o Text(base_type_get(e))
PrintAssign(e)  == Text(var_get(e)) \o <<T(":=")>> \o Text(exp_get(e))
PrintCall(e)    == <<Id(e.name), T("(")>> \o Separated(e.ch, T(",")) \o <<T(")")>>

PrintField(e)     == <<Id(e.name), T(":")>> \o Text(type_name_get(e))
PrintFieldInit(e) == <<Id(e.name), T("=")>> \o Text(field_init_get(e))

\* Mutant: the index is printed like any other variable.
PrintForDec(e) ==
  <<T("for")>> \o Text(vardec_get(e)) \o <<T("to")>> \o Text(hi_get(e))
    \o <<T("do")>> \o Text(for_body_get(e))

PrintFor(e) ==
  <<T("for"), Id(vardec_get(e).name), T(":=")>> \o Text(init_get(vardec_get(e)))
    \o <<T("to")>> \o Text(hi_get(e)) \o <<T("do")>> \o Text(for_body_get(e))

\* A function without a body is a primitive.
PrintFunctionDec(e) ==
  LET primitive == IsNull(body_get(e))
  IN  <<IF primitive THEN T("primitive") ELSE T("function"), Id(e.name), T("(")>>
        \o Separated(formals_get(e).ch, T(",")) \o <<T(")")>>
        \o (IF IsNull(result_get(e)) THEN <<>> ELSE <<T(":")>> \o Text(result_get(e)))
        \o (IF primitive THEN <<>> ELSE <<T("=")>> \o Text(body_get(e)))

\* An else clause that is the empty sequence is not printed.
PrintIf(e) ==
  LET else == elseclause_get(e)
  IN  <<T("if")>> \o Text(test_get(e)) \o <<T("then")>> \o Text(thenclause_get(e))
        \o (IF else.k = "SeqExp" /\ else.ch = <<>> THEN <<>>
            ELSE <<T("else")>> \o Text(else))

PrintLet(e) ==
  <<T("let")>> \o Text(chunks_get(e)) \o <<T("in")>> \o Text(let_body_get(e))
    \o <<T("end")>>

\* No parentheses: the tree holds a sequence wherever the source had some.
PrintOp(e) == Text(left_get(e)) \o <<T(e.name)>> \o Text(right_get(e))

PrintRecordExp(e) ==
  Text(type_name_get(e)) \o <<T("{")>> \o Separated(fields_get(e), T(",")) \o <<T("}")>>
PrintRecordTy(e) == <<T("{")>> \o Separated(e.ch, T(",")) \o <<T("}")>>
PrintSeq(e)      == <<T("(")>> \o Separated(e.ch, T(";")) \o <<T(")")>>
PrintTypeDec(e)  == <<T("type"), Id(e.name), T("=")>> \o Text(ty_get(e))

\* A formal has no initial value, and no keyword.
PrintVarDec(e) ==
  (IF IsNull(init_get(e)) THEN <<>> ELSE <<T("var")>>) \o <<Id(e.name)>>
    \o (IF IsNull(type_name_get(e)) THEN <<>> ELSE <<T(":")>> \o Text(type_name_get(e)))
    \o (IF IsNull(init_get(e)) THEN <<>> ELSE <<T(":=")>> \o Text(init_get(e)))

PrintWhile(e) ==
  <<T("while")>> \o Text(test_get(e)) \o <<T("do")>> \o Text(while_body_get(e))

\* The operator of the visitor for each class; chunks and lists of chunks are
\* printed one declaration after the other by the default visitor.
Text(e) ==
  CASE e.k = "SimpleVar"    -> <<Id(e.name)>>
    [] e.k = "NameTy"       -> <<Id(e.name)>>
    [] e.k = "FieldVar"     -> PrintFieldVar(e)
    [] e.k = "SubscriptVar" -> PrintSubscriptVar(e)
    [] e.k = "NilExp"       -> <<T("nil")>>
    [] e.k = "IntExp"       -> <<Num(e.val)>>
    [] e.k = "StringExp"    -> <<Raw(e.name)>>
    [] e.k = "BreakExp"     -> <<T("break")>>
    [] e.k = "CastExp"      -> PrintCast(e)
    [] e.k = "ArrayExp"     -> PrintArrayExp(e)
    [] e.k = "ArrayTy"      -> PrintArrayTy(e)
    [] e.k = "AssignExp"    -> PrintAssign(e)
    [] e.k = "CallExp"      -> PrintCall(e)
    [] e.k = "Field"        -> PrintField(e)
    [] e.k = "FieldInit"    -> PrintFieldInit(e)
    [] e.k = "ForExp"       -> PrintFor(e)
    [] e.k = "FunctionDec"  -> PrintFunctionDec(e)
    [] e.k = "IfExp"        -> PrintIf(e)
    [] e.k = "LetExp"       -> PrintLet(e)
    [] e.k = "OpExp"        -> PrintOp(e)
    [] e.k = "RecordExp"    -> PrintRecordExp(e)
    [] e.k = "RecordTy"     -> PrintRecordTy(e)
    [] e.k = "SeqExp"       -> PrintSeq(e)
    [] e.k = "TypeDec"      -> PrintTypeDec(e)
    [] e.k = "VarDec"       -> PrintVarDec(e)
    [] e.k = "WhileExp"     -> PrintWhile(e)
    [] OTHER                -> Joined(e.ch, LAMBDA c : Text(c))

-----------------------------------------------------------------------------
(* The graph, for dot.  A node of it has cells, and some cells are ports an *)
(* edge may leave from; a port is a name, or a name and a number.  What a   *)
(* visitor's method shows of a node of its class, and what it goes on with: *)
(* fields, cells with a value; ports, the children, one for each; list, the *)
(* collection of the others; ref, the port the cell of the collection is;   *)
(* def, whether there is a definition site.                                 *)

Drawing(fields, ports) == [fields |-> fields, ports |-> ports, list |-> "", ref |-> "", def |-> FALSE]
Listing(fields, ports, list) == [Drawing(fields, ports) EXCEPT !.list = list, !.ref = list]
Use(d) == [d EXCEPT !.def = TRUE]

DrawArrayToCast ==
  [ArrayExp  |-> Drawing(<<"type">>, <<"type_name", "size", "init">>),
   ArrayTy   |-> Drawing(<<"type">>, <<"base_type">>),
   AssignExp |-> Drawing(<<"type">>, <<"var", "exp">>),
   BreakExp  |-> Use(Drawing(<<"type">>, <<>>)),
   CallExp   |-> Use(Listing(<<"type", "name">>, <<>>, "args")),
   CastExp   |-> Drawing(<<"type">>, <<"exp", "ty">>)]

DrawFieldToLet ==
  [Field       |-> Drawing(<<"name">>, <<"type_name">>),
   FieldInit   |-> Drawing(<<"name">>, <<"init">>),
   FieldVar    |-> Drawing(<<"type", "name">>, <<"var">>),
   ForExp      |-> Drawing(<<"type">>, <<"vardec", "hi", "body">>),
   FunctionDec |-> Drawing(<<"type", "name">>, <<"formals", "result", "body">>),
   IfExp       |-> Drawing(<<"type">>, <<"test", "thenclause", "elseclause">>),
   IntExp      |-> Drawing(<<"type", "value">>, <<>>),
   LetExp      |-> Drawing(<<"type">>, <<"chunks", "body">>)]

DrawNames ==
  [NameTy |-> Use(Drawing(<<"type", "name">>, <<>>)),
   NilExp |-> Drawing(<<"type">>, <<>>)]

\* The cell of the fields of a record type is a port of another name.
DrawOpToWhile ==
  [OpExp        |-> Drawing(<<"type", "oper">>, <<"left", "right">>),
   RecordExp    |-> Listing(<<"type">>, <<"type_name">>, "fields"),
   RecordTy     |-> [Listing(<<"type">>, <<>>, "fields") EXCEPT !.ref = "nodename"],
   SeqExp       |-> Listing(<<"type">>, <<>>, "exps"),
   SimpleVar    |-> Use(Drawing(<<"type", "name">>, <<>>)),
   StringExp    |-> Drawing(<<"type", "value">>, <<>>),
   SubscriptVar |-> Drawing(<<"type">>, <<"var", "index">>),
   TypeDec      |-> Drawing(<<"type", "name">>, <<"ty">>),
   VarDec       |-> Drawing(<<"type", "name">>, <<"type_name", "init">>),
   WhileExp     |-> Drawing(<<"type">>, <<"test", "body">>)]

\* A chunk is one cell, the node's own name.
dump_chunk == [k \in Chunks \cup {"ChunkList"} |-> Listing(<<>>, <<>>, "nodename")]

Draw == DrawArrayToCast @@ DrawFieldToLet @@ DrawNames @@ DrawOpToWhile @@ dump_chunk

-----------------------------------------------------------------------------
\* The ports of a collection: its cell, and one for each element of several.
node_html_port_list(ref, size) ==
  <<<<ref>>>> \o (IF size > 1 THEN [n \in 1..size |-> <<ref, n - 1>>] ELSE <<>>)

\* The cells of a node, in their order; a type is shown once there is one.
Cells(names) == [i \in DOMAIN names |-> <<names[i]>>]
node_html(e, d, typed) ==
  (IF e.id \in typed THEN Cells(<<"nodename">> \o d.fields)
   ELSE Cells(<<"nodename">> \o SelectSeq(d.fields, LAMBDA f : f # "type")))
  \o Cells(d.ports)
  \o (IF d.list = "" THEN <<>> ELSE node_html_port_list(d.ref, Len(e.ch) - Len(d.ports)))
  \o (IF d.def THEN <<<<"def">>>> ELSE <<>>)

\* The root has no parent field.
display_link(from, port, e) ==
  IF port = <<>> THEN <<>> ELSE <<[is |-> "link", from |-> from, port |-> port, to |-> e.id]>>

dump_def(e, d) ==
  IF d.def /\ e.def # 0 THEN <<[is |-> "def", from |-> e.id, port |-> <<"def">>, to |-> e.def]>> ELSE <<>>

\* Mutant: elements are not numbered.
FieldNameOf(field, i, size) == <<field>>

\* The port of an element of a collection: its number when there are several.
FieldName(field, i, size) == IF i < size \/ i > 1 THEN <<field, i - 1>> ELSE <<field>>

RECURSIVE Accept(_, _, _, _)
Accept(e, from, port, typed) ==
  LET d == Draw[e.k]
      k == Len(d.ports)
      PortOf(i) == IF i <= k THEN <<d.ports[i]>> ELSE FieldName(d.list, i - k, Len(e.ch) - k)
      dump(r, i) == IF IsNull(e.ch[i]) THEN r ELSE r \o Accept(e.ch[i], e.id, PortOf(i), typed)
  IN  <<[is |-> "node", id |-> e.id, ports |-> node_html(e, d, typed)]>>
      \o display_link(from, port, e) \o dump_def(e, d)
      \o FoldLeft(dump, <<>>, [i \in DOMAIN e.ch |-> i])

dump_dot(tree, typed) == Accept(tree, -1, <<>>, typed)
================================================================================
