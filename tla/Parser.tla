--------------------------------- MODULE Parser --------------------------------
(***************************************************************************)
(* The grammar (src/src/parse/parsetiger.yy) and the factory its actions   *)
(* call.  ts is the token sequence, i a position in it and m what the      *)
(* driver gives the parser: m.meta, the metavariables of the Tweast that   *)
(* is read, and m.import, the declarations a file name stands for.  A      *)
(* non-terminal yields the nodes it builds and the position after it; 0 is *)
(* a syntax error.                                                         *)
(***************************************************************************)
EXTENDS Ast, Tokens

-----------------------------------------------------------------------------
\* String values that hold a quote, a backslash or a newline.
Special == {"quote"}

\* A string printed between quotes without escapes and scanned again: a special
\* character ends the string, starts an escape or is dropped, and what is read
\* is another string.
Raw(s) == Str(IF s \in Special THEN "misread" ELSE s)

Comparisons == {">=", "<=", "=", "<>", "<", ">"}
Sums        == {"+", "-"}
Products    == {"*", "/"}
Operators   == Comparisons \cup Sums \cup Products

-----------------------------------------------------------------------------

Fail == [ns |-> <<>>, i |-> 0]
Ok(ns, i) == [ns |-> ns, i |-> i]
At(ts, i) == IF i \in DOMAIN ts THEN ts[i][1] ELSE "EOF"

\* What a symbol of the grammar yields from position i on.
RECURSIVE Symbol(_, _, _, _)

\* A terminal yields nothing, but for those that carry a value.
Terminal(t, ts, i) ==
  IF At(ts, i) # t THEN Fail
  ELSE Ok(IF t \in {"ID", "INT", "STRING"} THEN <<ts[i]>> ELSE <<>>, i + 1)

\* The node a metavariable stands for.
metavar(m, key, i) == IF key \in DOMAIN m.meta THEN Ok(<<m.meta[key]>>, i) ELSE Fail

\* The sequence of symbols rhs, from position i on.
RECURSIVE Match(_, _, _, _)
Match(rhs, ts, i, m) ==
  LET r    == Symbol(Head(rhs), ts, i, m)
      rest == Match(Tail(rhs), ts, r.i, m)
  IN  IF rhs = <<>> THEN Ok(<<>>, i)
      ELSE IF r.i = 0 \/ rest.i = 0 THEN Fail ELSE Ok(r.ns \o rest.ns, rest.i)

typeid(ts, i, m) ==
  IF At(ts, i) = "_namety"
  THEN LET r == Match(<<"_namety", "(", "INT", ")">>, ts, i, m)
       IN  IF r.i = 0 THEN Fail ELSE metavar(m, r.ns[1][3], r.i)
  ELSE LET r == Terminal("ID", ts, i)
       IN  IF r.i = 0 THEN Fail ELSE Ok(<<NameTy(r.ns[1][2])>>, r.i)

tyfield(ts, i, m) ==
  LET r == Match(<<"ID", ":", "typeid">>, ts, i, m)
  IN  IF r.i = 0 THEN Fail ELSE Ok(<<Field(r.ns[1][2], r.ns[2])>>, r.i)

record_attr(ts, i, m) ==
  LET r == Match(<<"ID", "=", "exp">>, ts, i, m)
  IN  IF r.i = 0 THEN Fail ELSE Ok(<<FieldInit(r.ns[1][2], r.ns[2])>>, r.i)

\* One or more of a symbol, with commas: one sequence of nodes.
RECURSIVE List(_, _, _, _)
List(s, ts, i, m) ==
  LET r == Symbol(s, ts, i, m)
      rest == List(s, ts, r.i + 1, m)
  IN  IF r.i = 0 THEN Fail
      ELSE IF At(ts, r.i) # "," THEN Ok(<<r.ns>>, r.i)
      ELSE IF rest.i = 0 THEN Fail ELSE Ok(<<r.ns \o rest.ns[1]>>, rest.i)

\* Expressions with semicolons: none, some, or some and a last semicolon.
Exps(ts, i, m) ==
  LET r == Symbol("exp", ts, i, m)
      rest == Symbol("exps", ts, r.i + 1, m)
  IN  IF At(ts, i) \in {")", "end", "EOF"} THEN Ok(<<<<>>>>, i)
      ELSE IF r.i = 0 THEN Fail
      ELSE IF At(ts, r.i) # ";" THEN Ok(<<r.ns>>, r.i)
      ELSE IF rest.i = 0 THEN Fail ELSE Ok(<<r.ns \o rest.ns[1]>>, rest.i)

------------------------------------ (* lvalues *)
RECURSIVE Access(_, _, _, _)
Access(var, ts, i, m) ==
  CASE At(ts, i) = "." ->
         LET r == Terminal("ID", ts, i + 1)
         IN  IF r.i = 0 THEN Fail ELSE Access(FieldVar(var, r.ns[1][2]), ts, r.i, m)
    [] At(ts, i) = "[" ->
         LET r == Match(<<"[", "exp", "]">>, ts, i, m)
         IN  IF r.i = 0 THEN Fail ELSE Access(SubscriptVar(var, r.ns[1]), ts, r.i, m)
    [] OTHER -> Ok(<<var>>, i)

lvalue(ts, i, m) ==
  IF At(ts, i) = "_lvalue"
  THEN LET r == Match(<<"_lvalue", "(", "INT", ")">>, ts, i, m)
       IN  IF r.i = 0 THEN Fail ELSE metavar(m, r.ns[1][3], r.i)
  ELSE Access(SimpleVar(ts[i][2]), ts, i + 1, m)

------------------------------------ (* expressions *)
\* The node made of the values of a rule.
Make(t, v) ==
  CASE t = "INT"    -> IntExp(v[1][3])
    [] t = "STRING" -> StringExp(v[1][2])
    [] t = "call"   -> CallExp(v[1], v[2])
    [] t = "record" -> RecordExp(NameTy(v[1]), v[2])
    [] t = "array"  -> ArrayExp(NameTy(v[1]), v[2], v[3])
    [] t = "nil"    -> NilExp
    [] t = "("      -> SeqExp(v[1])
    [] t = ":="     -> AssignExp(v[1], v[2])
    [] t = "else"   -> IfThenElse(v[1], v[2], v[3])
    [] t = "if"     -> IfExp(v[1], v[2])
    [] t = "while"  -> WhileExp(v[1], v[2])
    [] t = "for"    -> ForExp(VarDec(v[1][2], Null, v[2]), v[3], v[4])
    [] t = "break"  -> BreakExp
    [] t = "let"    -> LetExp(v[1], SeqExp(v[2]))
    [] t = "minus"  -> OpExp(IntExp(0), "-", v[1])
    [] OTHER        -> OpExp(v[1], t, v[2])

\* An expression that starts with an identifier.
IdExp(ts, i, m) ==
  LET name == ts[i][2]
      next == At(ts, i + 1)
      call == Match(<<"(", ")">>, ts, i + 1, m)
      args == List("exp", ts, i + 2, m)
      inits == IF At(ts, i + 2) = "}" THEN Ok(<<<<>>>>, i + 2)
               ELSE List("record_attr", ts, i + 2, m)
      array == Match(<<"[", "exp", "]", "of", "exp">>, ts, i + 1, m)
      var   == Symbol("lvalue", ts, i, m)
      value == Symbol("exp", ts, var.i + 1, m)
  IN  CASE next = "(" /\ call.i # 0 -> Ok(<<Make("call", <<name, <<>>>>)>>, call.i)
        [] next = "(" /\ call.i = 0 ->
             IF args.i = 0 \/ At(ts, args.i) # ")" THEN Fail
             ELSE Ok(<<Make("call", <<name, args.ns[1]>>)>>, args.i + 1)
        [] next = "{" ->
             IF inits.i = 0 \/ At(ts, inits.i) # "}" THEN Fail
             ELSE Ok(<<Make("record", <<name, inits.ns[1]>>)>>, inits.i + 1)
        [] next = "[" /\ array.i # 0 ->
             Ok(<<Make("array", <<name>> \o array.ns)>>, array.i)
        [] OTHER -> IF var.i = 0 \/ At(ts, var.i) # ":=" THEN var
                    ELSE IF value.i = 0 THEN Fail
                    ELSE Ok(<<Make(":=", <<var.ns[1], value.ns[1]>>)>>, value.i)

IfRule(ts, i, m) ==
  LET r == Match(<<"if", "exp", "then", "exp">>, ts, i, m)
      e == Match(<<"else", "exp">>, ts, r.i, m)
  IN  IF r.i = 0 THEN Fail
      ELSE IF At(ts, r.i) # "else" THEN Ok(<<Make("if", r.ns)>>, r.i)
      ELSE IF e.i = 0 THEN Fail
      ELSE Ok(<<Make("else", r.ns \o e.ns)>>, e.i)

\* The expressions that start with a token of their own: what the token starts.
Rule(t) ==
  CASE t = "INT"    -> <<"INT">>
    [] t = "STRING" -> <<"STRING">>
    [] t = "nil"    -> <<"nil">>
    [] t = "break"  -> <<"break">>
    [] t = "("      -> <<"(", "exps", ")">>
    [] t = "while"  -> <<"while", "exp", "do", "exp">>
    [] t = "for"    -> <<"for", "ID", ":=", "exp", "to", "exp", "do", "exp">>
    [] t = "let"    -> <<"let", "chunks", "in", "exps", "end">>
    [] t = "_exp"   -> <<"_exp", "(", "INT", ")">>
    [] OTHER        -> <<"no expression">>

Operand(ts, i, m) ==
  LET t     == At(ts, i)
      minus == Symbol("operand", ts, i + 1, m)
      var   == Symbol("lvalue", ts, i, m)
      value == Symbol("exp", ts, var.i + 1, m)
      r     == Match(Rule(t), ts, i, m)
  IN  CASE t = "ID" -> IdExp(ts, i, m)
        [] t = "if" -> IfRule(ts, i, m)
        [] t = "-"  -> IF minus.i = 0 THEN Fail
                       ELSE Ok(<<Make("minus", minus.ns)>>, minus.i)
        [] t = "_lvalue" /\ At(ts, var.i) # ":=" -> var
        [] t = "_lvalue" /\ At(ts, var.i) = ":=" ->
             IF value.i = 0 THEN Fail ELSE Ok(<<Make(":=", <<var.ns[1], value.ns[1]>>)>>, value.i)
        [] t = "_exp" -> IF r.i = 0 THEN Fail ELSE metavar(m, r.ns[1][3], r.i)
        [] OTHER      -> IF r.i = 0 THEN Fail ELSE Ok(<<Make(t, r.ns)>>, r.i)

\* The precedence of a binary operator; 0 is no operator.
Level(t) ==
  CASE t = "|" -> 1 [] t = "&" -> 2
    [] t \in Comparisons -> 3 [] t \in Sums -> 4 [] t \in Products -> 5
    [] OTHER -> 0

\* There is no node for & and |, and the clause that is left out is a string.
Binary(op, left, right) ==
  CASE op = "&" -> IfThenElse(left, right, StringExp("1 = 2"))
    [] op = "|" -> IfThenElse(left, StringExp("1 = 1"), right)
    [] OTHER    -> Make(op, <<left, right>>)

\* The operators of level p or more that follow a left operand.  All associate
\* to the left, but for the comparisons, which do not associate: max is the level
\* the next operator may have.
RECURSIVE Exp(_, _, _, _), Operations(_, _, _, _, _, _)
Operations(left, ts, i, m, p, max) ==
  LET l     == Level(At(ts, i))
      right == Exp(ts, i + 1, m, l + 1)
  IN  IF l < p \/ l = 0 THEN Ok(<<left>>, i)
      ELSE IF l > max \/ right.i = 0 THEN Fail
      ELSE Operations(Binary(At(ts, i), left, right.ns[1]), ts, right.i, m, p,
                      IF l = 3 THEN 2 ELSE l)

Exp(ts, i, m, p) ==
  LET r == Symbol("operand", ts, i, m)
  IN  IF r.i = 0 THEN Fail ELSE Operations(r.ns[1], ts, r.i, m, p, 5)

------------------------------------ (* declarations *)
ty(ts, i, m) ==
  LET record == Match(<<"{", "tyfields", "}">>, ts, i, m)
      array  == Match(<<"array", "of", "typeid">>, ts, i, m)
  IN  CASE At(ts, i) = "{"     -> IF record.i = 0 THEN Fail ELSE Ok(<<RecordTy(record.ns[1])>>, record.i)
        [] At(ts, i) = "array" -> IF array.i = 0 THEN Fail ELSE Ok(<<ArrayTy(array.ns[1])>>, array.i)
        [] OTHER               -> Symbol("typeid", ts, i, m)

\* A run of type declarations, in order.
tychunk(ts, i, m) ==
  LET head == Match(<<"type", "ID", "=">>, ts, i, m)
      def  == Symbol("ty", ts, head.i, m)
      dec  == TypeDec(head.ns[1][2], def.ns[1])
      rest == Symbol("tychunk", ts, def.i, m)
  IN  IF head.i = 0 \/ def.i = 0 THEN Fail
      ELSE IF At(ts, def.i) # "type" THEN Ok(<<emplace_back(Chunk("TypeChunk", <<>>), dec)>>, def.i)
      ELSE IF rest.i = 0 THEN Fail ELSE Ok(<<push_front(rest.ns[1], dec)>>, rest.i)

\* The formals are variables without a value.
funcdec(ts, i, m) ==
  LET head   == Match(<<At(ts, i), "ID", "(", "tyfields", ")">>, ts, i, m)
      result == Match(<<":", "typeid">>, ts, head.i, m)
      end    == IF At(ts, head.i) = ":" THEN result.i ELSE head.i
      body   == Match(<<"=", "exp">>, ts, end, m)
      dec(type, exp) ==
        FunctionDec(head.ns[1][2],
                    VarChunk([f \in DOMAIN head.ns[2] |->
                                VarDec(head.ns[2][f].name, type_name_get(head.ns[2][f]), Null)]),
                    type, exp)
      type == IF At(ts, head.i) = ":" THEN result.ns[1] ELSE Null
  IN  IF head.i = 0 \/ end = 0 THEN Fail
      ELSE IF At(ts, i) = "primitive" THEN Ok(<<dec(type, Null)>>, end)
      ELSE IF body.i = 0 THEN Fail ELSE Ok(<<dec(type, body.ns[1])>>, body.i)

\* A run of functions: each is put after the ones that follow it.
functionChunk(ts, i, m) ==
  LET dec  == Symbol("funcdec", ts, i, m)
      rest == Symbol("functionChunk", ts, dec.i, m)
  IN  IF dec.i = 0 THEN Fail
      ELSE IF At(ts, dec.i) \notin {"function", "primitive"}
           THEN Ok(<<emplace_back(Chunk("FunctionChunk", <<>>), dec.ns[1])>>, dec.i)
      ELSE IF rest.i = 0 THEN Fail ELSE Ok(<<emplace_back(rest.ns[1], dec.ns[1])>>, rest.i)

\* One variable; without a value it is given a string.
vardec(ts, i, m) ==
  LET head  == Match(<<"var", "ID">>, ts, i, m)
      type  == Match(<<":", "typeid">>, ts, head.i, m)
      typed == At(ts, head.i) = ":"
      end   == IF typed THEN type.i ELSE head.i
      value == Match(<<":=", "exp">>, ts, end, m)
      dec(exp) == emplace_back(VarChunk(<<>>),
                    VarDec(head.ns[1][2], IF typed THEN type.ns[1] ELSE Null, exp))
  IN  IF head.i = 0 \/ end = 0 THEN Fail
      ELSE IF At(ts, end) # ":=" THEN Ok(<<dec(StringExp("nullptr"))>>, end)
      ELSE IF value.i = 0 THEN Fail ELSE Ok(<<dec(value.ns[1])>>, value.i)

\* Nothing can follow an import, whose chunks are the end of the list.
Chunks_(ts, i, m) ==
  LET t      == At(ts, i)
      chunk  == Symbol(CASE t = "type" -> "tychunk" [] t = "var" -> "vardec" [] OTHER -> "functionChunk",
                       ts, i, m)
      meta   == Match(<<"_chunks", "(", "INT", ")">>, ts, i, m)
      spliced == metavar(m, meta.ns[1][3], meta.i)
      first  == IF t = "_chunks" THEN meta ELSE chunk
      rest   == Symbol("chunks", ts, first.i, m)
      import == Match(<<"import", "STRING">>, ts, i, m)
  IN  CASE t \in {"type", "var", "function", "primitive", "_chunks"} ->
             IF first.i = 0 \/ rest.i = 0 THEN Fail
             ELSE IF t # "_chunks" THEN Ok(<<push_front(rest.ns[1], chunk.ns[1])>>, rest.i)
             ELSE IF spliced.i = 0 THEN Fail
             ELSE Ok(<<splice_front(rest.ns[1], spliced.ns[1])>>, rest.i)
        [] t = "import" ->
             IF import.i = 0 \/ import.ns[1][2] \notin DOMAIN m.import THEN Fail
             ELSE Ok(<<m.import[import.ns[1][2]]>>, import.i)
        [] OTHER -> Ok(<<ChunkList(<<>>)>>, i)

------------------------------------ (* symbols *)
Symbol(s, ts, i, m) ==
  CASE s = "exp"         -> Exp(ts, i, m, 1)
    [] s = "operand"     -> Operand(ts, i, m)
    [] s = "exps"        -> Exps(ts, i, m)
    [] s = "lvalue"      -> lvalue(ts, i, m)
    [] s = "record_attr" -> record_attr(ts, i, m)
    [] s = "chunks"      -> Chunks_(ts, i, m)
    [] s = "tychunk"     -> tychunk(ts, i, m)
    [] s = "ty"          -> ty(ts, i, m)
    [] s = "typeid"      -> typeid(ts, i, m)
    [] s = "tyfields"    -> IF At(ts, i) = "ID" THEN List("tyfield", ts, i, m) ELSE Ok(<<<<>>>>, i)
    [] s = "tyfield"     -> tyfield(ts, i, m)
    [] s = "functionChunk" -> functionChunk(ts, i, m)
    [] s = "funcdec"     -> funcdec(ts, i, m)
    [] s = "vardec"      -> vardec(ts, i, m)
    [] OTHER             -> Terminal(s, ts, i)

\* A program is an expression; an imported file, and what is made of a Tweast,
\* is a list of chunks.
Whole(exp, chunks, ts) ==
  IF At(ts, exp.i) = "EOF" /\ exp.i # 0 THEN exp
  ELSE IF At(ts, chunks.i) = "EOF" /\ chunks.i # 0 THEN chunks ELSE Fail
program(ts, m) == Whole(Symbol("exp", ts, 1, m), Symbol("chunks", ts, 1, m), ts)
================================================================================
