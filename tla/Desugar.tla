---------------------------------- MODULE Desugar ------------------------------
(***************************************************************************)
(* The copies of a tree: astclone::Cloner (src/src/astclone) and the       *)
(* visitor derived from it, desugar::DesugarVisitor (src/src/desugar),     *)
(* whose copy has no for loops and no comparisons of strings.  Clone is    *)
(* the visitor, of a node whose children are copies already: those recurse *)
(* makes, or the derived visitor.  The nodes built have no address yet and *)
(* no definition site; the visitor's methods stand in the order of the     *)
(* file.  Two of them build nothing, so that result_ is still the node     *)
(* copied before: those of the object extension, which no rule of the      *)
(* grammar makes.                                                          *)
(***************************************************************************)
EXTENDS Tweasts

chunk_visit(e) == Chunk(e.k, e.ch)

CloneIf(e) ==
  IfThenElse(test_get(e), thenclause_get(e), elseclause_get(e))

\* ArrayExp to FunctionDec.
CloneFirst(e) ==
  CASE e.k = "ArrayExp"  -> ArrayExp(array_type_get(e), size_get(e), array_init_get(e))
    [] e.k = "ArrayTy"   -> ArrayTy(base_type_get(e))
    [] e.k = "AssignExp" -> AssignExp(var_get(e), exp_get(e))
    [] e.k = "BreakExp"  -> BreakExp
    [] e.k = "CallExp"   -> CallExp(e.name, e.ch)
    [] e.k = "CastExp"   -> CastExp(e.ch[1], e.ch[2])
    [] e.k = "ChunkList" -> ChunkList(e.ch)
    [] e.k = "Field"     -> Field(e.name, type_name_get(e))
    [] e.k = "FieldInit" -> FieldInit(e.name, field_init_get(e))
    [] e.k = "FieldVar"  -> FieldVar(var_get(e), e.name)
    [] e.k = "ForExp"    -> ForExp(vardec_get(e), hi_get(e), for_body_get(e))
    [] e.k = "FunctionDec" ->
         FunctionDec(e.name, formals_get(e), result_get(e), body_get(e))

\* IntExp to SeqExp.
CloneMiddle(e) ==
  CASE e.k = "IntExp"    -> IntExp(e.val)
    [] e.k = "LetExp"    -> LetExp(chunks_get(e), let_body_get(e))
    [] e.k = "NameTy"    -> NameTy(e.name)
    [] e.k = "NilExp"    -> NilExp
    [] e.k = "OpExp"     -> OpExp(left_get(e), e.name, right_get(e))
    [] e.k = "RecordExp" -> RecordExp(type_name_get(e), fields_get(e))
    [] e.k = "RecordTy"  -> RecordTy(e.ch)
    [] e.k = "SeqExp"    -> SeqExp(e.ch)

\* SimpleVar to the chunks.
CloneLast(e) ==
  CASE e.k = "SimpleVar"    -> SimpleVar(e.name)
    [] e.k = "StringExp"    -> StringExp(e.name)
    [] e.k = "SubscriptVar" -> SubscriptVar(var_get(e), index_get(e))
    [] e.k = "TypeDec"      -> TypeDec(e.name, ty_get(e))
    [] e.k = "VarDec"       -> VarDec(e.name, type_name_get(e), init_get(e))
    [] e.k = "WhileExp"     -> WhileExp(test_get(e), while_body_get(e))
    [] e.k \in Chunks       -> chunk_visit(e)

Clone(e) ==
  CASE e.k = "IfExp" -> CloneIf(e)
    [] e.k \in {"ArrayExp", "ArrayTy", "AssignExp", "BreakExp", "CallExp", "CastExp", "ChunkList",
                "Field", "FieldInit", "FieldVar", "ForExp", "FunctionDec"} -> CloneFirst(e)
    [] e.k \in {"IntExp", "LetExp", "NameTy", "NilExp", "OpExp", "RecordExp", "RecordTy",
                "SeqExp"} -> CloneMiddle(e)
    [] OTHER -> CloneLast(e)

\* What the copy does of a child, and of each in a collection: null stays null.
RECURSIVE recurse(_)
recurse(c) == IF IsNull(c) THEN Null ELSE Clone([c EXCEPT !.ch = Each(@, LAMBDA x : recurse(x))])

\* The copy of a whole tree.
clone(e) == recurse(e)

-----------------------------------------------------------------------------
(* Without for loops and comparisons of strings: flags.for and flags.cmp    *)
(* are desugar_for_p_ and desugar_string_cmp_p_, and flags.strings the      *)
(* addresses of the nodes of type String.                                   *)

\* left and right are the copies of the operands.
StringComparison(e, left, right) ==
  IF e.name = "=" THEN CallExp("streq", <<left, right>>)
  ELSE OpExp(CallExp("strcmp", <<left, right>>), e.name, IntExp(0))

\* Mutant: the loop stops before its last turn.
ForAsWhileShort(name, lo, hi, body) ==
  Tweast(<<Text_(<<T("let"), T("var"), Id("_lo"), T(":=")>>), <<"_exp", lo>>,
           Text_(<<T("var"), Id("_hi"), T(":=")>>), <<"_exp", hi>>,
           Text_(<<T("var"), Id(name), T(":="), Id("_lo"), T("in"),
                   T("while"), Num(1), T("do"), T("("),
                   T("if"), Id(name), T(">="), Id("_hi"), T("then"), T("break"), T(";")>>),
           <<"_exp", body>>,
           Text_(<<T(";"), Id(name), T(":="), Id(name), T("+"), Num(1), T(")"), T("end")>>)>>, 0)

\* The bounds are evaluated once and before the index is in scope, and the last
\* turn leaves the loop before the index grows past the upper bound.
ForAsWhile(name, lo, hi, body) ==
  Tweast(<<Text_(<<T("let"), T("var"), Id("_lo"), T(":=")>>), <<"_exp", lo>>,
           Text_(<<T("var"), Id("_hi"), T(":=")>>), <<"_exp", hi>>,
           Text_(<<T("var"), Id(name), T(":="), Id("_lo"), T("in"),
                   T("if"), Id(name), T("<="), Id("_hi"), T("then"),
                   T("while"), Num(1), T("do"), T("(")>>), <<"_exp", body>>,
           Text_(<<T(";"), T("if"), Id(name), T("="), Id("_hi"), T("then"), T("break"), T(";"),
                   Id(name), T(":="), Id(name), T("+"), Num(1), T(")"), T("end")>>)>>, 0)

RECURSIVE raw_desugar(_, _)
raw_desugar(e, flags) ==
  LET R(c)  == raw_desugar(c, flags)
      index == vardec_get(e)
      loop  == ParsedTweast(ForAsWhile(index.name, R(init_get(index)), R(hi_get(e)),
                                       R(for_body_get(e))))
  IN  CASE e.k = "OpExp" /\ flags.cmp /\ left_get(e).id \in flags.strings ->
             StringComparison(e, R(left_get(e)), R(right_get(e)))
        [] e.k = "ForExp" /\ flags.for -> loop.ns[1]
        [] OTHER -> Clone([e EXCEPT !.ch = Each(@, LAMBDA c : IF IsNull(c) THEN Null ELSE R(c))])
================================================================================
