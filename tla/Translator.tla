-------------------------------- MODULE Translator -----------------------------
(***************************************************************************)
(* The code llvmtranslate::Translator builds of a tree: functions of basic *)
(* blocks of instructions (src/src/llvmtranslate).  Eval says what the     *)
(* code does, and LambdaLifting which variables a function is handed; here *)
(* is its shape: the types of the operands, and how blocks follow.         *)
(*   op    the instruction                                                 *)
(*   args  the values it uses, and want, the types they must have          *)
(*   to    the blocks it goes to, or, for a phi, comes from                *)
(*   t     the type of its value                                           *)
(* A value is its type and where it is defined: constants, arguments and   *)
(* the addresses of local variables are everywhere.                        *)
(***************************************************************************)
EXTENDS TypeChecker

Constant(t) == [t |-> t, at |-> <<0, 0>>]
Zero == Constant("i64")

-----------------------------------------------------------------------------
\* The LLVM type of a type: a record is translated once, into a pointer to what
\* its fields are.  There is none, and tc fails, for a type that is not there and
\* for an array of itself.
RECURSIVE Visit_(_, _, _, _)
Visit_(t, structs, arrays, heap) ==
  CASE t.c \in {"Int", "Void"}   -> "i64"
    [] t.c \in {"String", "Nil"} -> "ptr"
    [] t.c = "null"  -> "none"
    [] t.c = "Named" -> Visit_(heap[t.at], structs, arrays, heap)
    [] t.c = "Array" -> IF t \in arrays THEN "none"
                        ELSE IF Visit_(heap[t.at], structs, arrays \cup {t}, heap) = "none" THEN "none"
                        ELSE "ptr"
    [] t.c = "Record" ->
         IF t \notin structs
            /\ \E i \in DOMAIN heap[t.at] :
                 Visit_(heap[t.at][i].type, structs \cup {t}, {}, heap) = "none"
         THEN "none" ELSE "ptr"
llvm_type(t, c) == Visit_(t, {}, {}, c.types.heap)

\* The arguments and the result of a function, without what it captures.
llvm_function_type(f, c) ==
  LET formals == c.types.heap[f.at].formals
      result  == c.types.heap[f.at].result
  IN  [args   |-> [i \in DOMAIN formals |-> llvm_type(formals[i].type, c)],
       result |-> IF actual(result, c.types.heap) = VoidType THEN "void" ELSE llvm_type(result, c)]

-----------------------------------------------------------------------------
(* The builder.  fns are the functions of the module, fn the number of the  *)
(* one being built and at that of the block where instructions go; v is     *)
(* value_, last the value of the last instruction and loops loop_end_; stop *)
(* says how the translation ended before its time.                          *)

BuilderStart ==
  [fns |-> <<>>, fn |-> 0, at |-> 0, v |-> Zero, last |-> Zero, loops |-> <<>>, stop |-> ""]

Emit(b, op, args, want, to, t) ==
  LET block == b.fns[b.fn].blocks[b.at]
      i     == [op |-> op, args |-> args, want |-> want, to |-> to, t |-> t]
  IN  [b EXCEPT !.fns[b.fn].blocks[b.at] = Append(@, i),
                !.last = [t |-> t, at |-> <<b.at, Len(block) + 1>>]]

Gets(b, v) == [b EXCEPT !.v = v]
Last_(b)   == [b EXCEPT !.v = b.last]
Br(b, at)  == Emit(b, "br", <<>>, <<>>, <<at>>, "void")
CondBr(b, v, yes, no) == Emit(b, "br", <<v>>, <<"i1">>, <<yes, no>>, "void")
SetInsertPoint(b, at) == [b EXCEPT !.at = at]

\* n more blocks of the function, and how many it has.
Blocks(b)         == Len(b.fns[b.fn].blocks)
BasicBlocks(b, n) == [b EXCEPT !.fns[b.fn].blocks = @ \o [i \in 1..n |-> <<>>]]

function_dec_name(e) ==
  CASE e.name = "_main" -> <<"tc", "main">>
    [] IsNull(body_get(e)) -> <<"tc", e.name>>
    [] OTHER -> <<"", e.name>>

\* A second function of a name gets another one, so the first is found.
getFunction(b, name) ==
  CHOOSE i \in DOMAIN b.fns : b.fns[i].name = name /\ \A j \in 1..i - 1 : b.fns[j].name # name

visit_function_dec_header(e, b, c) ==
  [b EXCEPT !.fns = Append(@, [name |-> function_dec_name(e), blocks |-> <<>>]
                              @@ llvm_function_type(type_get(c.types, e), c))]

-----------------------------------------------------------------------------
RECURSIVE Translate(_, _, _)

\* The values of several nodes, from left to right.
Translated(es, b, c) ==
  FoldLeft(LAMBDA r, e : LET q == Translate(e, r.b, c) IN [b |-> q, vs |-> Append(r.vs, q.v)],
           [b |-> b, vs |-> <<>>], es)

TypeOf(e, c) == llvm_type(type_get(c.types, e), c)

\* The address of a variable is the last value.
access_address(e, b, c) ==
  CASE e.k = "SimpleVar" -> [b EXCEPT !.last = Constant("ptr")]
    [] e.k = "SubscriptVar" ->
         LET r == Translated(e.ch, b, c) IN Emit(r.b, "gep", r.vs, <<"ptr", "i64">>, <<>>, "ptr")
    [] e.k = "FieldVar" ->
         LET r == Translated(e.ch, b, c) IN Emit(r.b, "gep", r.vs, <<"ptr">>, <<>>, "ptr")

TranslateVar(e, b, c) ==
  LET r == access_address(e, b, c) IN Last_(Emit(r, "load", <<r.last>>, <<"ptr">>, <<>>, TypeOf(e, c)))

TranslateAssign(e, b, c) ==
  LET exp == Translate(exp_get(e), b, c)
      at  == access_address(var_get(e), exp, c)
  IN  Gets(Emit(at, "store", <<exp.v, at.last>>, <<TypeOf(var_get(e), c), "ptr">>, <<>>, "void"), Zero)

TranslateRecord(e, b, c) ==
  LET record == actual(type_get(c.types, type_name_get(e)), c.types.heap)
      malloc == Emit(b, "call", <<Zero>>, <<"i64">>, <<>>, "ptr")
      field(f) == llvm_type(field_type(record, f.name, c.types.heap), c)
      store(r, f) ==
        LET q  == Translate(field_init_get(f), r, c)
            at == Emit(q, "gep", <<malloc.last>>, <<"ptr">>, <<>>, "ptr")
        IN  Emit(at, "store", <<q.v, at.last>>, <<field(f), "ptr">>, <<>>, "void")
  IN  Gets(FoldLeft(store, malloc, fields_get(e)), malloc.last)

\* A pointer is made an integer for the function that fills the array.
code_init_array(b, count, init) ==
  LET cast == IF init.t = "ptr" THEN Emit(b, "ptrtoint", <<init>>, <<"ptr">>, <<>>, "i64")
              ELSE [b EXCEPT !.last = init]
  IN  Last_(Emit(cast, "call", <<count, cast.last>>, <<"i64", "i64">>, <<>>, "ptr"))

\* The two are arguments of one call, of which C++ evaluates either first.
TranslateArray(e, b, c) ==
  LET size == size_get(e)
      init == array_init_get(e)
      r == Translated(IF c.backwards THEN <<init, size>> ELSE <<size, init>>, b, c)
  IN  IF c.backwards THEN code_init_array(r.b, r.vs[2], r.vs[1])
      ELSE code_init_array(r.b, r.vs[1], r.vs[2])

\* A comparison is of one bit, and is extended.
TranslateOp(e, b, c) ==
  LET r == Translated(e.ch, b, c)
      arithmetic == Emit(r.b, "binary", r.vs, <<"i64", "i64">>, <<>>, "i64")
      compare    == Emit(r.b, "icmp", r.vs, <<r.vs[1].t, r.vs[1].t>>, <<>>, "i1")
  IN  Last_(IF e.name \in {"+", "-", "*", "/"} THEN arithmetic
            ELSE Emit(compare, "zext", <<compare.last>>, <<"i1">>, <<>>, "i64"))

\* Mutant: the value comes from the block where the clause begins.
TranslateIfFromStart(e, b, c) ==
  LET n      == Blocks(b)
      test   == Translate(test_get(e), BasicBlocks(b, 3), c)
      CondV  == Emit(test, "icmp", <<test.v>>, <<"i64">>, <<>>, "i1")
      then   == Translate(thenclause_get(e), SetInsertPoint(CondBr(CondV, CondV.last, n + 1, n + 2), n + 1), c)
      else   == Translate(elseclause_get(e), SetInsertPoint(Br(then, n + 3), n + 2), c)
      merge  == SetInsertPoint(Br(else, n + 3), n + 3)
      merged == TypeOf(e, c)
      iftmp  == Emit(merge, "phi", <<then.v, else.v>>, <<merged, merged>>, <<n + 1, n + 2>>, merged)
  IN  IF actual(type_get(c.types, e), c.types.heap) = VoidType THEN merge ELSE Last_(iftmp)

\* The block where a clause ends need not be the one where it begins.
TranslateIf(e, b, c) ==
  LET n      == Blocks(b)
      test   == Translate(test_get(e), BasicBlocks(b, 3), c)
      CondV  == Emit(test, "icmp", <<test.v>>, <<"i64">>, <<>>, "i1")
      then   == Translate(thenclause_get(e), SetInsertPoint(CondBr(CondV, CondV.last, n + 1, n + 2), n + 1), c)
      else   == Translate(elseclause_get(e), SetInsertPoint(Br(then, n + 3), n + 2), c)
      merge  == SetInsertPoint(Br(else, n + 3), n + 3)
      merged == TypeOf(e, c)
      iftmp  == Emit(merge, "phi", <<then.v, else.v>>, <<merged, merged>>, <<then.at, else.at>>, merged)
  IN  IF actual(type_get(c.types, e), c.types.heap) = VoidType THEN merge ELSE Last_(iftmp)

TranslateWhile(e, b, c) ==
  LET n    == Blocks(b)
      loop == [BasicBlocks(b, 3) EXCEPT !.loops = (e.id :> (n + 3)) @@ @]
      test == Translate(test_get(e), SetInsertPoint(Br(loop, n + 1), n + 1), c)
      cmp  == Emit(test, "icmp", <<test.v>>, <<test.v.t>>, <<>>, "i1")
      body == Translate(while_body_get(e), SetInsertPoint(CondBr(cmp, cmp.last, n + 2, n + 3), n + 2), c)
  IN  SetInsertPoint(Br(body, n + 1), n + 3)

\* The loop must be a while loop; what follows in the block is not reached.
TranslateBreak(e, b) ==
  IF e.def \in DOMAIN b.loops THEN Last_(Br(b, b.loops[e.def])) ELSE [b EXCEPT !.stop = "undefined"]

TranslateCall(e, b, c) ==
  LET f == c.dec[e.def]
      r == Translated(e.ch, b, c)
      g == r.b.fns[getFunction(r.b, function_dec_name(f))]
  IN  Last_(Emit(r.b, "call", r.vs, g.args, <<>>, g.result))

TranslateCast(e, b, c) ==
  LET r == Translate(e.ch[1], b, c)
  IN  Last_(Emit(r, "bitcast", <<r.v>>, <<TypeOf(e.ch[2], c)>>, <<>>, TypeOf(e.ch[2], c)))

TranslateVarDec(e, b, c) ==
  LET r == Translate(init_get(e), b, c)
  IN  Last_(Emit(r, "store", <<r.v>>, <<TypeOf(e, c)>>, <<>>, "void"))

\* Each formal is stored in a local variable, and the function around goes on.
visit_body(e, b, c) ==
  LET n     == getFunction(b, function_dec_name(e))
      entry == BasicBlocks([b EXCEPT !.fn = n], 1)
      bb    == SetInsertPoint(entry, Blocks(entry))
      store(r, i) == Emit(r, "store", <<Constant(b.fns[n].args[i])>>,
                          <<TypeOf(formals_get(e).ch[i], c)>>, <<>>, "void")
      body  == Translate(body_get(e), FoldLeft(store, bb, [i \in DOMAIN formals_get(e).ch |-> i]), c)
      ret   == IF b.fns[n].result = "void" THEN Emit(body, "ret", <<>>, <<>>, <<>>, "void")
               ELSE Emit(body, "ret", <<body.v>>, <<b.fns[n].result>>, <<>>, "void")
  IN  [ret EXCEPT !.fn = b.fn, !.at = b.at]

TranslateFunctions(e, b, c) ==
  LET headers == FoldLeft(LAMBDA r, f : visit_function_dec_header(f, r, c), b, e.ch)
  IN  FoldLeft(LAMBDA r, f : IF IsNull(body_get(f)) THEN r ELSE visit_body(f, r, c), headers, e.ch)

Translate(e, b, c) ==
  CASE e.k \in {"SimpleVar", "FieldVar", "SubscriptVar"} -> TranslateVar(e, b, c)
    [] e.k = "NilExp"        -> Gets(b, Constant(TypeOf(e, c)))
    [] e.k = "IntExp"        -> Gets(b, Zero)
    [] e.k = "StringExp"     -> Gets(b, Constant("ptr"))
    [] e.k = "RecordExp"     -> TranslateRecord(e, b, c)
    [] e.k = "OpExp"         -> TranslateOp(e, b, c)
    [] e.k = "SeqExp"        -> IF e.ch = <<>> THEN Gets(b, Zero) ELSE Translated(e.ch, b, c).b
    [] e.k = "AssignExp"     -> TranslateAssign(e, b, c)
    [] e.k = "IfExp"         -> TranslateIf(e, b, c)
    [] e.k = "WhileExp"      -> TranslateWhile(e, b, c)
    [] e.k = "BreakExp"      -> TranslateBreak(e, b)
    [] e.k = "ArrayExp"      -> TranslateArray(e, b, c)
    [] e.k = "CastExp"       -> TranslateCast(e, b, c)
    [] e.k = "CallExp"       -> TranslateCall(e, b, c)
    [] e.k = "VarDec"        -> TranslateVarDec(e, b, c)
    [] e.k = "FunctionChunk" -> TranslateFunctions(e, b, c)
    [] e.k \in {"LetExp", "ForExp", "ChunkList", "VarChunk"} -> Translated(e.ch, b, c).b
    [] OTHER -> b

\* The types an instruction and a function are about.
TypesOf(i) == {i.t} \cup ToSet(i.want)
Untyped(fns) ==
  \E f \in ToSet(fns) :
    \/ "none" \in ToSet(f.args) \cup {f.result}
    \/ \E block \in ToSet(f.blocks) : \E i \in ToSet(block) : "none" \in TypesOf(i)

\* The functions of the module of a program; a variable outside of any function
\* has nowhere to be.
Module(program, b) ==
  LET ok == (\A d \in ToSet(program.ch) : d.k # "VarChunk") /\ b.stop = "" /\ ~Untyped(b.fns)
  IN  [fns |-> IF ok THEN b.fns ELSE <<>>, stop |-> IF ok THEN "" ELSE "undefined"]

translate(program, types, backwards) ==
  LET nodes == Visited(program)
      dec   == [i \in program.id .. program.id + Len(nodes) - 1 |-> nodes[i - program.id + 1]]
  IN  Module(program, Translate(program, BuilderStart, [dec |-> dec, types |-> types, backwards |-> backwards]))
================================================================================
