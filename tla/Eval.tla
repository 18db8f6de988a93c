----------------------------------- MODULE Eval --------------------------------
(***************************************************************************)
(* What the program that llvmtranslate::Translator makes of a tree does    *)
(* (src/src/llvmtranslate/translator.cc).  The state of the program is     *)
(*   v      value_, the value of the last expression                       *)
(*   env    locals_ of the running function: a declaration's cell          *)
(*   mem    the cells: local variables, fields and elements                *)
(*   out    what was printed                                               *)
(*   stop   "", or why the code in turn is left: a loop's address, after a *)
(*          break, or "exit", "undefined" or "fuel"                        *)
(*   fuel   the calls and turns of loops left, a bound of the model        *)
(* c holds dec, the node at an address, types, what the type checker left, *)
(* and source.  With source, for loops and comparisons of strings mean     *)
(* what the language says they mean, and are not left to the desugaring.   *)
(***************************************************************************)
EXTENDS TypeChecker, Runtime

CONSTANTS MaxInteger,  \* the greatest integer of the machine
          MaxFuel,     \* bound: calls and turns of loops in a run
          Bytes        \* the bytes of a string literal, by its name
ASSUME MaxInteger \in Nat /\ MaxFuel \in Nat

Nil == <<"ptr", 0>>
\* A call that returns nothing has no value to store, and what was never stored
\* may be anything.
NoValue == <<"void", 0>>
Garbage == <<"garbage", 0>>
EvalStart == [v |-> Unit, env |-> <<>>, mem |-> <<>>, out |-> <<>>, stop |-> "", fuel |-> MaxFuel]

Goes(s)      == s.stop = ""
Value(s, v)  == [s EXCEPT !.v = v]
Stops(s, how) == [s EXCEPT !.stop = how]
Leaves(e)    == "break " \o ToString(e.id)

\* Integers wrap around.
Wrapped(n) == ((n + MaxInteger + 1) % (2 * (MaxInteger + 1))) - (MaxInteger + 1)
Truth(b)   == IntOf(IF b THEN 1 ELSE 0)
Quotient(a, b) == LET q == (IF a < 0 THEN -a ELSE a) \div (IF b < 0 THEN -b ELSE b)
                  IN  IF (a < 0) = (b < 0) THEN q ELSE -q

Holding(s, cell, v) == [s EXCEPT !.mem[cell] = v]

\* A local variable is stored where it is declared.  Its cell is one for the whole
\* call in the code, and is overwritten; nobody refers to the cell of another turn.
create_alloca(s, e, v) ==
  IF v = NoValue THEN Stops(s, "undefined")
  ELSE [s EXCEPT !.mem = Append(@, v), !.env = (e.id :> (Len(s.mem) + 1)) @@ @]

\* Cells n in a row.
Allocated(s, n, v) ==
  [s EXCEPT !.mem = @ \o [i \in 1 .. n |-> v], !.v = <<"ptr", Len(s.mem) + 1>>]

RECURSIVE Eval(_, _, _)

\* Each element, for what it does; the value is the last one's.
EvalAll(es, s, c) == FoldLeft(LAMBDA r, e : IF Goes(r) THEN Eval(e, r, c) ELSE r, s, es)

\* The values of several expressions, from left to right.
Values(es, s, c) ==
  FoldLeft(LAMBDA r, e : IF ~Goes(r.s) THEN r
                         ELSE LET q == Eval(e, r.s, c) IN [s |-> q, vs |-> Append(r.vs, q.v)],
           [s |-> s, vs |-> <<>>], es)

------------------------------------ (* variables *)
RecordType(e, c) == actual(type_get(c.types, e), c.types.heap)

\* The cell of a variable is the value of the result.  A field of nil has none,
\* nor has an element out of an array.
access_var(e, s, c) ==
  CASE e.k = "SimpleVar" ->
         IF e.def \in DOMAIN s.env THEN Value(s, s.env[e.def]) ELSE Stops(s, "undefined")
    [] e.k = "SubscriptVar" ->
         LET r == Values(<<var_get(e), index_get(e)>>, s, c)
             at == r.vs[1][2] + r.vs[2][2]
         IN  IF ~Goes(r.s) THEN r.s
             ELSE IF at \in DOMAIN s.mem THEN Value(r.s, at) ELSE Stops(r.s, "undefined")
    [] e.k = "FieldVar" ->
         LET r == Eval(var_get(e), s, c)
         IN  IF ~Goes(r) THEN r
             ELSE IF r.v = Nil THEN Stops(r, "undefined")
             ELSE Value(r, r.v[2] - 1 + field_index(RecordType(var_get(e), c), e.name, c.types.heap))

\* The three kinds of variables are loaded in the same way.
EvalVar(e, s, c) ==
  LET r == access_var(e, s, c) IN IF Goes(r) THEN Value(r, r.mem[r.v]) ELSE r

EvalAssignExp(e, s, c) ==
  LET exp == Eval(exp_get(e), s, c)
      at  == access_var(var_get(e), exp, c)
  IN  IF ~Goes(exp) THEN exp ELSE IF ~Goes(at) THEN at
      ELSE Value(Holding(at, at.v, exp.v), Unit)

\* The fields are stored in the order of the expression, by name.
EvalRecordExp(e, s, c) ==
  LET record == RecordType(type_name_get(e), c)
      base   == Allocated(s, Len(c.types.heap[record.at]), Garbage)
      at(name) == base.v[2] - 1 + field_index(record, name, c.types.heap)
      store(r, f) ==
        LET q == Eval(field_init_get(f), r, c)
        IN  IF ~Goes(r) THEN r ELSE IF ~Goes(q) THEN q ELSE Holding(q, at(f.name), q.v)
  IN  Value(FoldLeft(store, base, fields_get(e)), base.v)

init_array(s, n, v) == IF n < 0 THEN Stops(s, "exit") ELSE Allocated(s, n, v)

\* The order of the two is open (see TranslateArray); but no array of an accepted
\* program is ever made, for its initial value must be such an array (CheckArrayExp).
EvalArrayExp(e, s, c) ==
  LET r == Values(<<size_get(e), array_init_get(e)>>, s, c)
  IN  IF Goes(r.s) THEN init_array(r.s, r.vs[1][2], r.vs[2]) ELSE r.s

------------------------------------ (* operators *)
IntOperation(oper, a, b) ==
  CASE oper = "+"  -> IntOf(Wrapped(a + b))
    [] oper = "-"  -> IntOf(Wrapped(a - b))
    [] oper = "*"  -> IntOf(Wrapped(a * b))
    [] oper = "/"  -> IntOf(Wrapped(Quotient(a, b)))
    [] oper = "="  -> Truth(a = b)
    [] oper = "<>" -> Truth(a # b)
    [] oper = "<"  -> Truth(a < b)
    [] oper = "<=" -> Truth(a <= b)
    [] oper = ">"  -> Truth(a > b)
    [] oper = ">=" -> Truth(a >= b)

\* Pointers are compared; of two strings it is not said which ones are shared.
EvalOpExp(e, s, c) ==
  LET r == Values(<<left_get(e), right_get(e)>>, s, c)
      a == r.vs[1]
      b == r.vs[2]
  IN  CASE ~Goes(r.s) -> r.s
        [] Goes(r.s) /\ a[1] = "str" /\ b[1] = "str" ->
             IF c.source THEN Value(r.s, IntOperation(e.name, tc_strcmp(a[2], b[2]).v[2], 0))
             ELSE Stops(r.s, "undefined")
        [] Goes(r.s) /\ a[1] = "int" /\ b[1] = "int" ->
             IF e.name = "/" /\ b[2] = 0 THEN Stops(r.s, "undefined")
             ELSE Value(r.s, IntOperation(e.name, a[2], b[2]))
        [] Goes(r.s) /\ a[1] = "ptr" /\ b[1] = "ptr" /\ e.name \in {"=", "<>"} ->
             Value(r.s, Truth((a = b) = (e.name = "=")))
        [] OTHER -> Stops(r.s, "undefined")

------------------------------------ (* control *)
EvalSeqExp(e, s, c) == EvalAll(e.ch, Value(s, Unit), c)

EvalIfExp(e, s, c) ==
  LET r == Eval(test_get(e), s, c)
  IN  IF ~Goes(r) THEN r
      ELSE IF r.v[1] # "int" THEN Stops(r, "undefined")
      ELSE Eval(IF r.v[2] # 0 THEN thenclause_get(e) ELSE elseclause_get(e), r, c)

EvalWhileExp(e, s, c) ==
  LET test == Eval(test_get(e), s, c)
      turn == Eval(while_body_get(e), [test EXCEPT !.fuel = @ - 1], c)
  IN  CASE ~Goes(test) -> test
        [] Goes(test) /\ test.v[2] = 0 -> test
        [] Goes(test) /\ test.v[2] # 0 ->
             IF test.fuel = 0 THEN Stops(test, "fuel")
             ELSE IF turn.stop = Leaves(e) THEN Stops(turn, "")
             ELSE IF Goes(turn) THEN Eval(e, turn, c) ELSE turn

\* The loop a break leaves is a while loop: the others are gone.
EvalBreakExp(e, s, c) ==
  IF e.def \notin DOMAIN c.dec \/ (c.dec[e.def].k # "WhileExp" /\ ~c.source)
  THEN Stops(s, "undefined") ELSE Stops(s, Leaves(c.dec[e.def]))

------------------------------------ (* functions *)
\* Only variables need code where they are declared.
EvalVarDec(e, s, c) ==
  LET r == Eval(init_get(e), s, c) IN IF Goes(r) THEN create_alloca(r, e, r.v) ELSE r

\* Each formal is stored in a local variable of the call.
visit_function_dec_body(e, s, args, c) ==
  LET formals == formals_get(e).ch
      entered == FoldLeft(LAMBDA r, i : create_alloca(r, formals[i], args[i]),
                          s, [i \in DOMAIN formals |-> i])
      left    == Eval(body_get(e), entered, c)
  IN  [left EXCEPT !.env = s.env, !.v = IF IsNull(result_get(e)) THEN NoValue ELSE @]

CallPrimitive(f, s, args) ==
  LET r == Primitive(f.name, args)
  IN  IF Len(args) # Len(Signature(f.name))
         \/ \E i \in DOMAIN args : args[i][1] # Signature(f.name)[i]
      THEN Stops(s, "undefined")
      ELSE [s EXCEPT !.v = IF IsNull(result_get(f)) THEN NoValue ELSE r.v, !.stop = r.stop, !.out = @ \o r.out]

\* The variables a function captures are handed down with the arguments, whose
\* pointers the caller has; LambdaLifting models which ones.
EvalCallExp(e, s, c) ==
  LET f    == c.dec[e.def]
      args == Values(e.ch, s, c)
      call == [args.s EXCEPT !.fuel = @ - 1]
  IN  IF e.def \notin DOMAIN c.dec THEN Stops(s, "undefined")
      ELSE IF ~Goes(args.s) THEN args.s
      ELSE IF args.s.fuel = 0 THEN Stops(args.s, "fuel")
      ELSE IF IsNull(body_get(f)) THEN CallPrimitive(f, call, args.vs)
      ELSE visit_function_dec_body(f, call, args.vs, c)

------------------------------------ (* the source language *)
\* A for loop: its bounds are evaluated once, and its index has each value from
\* the one to the other.
SourceFor(e, s, c) ==
  LET index  == vardec_get(e)
      bounds == Values(<<init_get(index), hi_get(e)>>, s, c)
      turn(r, i) ==
        IF ~Goes(r) THEN r
        ELSE IF r.fuel = 0 THEN Stops(r, "fuel")
        ELSE Eval(for_body_get(e), create_alloca([r EXCEPT !.fuel = @ - 1], index, IntOf(i)), c)
      lo == bounds.vs[1][2]
      hi == bounds.vs[2][2]
      last == IF hi - lo > MaxFuel THEN lo + MaxFuel ELSE hi
      left == FoldLeft(turn, bounds.s, [i \in 1 .. (last - lo + 1) |-> lo + i - 1])
  IN  CASE ~Goes(bounds.s) -> bounds.s
        [] Goes(bounds.s) /\ lo > hi -> Value(bounds.s, Unit)
        [] OTHER -> IF left.stop = Leaves(e) THEN Stops(left, "") ELSE left

Eval(e, s, c) ==
  CASE e.k \in {"SimpleVar", "FieldVar", "SubscriptVar"} -> EvalVar(e, s, c)
    [] e.k = "NilExp"    -> Value(s, Nil)
    [] e.k = "IntExp"    -> Value(s, IntOf(e.val))
    [] e.k = "StringExp" -> Value(s, StrOf(Bytes[e.name]))
    [] e.k = "RecordExp" -> EvalRecordExp(e, s, c)
    [] e.k = "OpExp"     -> EvalOpExp(e, s, c)
    [] e.k = "SeqExp"    -> EvalSeqExp(e, s, c)
    [] e.k = "AssignExp" -> EvalAssignExp(e, s, c)
    [] e.k = "IfExp"     -> EvalIfExp(e, s, c)
    [] e.k = "WhileExp"  -> EvalWhileExp(e, s, c)
    [] e.k = "BreakExp"  -> EvalBreakExp(e, s, c)
    [] e.k = "ArrayExp"  -> EvalArrayExp(e, s, c)
    [] e.k = "CastExp"   -> Eval(e.ch[1], s, c)
    [] e.k = "CallExp"   -> EvalCallExp(e, s, c)
    [] e.k = "VarDec"    -> EvalVarDec(e, s, c)
    [] e.k = "ForExp"    -> IF c.source THEN SourceFor(e, s, c) ELSE Stops(s, "undefined")
    [] e.k \in {"LetExp", "ChunkList", "VarChunk"} -> EvalAll(e.ch, s, c)
    [] OTHER -> s

\* What a program does: _main is called, and what was printed before the end.  A
\* list of declarations without it is not linked.
Ran(s) == [out |-> s.out, stop |-> s.stop]
Meaning(program, types, source) ==
  LET nodes == Visited(program)
      dec   == [i \in program.id .. program.id + Len(nodes) - 1 |-> nodes[i - program.id + 1]]
      main  == {e \in ToSet(nodes) : e.k = "FunctionDec" /\ e.name = "_main"}
  IN  IF Cardinality(main) # 1
      THEN [out |-> <<>>, stop |-> IF main = {} THEN "no main" ELSE "undefined"]
      ELSE Ran(Eval(body_get(CHOOSE e \in main : TRUE), EvalStart,
                    [dec |-> dec, types |-> types, source |-> source]))
================================================================================
