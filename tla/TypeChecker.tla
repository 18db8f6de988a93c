------------------------------- MODULE TypeChecker -----------------------------
(***************************************************************************)
(* type::TypeChecker (src/src/type/type-checker.cc).  dec is the node at   *)
(* an address.  The state of a visit is                                    *)
(*   ty       type_ of the nodes, by address                               *)
(*   created  created_type_ of declarations and of the types they declare  *)
(*   heap     what the types hold                                          *)
(*   ro       var_read_only_                                               *)
(*   open     the variables being visited, to tell an endless recursion    *)
(*   errors   was an error recorded                                        *)
(*   out      "", or how the visit was cut short: "exit", after an error   *)
(*            that is not recovered from, or "undefined", where the code   *)
(*            uses a null pointer, an element that is not there or more    *)
(*            stack than there is                                          *)
(***************************************************************************)
EXTENDS Ast, TLC

-----------------------------------------------------------------------------
(***************************************************************************)
(* The types (src/src/type).  A type is its class and, unless it is a      *)
(* singleton, the address of the node it was created for; heap is what     *)
(* those hold:                                                             *)
(*   Named     the type it is a name of, null until it is set              *)
(*   Record    a sequence of fields                                        *)
(*   Array     the type of the elements                                    *)
(*   Function  the formals and the result                                  *)
(***************************************************************************)
Builtin(c)       == [c |-> c, at |-> 0]
NullType         == Builtin("null")
IntType          == Builtin("Int")
StringType       == Builtin("String")
VoidType         == Builtin("Void")
NilType          == Builtin("Nil")
Named(at)        == [c |-> "Named", at |-> at]
Record(at)       == [c |-> "Record", at |-> at]
Array(at)        == [c |-> "Array", at |-> at]
Function(at)     == [c |-> "Function", at |-> at]
FieldOf(name, t) == [name |-> name, type |-> t]

\* What happens to a program that calls a method of t: a name without a type
\* exits with an error, and there is no object behind a null reference.
Fault(t, heap) ==
  CASE t.c = "null" -> "undefined"
    [] t.c = "Named" /\ heap[t.at].c = "null" -> "exit"
    [] OTHER -> ""

actual(t, heap) == IF t.c = "Named" THEN heap[t.at] ELSE t

\* No name is the name of itself, by way of other names.
RECURSIVE SoundFrom(_, _, _)
SoundFrom(t, prev, heap) ==
  heap[t.at].c = "Named" => heap[t.at] \notin prev /\ SoundFrom(heap[t.at], prev \cup {heap[t.at]}, heap)
sound(t, heap) == SoundFrom(t, {t}, heap)

field_names(t, heap) == {heap[t.at][i].name : i \in DOMAIN heap[t.at]}

\* The index of the first field of a name.
field_index(t, name, heap) ==
  CHOOSE i \in DOMAIN heap[t.at] :
    heap[t.at][i].name = name /\ \A j \in 1 .. i - 1 : heap[t.at][j].name # name
field_type(t, name, heap) == heap[t.at][field_index(t, name, heap)].type

\* A record is compatible with nil, and nil is not with a record.
compatible_with(t, other, heap) ==
  \/ actual(t, heap).c = "Record" /\ actual(other, heap) = NilType
  \/ actual(t, heap) = actual(other, heap)

-----------------------------------------------------------------------------

CheckStart ==
  [ty |-> <<>>, created |-> <<>>, heap |-> <<>>, ro |-> {}, open |-> {},
   errors |-> FALSE, out |-> ""]

type_get(s, e)    == IF e.id \in DOMAIN s.ty THEN s.ty[e.id] ELSE NullType
created_get(s, id) == IF id \in DOMAIN s.created THEN s.created[id] ELSE NullType
type_set(s, e, t) == IF s.out # "" THEN s ELSE [s EXCEPT !.ty = (e.id :> t) @@ @]
type_default(s, e, t) == IF type_get(s, e) = NullType THEN type_set(s, e, t) ELSE s
created_type_default(s, e, t) ==
  type_default(IF created_get(s, e.id) = NullType
               THEN [s EXCEPT !.created = (e.id :> t) @@ @] ELSE s, e, t)
Holds(s, e, what) == [s EXCEPT !.heap = (e.id :> what) @@ @]

error(s)                == IF s.out # "" THEN s ELSE [s EXCEPT !.errors = TRUE]
error_and_recover(s, e) == error(type_set(s, e, NilType))
Stop(s, how)            == IF s.out # "" THEN s ELSE [s EXCEPT !.out = how]

\* Compatible types, or a mismatch is reported.
check_types(s, t1, t2) ==
  CASE s.out # ""            -> s
    [] Fault(t2, s.heap) # "" -> Stop(s, Fault(t2, s.heap))
    [] Fault(t1, s.heap) # "" -> Stop(s, Fault(t1, s.heap))
    [] OTHER -> IF compatible_with(t1, t2, s.heap) THEN s ELSE error(s)

RECURSIVE CheckVisit(_, _, _)

\* The type of a node, which is visited if it has none.
type(e, s, dec) == IF type_get(s, e) = NullType THEN CheckVisit(e, s, dec) ELSE s

check_type(e, s, dec, expected) ==
  LET r == type(e, s, dec)
      t == type_get(r, e)
  IN  CASE r.out # ""             -> r
        [] Fault(t, r.heap) # ""   -> Stop(r, Fault(t, r.heap))
        [] actual(t, r.heap) # expected -> error_and_recover(r, e)
        [] OTHER -> r

\* The types of a and b, which must be compatible.
Both(a, b, s, dec) ==
  LET r == type(b, type(a, s, dec), dec)
  IN  check_types(r, type_get(r, a), type_get(r, b))

CheckAll(es, s, dec) == FoldLeft(LAMBDA r, e : CheckVisit(e, r, dec), s, es)
TypeAll(es, s, dec)  == FoldLeft(LAMBDA r, e : type(e, r, dec), s, es)

------------------------------------ (* Var *)
\* Without a definition, in the test of a loop for instance, there is no type.
CheckSimpleVar(e, s, dec) ==
  IF e.def = 0 THEN s
  ELSE LET r == type(dec[e.def], s, dec) IN type_set(r, e, type_get(r, dec[e.def]))

\* The name of a record type is not a record: its fields are out of reach.
CheckFieldVar(e, s, dec) ==
  LET r == type(var_get(e), s, dec)
      t == type_get(r, var_get(e))
  IN  IF t.c # "Record" THEN error_and_recover(r, e)
      ELSE IF e.name \notin field_names(t, r.heap) THEN Stop(r, "exit")
      ELSE type_set(r, e, field_type(t, e.name, r.heap))

CheckSubscriptVar(e, s, dec) ==
  LET r == type(var_get(e), check_type(index_get(e), s, dec, IntType), dec)
      t == type_get(r, var_get(e))
  IN  IF t.c = "Array" THEN type_set(r, e, r.heap[t.at]) ELSE error_and_recover(r, e)

------------------------------------ (* Exp *)
\* The fields are compared by position, as many as are given; what is declared
\* must be a record, and not the name of one.
CheckRecordExp(e, s, dec) ==
  LET name   == type_name_get(e)
      record == type_get(s, ty_get(dec[name.def]))
      formal == s.heap[record.at]
      field(r, i) ==
        LET init == field_init_get(fields_get(e)[i])
            q    == type(init, r, dec)
        IN  IF i > Len(formal) THEN Stop(r, "undefined")
            ELSE check_types(q, formal[i].type, type_get(q, init))
      checked ==
        IF record.c # "Record"
        THEN IF fields_get(e) = <<>> THEN error(s) ELSE Stop(error(s), "undefined")
        ELSE FoldLeft(field, s, [i \in DOMAIN fields_get(e) |-> i])
      r == type(name, checked, dec)
  IN  IF name.def = 0 THEN Stop(s, "undefined") ELSE type_set(r, e, type_get(r, name))

\* Any two compatible types can be compared for equality; an order has integers
\* or strings.
CheckOpExp(e, s, dec) ==
  LET ints  == check_type(right_get(e), check_type(left_get(e), s, dec, IntType), dec, IntType)
      both  == Both(left_get(e), right_get(e), s, dec)
      left  == type_get(both, left_get(e))
      order == IF both.out # "" \/ actual(left, both.heap) \in {IntType, StringType} THEN both
               ELSE error_and_recover(both, e)
  IN  type_set(CASE e.name \in {"+", "-", "*", "/"} -> ints
                 [] e.name \in {"=", "<>"} -> both
                 [] OTHER -> order, e, IntType)

\* Mutant: the arguments are counted and not compared.
CheckCallCounted(e, s, dec) ==
  LET f == created_get(s, e.def)
  IN  IF e.def = 0 \/ f.c # "Function" THEN Stop(s, "undefined")
      ELSE IF Len(e.ch) # Len(s.heap[f.at].formals) THEN type_set(error(s), e, s.heap[f.at].result)
      ELSE type_set(TypeAll(e.ch, s, dec), e, s.heap[f.at].result)

CheckCallExp(e, s, dec) ==
  LET f       == created_get(s, e.def)
      formals == s.heap[f.at].formals
      arg(r, i) ==
        LET q == type(e.ch[i], r, dec)
        IN  check_types(q, type_get(q, e.ch[i]), formals[i].type)
  IN  IF e.def = 0 \/ f.c # "Function" THEN Stop(s, "undefined")
      ELSE IF Len(e.ch) # Len(formals) THEN type_set(error(s), e, s.heap[f.at].result)
      ELSE type_set(FoldLeft(arg, s, [i \in DOMAIN e.ch |-> i]), e, s.heap[f.at].result)

\* The array, and not its elements, is compared with the initial value.
CheckArrayExp(e, s, dec) ==
  LET size == type(size_get(e), s, dec)
      r == Both(array_type_get(e), array_init_get(e),
                check_types(size, type_get(size, size_get(e)), IntType), dec)
  IN  type_set(r, e, type_get(r, array_type_get(e)))

CheckSeqExp(e, s, dec) ==
  LET r == TypeAll(e.ch, s, dec)
  IN  type_set(r, e, IF e.ch = <<>> THEN VoidType ELSE type_get(r, Last(e.ch)))

CheckAssignExp(e, s, dec) ==
  LET var == var_get(e)
      r   == IF var.k = "SimpleVar" /\ var.def \in s.ro THEN error(s) ELSE s
  IN  type_set(Both(var, exp_get(e), r, dec), e, VoidType)

CheckIfExp(e, s, dec) ==
  LET r == Both(thenclause_get(e), elseclause_get(e),
                check_type(test_get(e), s, dec, IntType), dec)
  IN  type_set(r, e, type_get(r, thenclause_get(e)))

CheckWhileExp(e, s, dec) ==
  LET test == check_type(test_get(e), s, dec, IntType)
  IN  type_set(check_type(while_body_get(e), test, dec, VoidType), e, VoidType)

CheckForExp(e, s, dec) ==
  LET lo == check_type(vardec_get(e), s, dec, IntType)
      hi == check_type(hi_get(e), lo, dec, IntType)
      r  == [hi EXCEPT !.ro = @ \cup {vardec_get(e).id}]
  IN  type_set(check_type(for_body_get(e), r, dec, VoidType), e, VoidType)

CheckLetExp(e, s, dec) ==
  LET r == type(let_body_get(e), CheckVisit(chunks_get(e), s, dec), dec)
  IN  type_set(r, e, type_get(r, let_body_get(e)))

------------------------------------ (* Dec *)
\* The type of a function is known before any body of the chunk is visited.
FunctionHeader(e, s, dec) ==
  LET formals == TypeAll(formals_get(e).ch, s, dec)
      r       == IF IsNull(result_get(e)) THEN formals ELSE type(result_get(e), formals, dec)
      what    == [formals |-> [i \in DOMAIN formals_get(e).ch |->
                                 FieldOf(formals_get(e).ch[i].name,
                                         type_get(r, formals_get(e).ch[i]))],
                  result |-> IF IsNull(result_get(e)) THEN VoidType
                             ELSE type_get(r, result_get(e))]
  IN  IF r.out # "" THEN r ELSE created_type_default(Holds(r, e, what), e, Function(e.id))

FunctionBody(e, s, dec) ==
  LET r == type(body_get(e), s, dec)
  IN  IF IsNull(body_get(e)) \/ s.out # "" THEN s
      ELSE check_types(r, type_get(r, body_get(e)), r.heap[e.id].result)

\* Without a type, a variable has that of its value.
CheckVarDec(e, s, dec) ==
  LET entered == [s EXCEPT !.open = @ \cup {e.id}]
      init    == type(init_get(e), entered, dec)
      named   == type(type_name_get(e), entered, dec)
      both    == IF IsNull(init_get(e)) THEN named
                 ELSE LET r == type(init_get(e), named, dec)
                      IN  check_types(r, type_get(r, init_get(e)), type_get(r, type_name_get(e)))
      r       == IF IsNull(type_name_get(e))
                 THEN IF IsNull(init_get(e)) THEN error(entered)
                      ELSE type_set(init, e, type_get(init, init_get(e)))
                 ELSE type_set(both, e, type_get(both, type_name_get(e)))
  IN  IF e.id \in s.open THEN Stop(s, "undefined") ELSE [r EXCEPT !.open = s.open]

TypeHeader(e, s) == created_type_default(Holds(s, e, NullType), e, Named(e.id))

\* What a type is the name of: nothing, if its definition is a name itself.
TypeBody(e, s, dec) ==
  LET r == type(ty_get(e), s, dec)
      q == Holds(r, e, created_get(r, ty_get(e).id))
  IN  IF r.out # "" THEN r ELSE IF sound(Named(e.id), q.heap) THEN q ELSE error_and_recover(q, e)

CheckFunctionChunk(e, s, dec) ==
  LET headers == FoldLeft(LAMBDA r, d : IF r.out # "" THEN r ELSE FunctionHeader(d, r, dec), s, e.ch)
  IN  FoldLeft(LAMBDA r, d : FunctionBody(d, r, dec), headers, e.ch)

CheckTypeChunk(e, s, dec) ==
  LET headers == FoldLeft(LAMBDA r, d : TypeHeader(d, r), s, e.ch)
  IN  FoldLeft(LAMBDA r, d : IF r.out # "" THEN r ELSE TypeBody(d, r, dec), headers, e.ch)

------------------------------------ (* Ty *)
CheckNameTy(e, s) ==
  CASE e.name = "int"    -> type_set(s, e, IntType)
    [] e.name = "string" -> type_set(s, e, StringType)
    [] OTHER -> IF e.def = 0 THEN s ELSE type_set(s, e, created_get(s, e.def))

CheckRecordTy(e, s, dec) ==
  LET r == TypeAll([i \in DOMAIN e.ch |-> type_name_get(e.ch[i])], s, dec)
      fields == [i \in DOMAIN e.ch |-> FieldOf(e.ch[i].name, type_get(r, type_name_get(e.ch[i])))]
  IN  IF r.out # "" THEN r ELSE created_type_default(Holds(r, e, fields), e, Record(e.id))

CheckArrayTy(e, s, dec) ==
  LET r == type(base_type_get(e), s, dec)
  IN  IF r.out # "" THEN r
      ELSE created_type_default(Holds(r, e, type_get(r, base_type_get(e))), e, Array(e.id))

CheckVisit(e, s, dec) ==
  IF s.out # "" THEN s
  ELSE CASE e.k = "SimpleVar"     -> CheckSimpleVar(e, s, dec)
         [] e.k = "FieldVar"      -> CheckFieldVar(e, s, dec)
         [] e.k = "SubscriptVar"  -> CheckSubscriptVar(e, s, dec)
         [] e.k = "NilExp"        -> type_set(s, e, NilType)
         [] e.k = "IntExp"        -> type_set(s, e, IntType)
         [] e.k = "StringExp"     -> type_set(s, e, StringType)
         [] e.k = "RecordExp"     -> CheckRecordExp(e, s, dec)
         [] e.k = "OpExp"         -> CheckOpExp(e, s, dec)
         [] e.k = "CallExp"       -> CheckCallExp(e, s, dec)
         [] e.k = "ArrayExp"      -> CheckArrayExp(e, s, dec)
         [] e.k = "SeqExp"        -> CheckSeqExp(e, s, dec)
         [] e.k = "AssignExp"     -> CheckAssignExp(e, s, dec)
         [] e.k = "IfExp"         -> CheckIfExp(e, s, dec)
         [] e.k = "WhileExp"      -> CheckWhileExp(e, s, dec)
         [] e.k = "ForExp"        -> CheckForExp(e, s, dec)
         [] e.k = "BreakExp"      -> type_set(s, e, VoidType)
         [] e.k = "LetExp"        -> CheckLetExp(e, s, dec)
         [] e.k = "FunctionChunk" -> CheckFunctionChunk(e, s, dec)
         [] e.k = "TypeChunk"     -> CheckTypeChunk(e, s, dec)
         [] e.k = "VarDec"        -> CheckVarDec(e, s, dec)
         [] e.k = "NameTy"        -> CheckNameTy(e, s)
         [] e.k = "RecordTy"      -> CheckRecordTy(e, s, dec)
         [] e.k = "ArrayTy"       -> CheckArrayTy(e, s, dec)
         [] OTHER                 -> CheckAll(e.ch, s, dec)
================================================================================
