---------------------------------- MODULE Ast ----------------------------------
(***************************************************************************)
(* The abstract syntax tree (src/src/ast).  Every node is one record       *)
(*   k     its class                                                       *)
(*   name  the symbol it holds: an identifier, an operator, a string       *)
(*   val   the integer it holds                                            *)
(*   id    its address; 0 until the node is placed in memory               *)
(*   def   the address of its definition site; 0 is nullptr                *)
(*   ch    the nodes it owns, in the order the default visitor sees them   *)
(* A constructor below is named for its class.  Locations are left out.    *)
(***************************************************************************)
EXTENDS Integers, Sequences, FiniteSets, SequencesExt

Node(k, name, val, ch) ==
  [k |-> k, name |-> name, val |-> val, id |-> 0, def |-> 0, ch |-> ch]

\* An optional child that is a null pointer.
Null == Node("Null", "", 0, <<>>)
IsNull(e) == e.k = "Null"

------------------------------------ (* Var *)
SimpleVar(name)          == Node("SimpleVar", name, 0, <<>>)
FieldVar(var, name)      == Node("FieldVar", name, 0, <<var>>)
SubscriptVar(var, index) == Node("SubscriptVar", "", 0, <<var, index>>)

------------------------------------ (* Exp *)
NilExp                          == Node("NilExp", "", 0, <<>>)
IntExp(value)                   == Node("IntExp", "", value, <<>>)
StringExp(value)                == Node("StringExp", value, 0, <<>>)
CallExp(name, args)             == Node("CallExp", name, 0, args)
OpExp(left, oper, right)        == Node("OpExp", oper, 0, <<left, right>>)
RecordExp(type_name, fields)    == Node("RecordExp", "", 0, <<type_name>> \o fields)
SeqExp(exps)                    == Node("SeqExp", "", 0, exps)
AssignExp(var, exp)             == Node("AssignExp", "", 0, <<var, exp>>)
IfThenElse(test, then, else)    == Node("IfExp", "", 0, <<test, then, else>>)
WhileExp(test, body)            == Node("WhileExp", "", 0, <<test, body>>)
ForExp(vardec, hi, body)        == Node("ForExp", "", 0, <<vardec, hi, body>>)
BreakExp                        == Node("BreakExp", "", 0, <<>>)
LetExp(chunks, body)            == Node("LetExp", "", 0, <<chunks, body>>)
ArrayExp(type_name, size, init) == Node("ArrayExp", "", 0, <<type_name, size, init>>)
CastExp(exp, ty)                == Node("CastExp", "", 0, <<exp, ty>>)
FieldInit(name, init)           == Node("FieldInit", name, 0, <<init>>)
\* The other constructor of the class: no else clause is the empty sequence.
IfExp(test, then)               == IfThenElse(test, then, SeqExp(<<>>))

------------------------------------ (* Ty *)
NameTy(name)       == Node("NameTy", name, 0, <<>>)
RecordTy(fields)   == Node("RecordTy", "", 0, fields)
ArrayTy(base_type) == Node("ArrayTy", "", 0, <<base_type>>)
Field(name, type_name) == Node("Field", name, 0, <<type_name>>)

------------------------------------ (* Dec *)
VarDec(name, type_name, init) == Node("VarDec", name, 0, <<type_name, init>>)
FunctionDec(name, formals, result, body) ==
  Node("FunctionDec", name, 0, <<formals, result, body>>)
TypeDec(name, ty) == Node("TypeDec", name, 0, <<ty>>)

\* A chunk is a run of declarations of one sort: kind is "VarChunk",
\* "FunctionChunk" or "TypeChunk".
Chunk(kind, decs)  == Node(kind, "", 0, decs)
VarChunk(decs)     == Chunk("VarChunk", decs)
ChunkList(chunks)  == Node("ChunkList", "", 0, chunks)
emplace_back(chunk, dec)  == [chunk EXCEPT !.ch = Append(@, dec)]
push_front(list, chunk)   == [list EXCEPT !.ch = <<chunk>> \o @]
splice_front(list, other) == [list EXCEPT !.ch = other.ch \o @]

------------------------------------ (* accessors *)
var_get(e)      == e.ch[1]
exp_get(e)      == e.ch[2]
index_get(e)    == e.ch[2]
left_get(e)     == e.ch[1]
right_get(e)    == e.ch[2]
fields_get(e)   == Tail(e.ch)
test_get(e)     == e.ch[1]
thenclause_get(e) == e.ch[2]
elseclause_get(e) == e.ch[3]
while_body_get(e) == e.ch[2]
vardec_get(e)   == e.ch[1]
hi_get(e)       == e.ch[2]
for_body_get(e) == e.ch[3]
chunks_get(e)   == e.ch[1]
let_body_get(e) == e.ch[2]
array_type_get(e) == e.ch[1]
size_get(e)     == e.ch[2]
array_init_get(e) == e.ch[3]
field_init_get(e) == e.ch[1]
type_name_get(e) == e.ch[1]
init_get(e)     == e.ch[2]
formals_get(e)  == e.ch[1]
result_get(e)   == e.ch[2]
body_get(e)     == e.ch[3]
ty_get(e)       == e.ch[1]
base_type_get(e) == e.ch[1]

------------------------------------ (* traversal *)
\* What f makes of the elements of a collection, and the sequences it makes, put
\* together.
Each(es, f(_))   == FoldLeft(LAMBDA r, e : Append(r, f(e)), <<>>, es)
Joined(es, f(_)) == FoldLeft(LAMBDA r, e : r \o f(e), <<>>, es)

Owned(e) == SelectSeq(e.ch, LAMBDA c : ~IsNull(c))

\* The nodes GenDefaultVisitor reaches from e, in the order it reaches them.
RECURSIVE Visited(_)
Visited(e) == <<e>> \o Joined(Owned(e), LAMBDA c : Visited(c))

Decs   == {"VarDec", "FunctionDec", "TypeDec"}
Chunks == {"VarChunk", "FunctionChunk", "TypeChunk"}
NodesOf(e) == ToSet(Visited(e))

------------------------------------ (* memory *)
\* Nodes are not copyable: each one built has an address of its own.  Placed(e, n)
\* is e with its nodes at fresh addresses from n on.
RECURSIVE PlacedFrom(_, _)
PlacedFrom(e, n) ==
  LET add(r, c) == LET p == PlacedFrom(c, r.next)
                   IN  [ch |-> Append(r.ch, p.node), next |-> p.next]
      owned == FoldLeft(add, [ch |-> <<>>, next |-> n + 1], e.ch)
  IN  IF IsNull(e) THEN [node |-> e, next |-> n]
      ELSE [node |-> [e EXCEPT !.id = n, !.ch = owned.ch], next |-> owned.next]
Placed(e, n) == PlacedFrom(e, n).node
================================================================================
