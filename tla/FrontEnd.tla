---------------------------------- MODULE FrontEnd -----------------------------
(***************************************************************************)
(* The passes of tc on one tree.  Each task changes ast::tasks::           *)
(* the_program, which is a unique pointer: a pass that makes another tree  *)
(* frees the one it copied, and the addresses of its nodes with it.  Tasks *)
(* run in any order their dependencies allow, each at most once.           *)
(***************************************************************************)
EXTENDS TreeBinder, Renamer, Eval, Translator, Printer, CallGraph, Desugar, TigerTasks

CONSTANTS Programs  \* the text of each, with that of the prelude tc is given

VARIABLES
  source,  \* the program, and the prelude: builtin, a file's or, with -X, none
  tree,    \* the_program
  types,   \* what the type checker left in the tree
  done,    \* the tasks that ran
  counter, \* of misc::symbol::fresh
  status,  \* "running", or how tc ended: "rejected", "undefined", or "refused",
           \* "ice" or "crash" when it was a tree tc made that had an error
  said,    \* history: what the program means, once it is accepted
  does,    \* what the program tc makes does, once it is made
  code     \* and its functions, the module of llvmtranslate::tasks

vars == <<source, tree, types, done, counter, status, said, does, code>>

Unknown == [out |-> <<>>, stop |-> "unknown"]
NoMeta  == [meta |-> <<>>, import |-> <<>>]

Init ==
  /\ source \in Programs
  /\ tree = Null /\ types = CheckStart /\ done = {} /\ counter = 0
  /\ status = "running" /\ said = Unknown /\ does = Unknown /\ code = <<>>

-----------------------------------------------------------------------------
\* A task with several implementations is done when one of them is; what escapes
\* is for LambdaLifting, and no pass below reads it.
Provided(t) == t \in done \cup {"escapes-compute"} \/ (t \in DisjunctiveTasks /\ ToSet(TaskTable[t]) \cap done # {})

Starts(t) ==
  /\ status = "running" /\ t \notin done
  /\ \A d \in ToSet(TaskTable[t]) : Provided(d)
  /\ done' = done \cup {t}

Ends_(how) == /\ status' = how
              /\ UNCHANGED <<tree, types, counter, said, does, code>>

\* Placed numbers the nodes in the order they are visited.
NodeAt(e) == LET nodes == Visited(e)
             IN  [i \in e.id .. e.id + Len(nodes) - 1 |-> nodes[i - e.id + 1]]

\* bound: addresses of a program.  A new tree is not where the one it replaces is,
\* and is where the one before may have been.
Region == 1000
Elsewhere(e) == Placed(e, IF tree.id > Region THEN 1 ELSE Region + 1)

\* An expression is the program with the declarations of the prelude, if there is
\* one.  A list of declarations is the program as it is.
PreludeChunks == IF source.prelude = <<>> THEN Null ELSE program(source.prelude, NoMeta).ns[1]
ReadAs(r) ==
  IF r.i = 0 THEN status' = "rejected" /\ UNCHANGED tree
  ELSE /\ status' = status
       /\ tree' = Elsewhere(IF Head(r.ns).k = "ChunkList" THEN Head(r.ns)
                            ELSE WithMain(PreludeChunks, Head(r.ns)))

parse ==
  /\ Starts("parse") /\ UNCHANGED <<source, types, counter, said, does, code>>
  /\ ReadAs(program(source.text, NoMeta))

BoundAs(s) ==
  IF s.out # "" THEN Ends_("rejected")
  ELSE tree' = def_set(tree, s.def) /\ UNCHANGED <<types, counter, status, said, does, code>>

bindings_compute ==
  Starts("bindings-compute") /\ UNCHANGED source /\ BoundAs(Bind(tree, BinderStart))

TypedAs(s) ==
  CASE s.out = "undefined" -> Ends_("undefined")
    [] s.out = "exit" \/ (s.out = "" /\ s.errors) -> Ends_("rejected")
    [] s.out = "" /\ ~s.errors ->
         /\ types' = s /\ said' = Meaning(tree, s, TRUE)
         /\ UNCHANGED <<tree, counter, status, does, code>>

types_compute ==
  Starts("types-compute") /\ UNCHANGED source /\ TypedAs(CheckVisit(tree, CheckStart, NodeAt(tree)))

rename ==
  LET dec == NodeAt(tree)
      r   == UniqueNames(tree, counter, dec)
  IN  /\ Starts("rename") /\ UNCHANGED <<source, types, status, said, does, code>>
      /\ tree' = name_set(tree, r.names, dec) /\ counter' = r.n

\* A copy without definition sites and types.
Copied(t, copy) ==
  /\ Starts(t) /\ UNCHANGED <<source, counter, status, said, does, code>>
  /\ tree' = Elsewhere(copy) /\ types' = CheckStart

\* A copy that is bound and typed again.  The binder and, of a type or field that is
\* not there, the checker leave with an error of the program, and the tree is not
\* replaced; a mismatch of types is an error of the compiler.
Replaces(e, s) == tree' = e /\ types' = s /\ UNCHANGED <<counter, status, said, does, code>>
TypedAgain(e, s) ==
  CASE s.out = "undefined" -> Ends_("crash")
    [] s.out = "exit" -> Ends_("refused")
    [] s.out = "" -> IF s.errors THEN Ends_("ice") ELSE Replaces(e, s)
BoundAgain(e, b) ==
  IF b.out # "" THEN Ends_("refused")
  ELSE LET bound == def_set(e, b.def) IN TypedAgain(bound, CheckVisit(bound, CheckStart, NodeAt(bound)))
bind_and_types_check(e) == BoundAgain(e, Bind(e, BinderStart))

Checked(t, copy) ==
  Starts(t) /\ UNCHANGED source /\ bind_and_types_check(Elsewhere(copy))

\* The nodes that hold no type make the passes that read types fail.
Typed == \A e \in NodesOf(tree) : e.k = "OpExp" => type_get(types, left_get(e)) # NullType
Unready(t) == /\ Starts(t) /\ ~Typed /\ UNCHANGED source /\ Ends_("undefined")

Desugared ==
  raw_desugar(tree, [for |-> "desugar-for" \in done, cmp |-> "desugar-string-cmp" \in done,
                     strings |-> {i \in DOMAIN types.ty : types.ty[i] = StringType}])

clone_        == Copied("clone", clone(tree))
desugar       == IF Typed THEN Checked("desugar", Desugared) ELSE Unready("desugar")
raw_desugar_  == IF Typed THEN Copied("raw-desugar", Desugared) ELSE Unready("raw-desugar")
\* Neither changes anything: the inliner and the pruner visit as the cloner does.
inline_expand == Checked("inline", clone(tree))
prune_        == Checked("prune", clone(tree))

desugar_for        == Starts("desugar-for") /\ UNCHANGED <<source, tree, types, counter, status, said, does, code>>
desugar_string_cmp == Starts("desugar-string-cmp")
                      /\ UNCHANGED <<source, tree, types, counter, status, said, does, code>>

\* The tree is translated; without types it cannot be.  Which argument of a call is
\* evaluated first is up to the compiler tc was built with, and only an array asks.
Orders == IF \E e \in NodesOf(tree) : e.k = "ArrayExp" THEN BOOLEAN ELSE {FALSE}
Emits(module) ==
  IF module.stop # "" THEN Ends_(module.stop)
  ELSE /\ does' = Meaning(tree, types, FALSE) /\ code' = module.fns
       /\ UNCHANGED <<tree, types, counter, status, said>>

llvm_compute ==
  /\ Starts("llvm-compute") /\ UNCHANGED source
  /\ IF ~Typed \/ DOMAIN types.ty = {} THEN Ends_("undefined")
     ELSE \E backwards \in Orders : Emits(translate(tree, types, backwards))

Next ==
  \/ parse \/ bindings_compute \/ types_compute \/ rename
  \/ clone_ \/ desugar \/ raw_desugar_ \/ inline_expand \/ prune_
  \/ desugar_for \/ desugar_string_cmp \/ llvm_compute

Spec == Init /\ [][Next]_vars
================================================================================
