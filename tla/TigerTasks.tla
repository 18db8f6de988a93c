------------------------------ MODULE TigerTasks ------------------------------
(***************************************************************************)
(* The tasks of tc: the names each tasks.hh declares, with what they       *)
(* depend on, and what the passes they run need, compute and destroy in    *)
(* the tree and beside it.                                                 *)
(***************************************************************************)
EXTENDS TLC, SequencesExt

Standalone(names) == [t \in names |-> <<>>]

TaskTasks == Standalone({"task-list", "task-graph", "task-selection", "time-report"})

ParseTasks == Standalone({"scan-trace", "parse-trace", "prelude", "no-prelude",
                          "parse", "library-display", "library-append",
                          "library-prepend"})

AstTasks == "ast-display" :> <<"parse">> @@ "ast-dump" :> <<"parse">>

CloneTasks == "clone" :> <<"parse">>

\* Mutant: the regular binder asks for any binder.
BindTasksCyclic ==
  "bindings-compute" :> <<"bound", "parse">> @@
  "bound" :> <<"bindings-compute">> @@
  "bindings-display" :> <<"parse">> @@
  "rename" :> <<"bindings-compute">>

BindTasks ==
  "bindings-compute" :> <<"parse">> @@
  "bound" :> <<"bindings-compute">> @@
  "bindings-display" :> <<"parse">> @@
  "rename" :> <<"bindings-compute">>

\* Mutant: the type checker no longer asks for the bindings.
TypeTasksUnbound ==
  "typed" :> <<"types-compute", "combine-types-compute",
               "object-types-compute">> @@
  "types-compute" :> <<"parse">>

TypeTasks ==
  "typed" :> <<"types-compute", "combine-types-compute",
               "object-types-compute">> @@
  "types-compute" :> <<"bindings-compute">>

OverloadTasks ==
  "overfun-bindings-compute" :> <<"parse">> @@
  "overfun-types-compute" :> <<"overfun-bindings-compute">>

ObjectTasks ==
  "object" :> <<>> @@
  "object-parse" :> <<"object", "parse">> @@
  "object-types-compute" :> <<"object-bindings-compute">> @@
  "object-rename" :> <<"object-types-compute">> @@
  "object-desugar" :> <<"object-rename">> @@
  "raw-object-desugar" :> <<"object-rename">>

CombineTasks ==
  Standalone({"c-bounds", "c-escapes", "c-inline", "c-prune", "c-overload"}) @@
  "c-object" :> <<"object">> @@
  "c-desugar" :> <<"desugar-for", "desugar-string-cmp">> @@
  "c-all" :> <<"c-object", "c-bounds", "c-escapes", "c-desugar", "c-inline",
               "c-prune", "c-overload">> @@
  "combine-bindings-compute" :> <<"parse">> @@
  "combine-types-compute" :> <<"combine-bindings-compute">> @@
  "combine-rename" :> <<"combine-types-compute">> @@
  "combine-desugar" :> <<"combine-rename">>

EscapesTasks ==
  "escapes-compute" :> <<"bound">> @@
  "escapes-display" :> <<"parse">>

DesugarTasks ==
  Standalone({"desugar-for", "desugar-string-cmp"}) @@
  "desugared" :> <<"desugar">> @@
  "desugar" :> <<"types-compute", "rename">> @@
  "raw-desugar" :> <<"typed", "rename">> @@
  "bounds-checks-add" :> <<"types-compute", "rename">> @@
  "raw-bounds-checks-add" :> <<"typed", "rename">>

InliningTasks ==
  "inline" :> <<"types-compute", "rename">> @@
  "prune" :> <<"rename", "types-compute">>

CallgraphTasks ==
  "callgraph-compute" :> <<"bindings-compute">> @@
  "callgraph-dump" :> <<"callgraph-compute">> @@
  "parentgraph-compute" :> <<"parse">> @@
  "parentgraph-dump" :> <<"parentgraph-compute">>

LlvmTasks ==
  "llvm-compute" :> <<"typed", "desugar-for", "desugar-string-cmp", "desugar",
                      "escapes-compute">> @@
  "llvm-runtime-display" :> <<>> @@
  "llvm-computed" :> <<"llvm-compute", "llvm-gc-compute">> @@
  "llvm-display" :> <<"llvm-computed">>

LlvmGcTasks ==
  "llvm-gc-compute" :> <<"typed", "desugar-for", "desugar-string-cmp",
                         "desugar", "escapes-compute">> @@
  "llvm-gc-debug" :> <<>> @@
  "llvm-gc-runtime-link" :> <<"llvm-gc-compute">>

TaskTable ==
  TaskTasks @@ ParseTasks @@ AstTasks @@ CloneTasks @@ BindTasks @@ TypeTasks
  @@ OverloadTasks @@ ObjectTasks @@ CombineTasks @@ EscapesTasks
  @@ DesugarTasks @@ InliningTasks @@ CallgraphTasks @@ LlvmTasks @@ LlvmGcTasks

DisjunctiveTasks == {"bound", "typed", "desugared", "llvm-computed"}

-----------------------------------------------------------------------------
(***************************************************************************)
(* What holds of the tree: it is there, its uses point to their            *)
(* definitions, its nodes have types, its names are unique, and the call   *)
(* and parent graphs, the overfun_bindings of overload and of combine, and *)
(* the class_names that were computed point to its nodes.  And the flags   *)
(* of combine: the tasks of boolean options that set theirs.               *)
(***************************************************************************)
TreeFact == {"tree", "bound", "typed", "unique", "calls", "parents",
             "overfuns", "combined", "classes"}

Flags == {"c-object", "c-desugar", "c-bounds", "c-inline", "c-prune", "c-escapes"}

CheckedPasses == {"desugar", "bounds-checks-add", "inline", "prune", "object-desugar"}
RawPasses     == {"raw-desugar", "raw-bounds-checks-add", "raw-object-desugar"}
ObjectPasses  == {"object-desugar", "raw-object-desugar"}
Passes        == CheckedPasses \cup RawPasses

\* What combine-desugar calls for each flag.
PassOf ==
  "c-object" :> "object-desugar" @@ "c-desugar" :> "desugar" @@
  "c-bounds" :> "bounds-checks-add" @@ "c-inline" :> "inline" @@
  "c-prune" :> "prune" @@ "c-escapes" :> "escapes-compute"

\* The passes task t runs, when the flags in on are set.
RunBy(t, on) == IF t = "combine-desugar" THEN {PassOf[f] : f \in on} ELSE {t}

\* What the pass of a task reads: the_program, and what the earlier passes left
\* in it or beside it.
PassNeeds(t) ==
  CASE t \in {"ast-display", "ast-dump", "clone", "parentgraph-compute",
              "bindings-compute", "overfun-bindings-compute",
              "combine-bindings-compute"} -> {"tree"}
    [] t \in {"rename", "types-compute", "callgraph-compute",
              "escapes-compute", "object-types-compute"} -> {"tree", "bound"}
    [] t = "overfun-types-compute" -> {"tree", "bound", "overfuns"}
    [] t = "combine-types-compute" -> {"tree", "bound", "combined"}
    [] t = "object-rename" -> {"tree", "bound", "typed"}
    [] t \in ObjectPasses -> {"tree", "bound", "typed", "unique", "classes"}
    [] t \in Passes \ ObjectPasses -> {"tree", "bound", "typed", "unique"}
    [] t \in {"llvm-compute", "llvm-gc-compute"} -> {"tree", "bound", "typed"}
    [] t = "callgraph-dump" -> {"calls"}
    [] t = "parentgraph-dump" -> {"parents"}
    [] OTHER -> {}

PassComputes(t) ==
  CASE t = "parse" -> {"tree"}
    [] t = "bindings-compute" -> {"bound"}
    [] t = "overfun-bindings-compute" -> {"bound", "overfuns"}
    [] t = "combine-bindings-compute" -> {"bound", "combined"}
    [] t \in {"types-compute", "overfun-types-compute", "combine-types-compute",
              "object-types-compute"} -> {"typed"}
    [] t = "rename" -> {"unique"}
    [] t = "object-rename" -> {"unique", "classes"}
    [] t = "callgraph-compute" -> {"calls"}
    [] t = "parentgraph-compute" -> {"parents"}
    [] t \in CheckedPasses -> {"bound", "typed"}
    [] t \in Flags -> {t}
    [] OTHER -> {}

\* The passes that hang another tree on the_program, a new one or a copy without
\* the bindings and the types of the old one, and those that reset the
\* overfun_bindings they were given.
PassDestroys(t) ==
  CASE t = "parse" -> TreeFact
    [] t \in Passes \cup {"clone"} -> TreeFact \ {"tree", "unique"}
    [] t = "overfun-types-compute" -> {"overfuns"}
    [] t = "combine-types-compute" -> {"combined"}
    [] OTHER -> {}

Needs(t, on)    == UNION {PassNeeds(p) : p \in RunBy(t, on)}
Computes(t, on) == UNION {PassComputes(p) : p \in RunBy(t, on)}
Destroys(t, on) == UNION {PassDestroys(p) : p \in RunBy(t, on)}

\* The body of combine-rename is not written: nothing computes what
\* combine-desugar wants of it.
Unwritten == {"combine-desugar"}

\* How the execution of a task may end.
Ends(t) ==
  LET Ok == [kind |-> "ok", status |-> 0]
      May(k, s) == [kind |-> k, status |-> s]
  IN CASE t = "parse" -> {Ok, May("record", 3), May("exit", 2), May("throw", 0)}
       [] t = "bindings-compute" -> {Ok, May("own", 4)}
       [] t \in {"overfun-bindings-compute", "combine-bindings-compute"} -> {Ok, May("exit", 4)}
       [] t \in {"types-compute", "overfun-types-compute", "combine-types-compute",
                 "object-types-compute"} -> {Ok, May("exit", 5)}
       [] OTHER -> {Ok}
=============================================================================
