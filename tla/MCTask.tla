------------------------------- MODULE MCTask -------------------------------
(***************************************************************************)
(* The driver with the task table of tc.                                   *)
(***************************************************************************)
EXTENDS TaskProps, TigerTasks

MCTask == DOMAIN TaskTable \cup UNION {ToSet(TaskTable[t]) : t \in DOMAIN TaskTable}
MCDeclared == FoldSet(LAMBDA t, names : Append(names, t), <<>>, DOMAIN TaskTable)
MCDeps == [t \in MCTask |-> IF t \in DOMAIN TaskTable THEN TaskTable[t] ELSE <<>>]
MCOutcomes == [t \in MCTask |-> Ends(t)]
MCFact == TreeFact \cup Flags
MCProvides == [t \in MCTask |-> [on \in SUBSET Flags |-> Computes(t, on)]]
MCDrops == [t \in MCTask |-> [on \in SUBSET Flags |-> Destroys(t, on)]]
MCReads == [t \in MCTask |-> [on \in SUBSET Flags |-> Needs(t, on)]]

\* The options of the command lines: one of each kind.
MCOptions ==
  {"parse", "clone", "bound", "typed", "types-compute", "rename", "desugar",
   "raw-desugar", "object-types-compute", "overfun-types-compute",
   "combine-types-compute", "combine-desugar", "llvm-display",
   "llvm-gc-compute", "c-all", "callgraph-dump", "parentgraph-dump"}

FewOptions == {"rename", "types-compute", "clone", "desugar"}
=============================================================================
