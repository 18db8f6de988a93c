------------------------------ MODULE TaskProps ------------------------------
(***************************************************************************)
(* What the driver of tc promises.                                         *)
(***************************************************************************)
EXTENDS TaskRegister

CONSTANTS
  Reads,      \* the facts the pass of each task reads, with these flags
  Unfinished  \* the tasks that count on one whose body is not written

\* The variables have their types.
TypeOK ==
  /\ declared \in Seq(Task)
  /\ task_list \subseteq Task
  /\ given \in Nat
  /\ calls \in Seq([task : Task, todo : Seq(Task)])
  /\ task_order \in Seq(Task)
  /\ error \in 0..5
  /\ ran \in Nat
  /\ facts \subseteq Fact
  /\ pc \in {"static", "options", "tasks", "exited"}
  /\ status \in {0, 1, 2, 3, 4, 5, Usage, Running}

\* The dependencies of t are met by the tasks of S: all of them, or one of
\* them when t is disjunctive.
MetBy(t, S) ==
  IF t \in Disjunctive
  THEN Deps[t] = <<>> \/ ToSet(Deps[t]) \cap S # {}
  ELSE ToSet(Deps[t]) \subseteq S

Before(order, k) == {order[j] : j \in 1..(k - 1)}

Ordered(order) ==
  \A k \in 1..Len(order) : MetBy(order[k], Before(order, k))

\* What frame i of a stack can still count on: the order, the dependencies it
\* has to do, and the one the frame above is doing for it.
Coming(order, stack, i) ==
  ToSet(order) \cup ToSet(stack[i].todo)
    \cup {stack[j].task : j \in {i - 1} \cap DOMAIN stack}

\* No frame of the stack loses a dependency of its task.
Resolving(order, stack, names) ==
  \A i \in 1..Len(stack) :
    /\ MetBy(stack[i].task, Coming(order, stack, i))
    /\ ToSet(stack[i].todo) \subseteq names

\* The strengthening that makes DepsFirst inductive: it follows the recursion,
\* and says that main itself never resolves more than Parse.
ResolutionOK ==
  /\ error = 0 \/ pc = "tasks" =>
       Ordered(task_order) /\ Resolving(task_order, calls, task_list)
  /\ pc = "static" => calls = <<>> /\ task_order = <<>>
  /\ pc = "tasks" /\ calls # <<>> =>
       calls = <<[task |-> Parse, todo |-> <<>>]>>

\* As long as no error has been recorded, every task of the order stands after
\* tasks that meet its dependencies: the depth first search of
\* resolve_dependencies builds an order in which execute may just run the tasks.
DepsFirst == error = 0 => Ordered(task_order)

\* What execute runs, it runs on a command line without error and after
\* everything it depends on, even when tasks fail on the way.
RunsAfterDeps ==
  [][ran' # ran => MetBy(Current, Before(task_order, ran + 1))]_vars

\* A task is only repeated because the command line asks for it by name: what is
\* in the order already is added again for an option, never as a dependency.
RepeatedOnRequest ==
  [][task_order' # task_order /\ Head(calls).task \in ToSet(task_order) =>
       Len(calls) = 1 /\ Head(calls).task \in Options]_vars

\* The search never enters a task it is already resolving: with the real table
\* of dependencies the recursion of enable_task ends.
NoReentry ==
  \A i, j \in 1..Len(calls) : calls[i].task = calls[j].task => i = j

\* No task depends on itself through other tasks: the tasks have ranks that go
\* down from each task to its dependencies.
Ranks(rank) ==
  /\ rank \in [Task -> Nat]
  /\ \A t \in Task : \A d \in ToSet(Deps[t]) : rank[d] < rank[t]

Acyclic == \E rank : Ranks(rank)

\* An alternative of a disjunctive task that is in the order already is enough:
\* resolving the task adds none of the others.
NoNeedlessDefault ==
  [][\A t \in Disjunctive :
       /\ calls # <<>>
       /\ Head(calls).task = t
       /\ ToSet(Deps[t]) \cap ToSet(task_order) # {}
       => ~(Len(calls') > Len(calls))]_vars

\* What makes NoNeedlessDefault hold: only tasks that exist are resolved, and a
\* disjunctive task that still has its default to do is the one at work, with
\* none of its alternatives in the order.
ChoiceOpen ==
  /\ task_list \cup ToSet(declared) = ToSet(Declared)
  /\ pc # "static" => declared = <<>>
  /\ ToSet(task_order) \subseteq task_list
  /\ \A i \in 1..Len(calls) :
       /\ calls[i].task \in task_list
       /\ calls[i].task \in Disjunctive /\ calls[i].todo # <<>> =>
            /\ i = 1
            /\ Tail(calls[i].todo) = <<>>
            /\ ToSet(Deps[calls[i].task]) \cap ToSet(task_order) = {}

\* tc ends, whatever the command line and the outcome of the tasks.
Terminates == <>(pc = "exited")

\* A pass finds in the tree what the earlier passes are expected to leave there.
InputsHold == [][ran' # ran => Reads[Current][On] \subseteq facts]_vars

\* The dependencies of the table bring every pass what it reads, whatever tasks
\* stand between and whichever alternative met a disjunction: what a pass does not
\* find was there, and was lost to a task that replaced the tree or reset it.
DepsSuffice ==
  [][ran' # ran /\ Current \notin Unfinished =>
       \A f \in Reads[Current][On] \ facts :
         \E k \in 1..ran : f \in Provides[task_order[k]][On]]_vars
=============================================================================
