----------------------------- MODULE TaskRegister -----------------------------
(***************************************************************************)
(* The driver of tc: task::TaskRegister, which turns the options of the    *)
(* command line into an ordered list of tasks, and main, which executes    *)
(* the list and turns the outcome into an exit status.                     *)
(*                                                                         *)
(* enable_task and resolve_dependencies call each other recursively; calls *)
(* is their stack, one frame per enable_task being served.                 *)
(***************************************************************************)
EXTENDS SequencesExt

CONSTANTS
  Task,        \* the names tasks have and dependencies use
  Declared,    \* the task objects of the program, in construction order
  Deps,        \* the dependencies of each task, in order
  Disjunctive, \* the tasks that are DisjunctiveTasks
  Parse,       \* the task main enables when the command line asks for none
  Options,     \* bound: the tasks the command lines considered ask for
  MaxOptions,  \* bound: the number of options of a command line
  Outcomes,    \* the ways the execution of each task may end
  Fact,        \* what passes compute and keep in the tree or beside it
  Flag,        \* those of them that boolean options set, and passes look at
  Provides,    \* the facts that hold once the task has run, with these flags
  Drops        \* the facts the task destroys, by replacing the tree or a reset

Failure == 1   \* misc::error::error_type::failure
Usage == 64    \* main's answer to std::invalid_argument
Running == 255 \* no exit status yet

Outcome == [kind : {"ok", "record", "exit", "own", "throw"}, status : 0..5]

ASSUME TaskAssumption ==
  /\ Declared \in Seq(Task)
  /\ Deps \in [Task -> Seq(Task)]
  /\ Disjunctive \subseteq Task
  /\ Parse \in ToSet(Declared)
  /\ Deps[Parse] = <<>>
  /\ Options \subseteq ToSet(Declared)
  /\ MaxOptions \in Nat
  /\ Outcomes \in [Task -> SUBSET Outcome]
  /\ Flag \subseteq Fact
  /\ Provides \in [Task -> [SUBSET Flag -> SUBSET Fact]]
  /\ Drops \in [Task -> [SUBSET Flag -> SUBSET Fact]]

VARIABLES
  declared,   \* the task objects still to construct
  task_list,  \* the names registered
  given,      \* how many options have been notified
  calls,      \* the stack of enable_task: the task, the dependencies to do
  task_order, \* the tasks to execute, in order
  error,      \* the status of task_error ()
  ran,        \* how many tasks of task_order have been executed
  facts,      \* what holds of ast::tasks::the_program
  pc,         \* what main is doing
  status      \* the exit status of tc

register == <<declared, task_list>>
resolution == <<calls, task_order>>
vars == <<declared, task_list, given, calls, task_order, error, ran, facts,
          pc, status>>

\* error::operator<< (error_type): success never replaces an error, and of two
\* errors the smaller status is kept.
WithStatus(old, new) ==
  IF old = 0 \/ (new # 0 /\ new < old) THEN new ELSE old

(***************************************************************************)
(* Static initialisation: the constructor of each task registers it, unless *)
(* its name is taken.                                                      *)
(***************************************************************************)
Register ==
  /\ pc = "static"
  /\ declared # <<>>
  /\ declared' = Tail(declared)
  /\ task_list' = task_list \cup {Head(declared)}
  /\ error' = IF Head(declared) \in task_list
              THEN WithStatus(error, Failure) ELSE error
  /\ UNCHANGED <<given, resolution, ran, facts, pc, status>>

StartMain ==
  /\ pc = "static"
  /\ declared = <<>>
  /\ pc' = "options"
  /\ UNCHANGED <<register, given, resolution, error, ran, facts, status>>

(***************************************************************************)
(* enable_task and resolve_dependencies.                                   *)
(***************************************************************************)
\* Mutant: a disjunction always takes its first alternative.
ToActivateFirst(t, order) ==
  IF t \in Disjunctive /\ Deps[t] # <<>> THEN <<Head(Deps[t])>> ELSE Deps[t]

\* The dependencies a task wants activated: all of them, or for a disjunction
\* the first one, when none is active yet.
ToActivate(t, order) ==
  IF t \notin Disjunctive \/ Deps[t] = <<>> THEN Deps[t]
  ELSE IF ToSet(Deps[t]) \cap task_list \cap ToSet(order) # {} THEN <<>>
  ELSE <<Head(Deps[t])>>

Unknown(t) == ToSet(Deps[t]) \ task_list

\* enable_task (t), for a registered t, up to the loop that activates.
Enter(t) ==
  /\ error' = IF Unknown(t) # {} THEN WithStatus(error, Failure) ELSE error
  /\ calls' = <<[task |-> t, todo |-> ToActivate(t, task_order)]>> \o calls

\* The top frame without its first dependency.
Advance(stack) ==
  <<[task |-> Head(stack).task, todo |-> Tail(Head(stack).todo)]>> \o Tail(stack)

Enabling == calls # <<>>

\* Mutant: a dependency that is active already is enabled again.
ActivateAgain ==
  /\ Enabling
  /\ Head(calls).todo # <<>>
  /\ LET d == Head(Head(calls).todo)
     IN /\ d \in task_list
        /\ error' = IF Unknown(d) # {} THEN WithStatus(error, Failure) ELSE error
        /\ calls' = <<[task |-> d, todo |-> ToActivate(d, task_order)]>>
                      \o Advance(calls)
  /\ UNCHANGED <<register, given, task_order, ran, facts, pc, status>>

Activate ==
  /\ Enabling
  /\ Head(calls).todo # <<>>
  /\ LET d == Head(Head(calls).todo)
     IN /\ d \in task_list
        /\ d \notin ToSet(task_order)
        /\ error' = IF Unknown(d) # {} THEN WithStatus(error, Failure) ELSE error
        /\ calls' = <<[task |-> d, todo |-> ToActivate(d, task_order)]>>
                      \o Advance(calls)
  /\ UNCHANGED <<register, given, task_order, ran, facts, pc, status>>

\* Mutant: the loop does not get past a dependency that is active.
SkipDependencyStays ==
  /\ Enabling
  /\ Head(calls).todo # <<>>
  /\ LET d == Head(Head(calls).todo)
     IN d \notin task_list \/ d \in ToSet(task_order)
  /\ UNCHANGED vars

SkipDependency ==
  /\ Enabling
  /\ Head(calls).todo # <<>>
  /\ LET d == Head(Head(calls).todo)
     IN d \notin task_list \/ d \in ToSet(task_order)
  /\ calls' = Advance(calls)
  /\ UNCHANGED <<register, given, task_order, error, ran, facts, pc, status>>

\* Mutant: the task is put in front of the order.
PushFront ==
  /\ Enabling
  /\ Head(calls).todo = <<>>
  /\ task_order' = <<Head(calls).task>> \o task_order
  /\ calls' = Tail(calls)
  /\ UNCHANGED <<register, given, error, ran, facts, pc, status>>

\* The dependencies are in the order; the task goes after them, whether or not
\* it is there already.
Push ==
  /\ Enabling
  /\ Head(calls).todo = <<>>
  /\ task_order' = Append(task_order, Head(calls).task)
  /\ calls' = Tail(calls)
  /\ UNCHANGED <<register, given, error, ran, facts, pc, status>>

(***************************************************************************)
(* parse_arg: the options are notified in the order of the command line,   *)
(* once boost has accepted the whole of it.                                *)
(***************************************************************************)
Exit(code) == pc' = "exited" /\ status' = code

Option ==
  /\ pc = "options"
  /\ ~Enabling
  /\ given < MaxOptions
  /\ given' = given + 1
  /\ \E t \in Options : Enter(t)
  /\ UNCHANGED <<register, task_order, ran, facts, pc, status>>

\* --help, --usage, --version or --license: no option is notified.
JustInform ==
  /\ pc = "options"
  /\ given = 0 /\ ~Enabling
  /\ Exit(error)
  /\ UNCHANGED <<register, given, resolution, error, ran, facts>>

\* An unknown option, a bad argument, no file name: std::invalid_argument.
BadUsage ==
  /\ pc = "options"
  /\ ~Enabling
  /\ Exit(Usage)
  /\ UNCHANGED <<register, given, resolution, error, ran, facts>>

\* Mutant: main does not look at the error before it goes on.
NoMoreOptionsUnchecked ==
  /\ pc = "options"
  /\ ~Enabling
  /\ pc' = "tasks"
  /\ IF task_order = <<>> THEN Enter(Parse) ELSE UNCHANGED <<calls, error>>
  /\ UNCHANGED <<register, given, task_order, ran, facts, status>>

NoMoreOptions ==
  /\ pc = "options"
  /\ ~Enabling
  /\ IF error # 0
     THEN Exit(error) /\ UNCHANGED <<calls, error>>
     ELSE /\ pc' = "tasks"
          /\ UNCHANGED status
          /\ IF task_order = <<>> THEN Enter(Parse) ELSE UNCHANGED <<calls, error>>
  /\ UNCHANGED <<register, given, task_order, ran, facts>>

(***************************************************************************)
(* execute: run the tasks in order.  A task ends well; or records an error *)
(* and lets the next ones run; or records it and throws task_error (); or  *)
(* throws an error of its own; or a std::runtime_error escapes it, which   *)
(* main turns into a success.                                              *)
(***************************************************************************)
Current == task_order[ran + 1]
On == facts \cap Flag

Execute ==
  /\ pc = "tasks"
  /\ ~Enabling
  /\ ran < Len(task_order)
  /\ ran' = ran + 1
  /\ facts' = (facts \ Drops[Current][On]) \cup Provides[Current][On]
  /\ \E o \in Outcomes[Current] :
       /\ error' = IF o.kind \in {"ok", "record", "exit"}
                   THEN WithStatus(error, o.status) ELSE error
       /\ CASE o.kind = "exit" -> Exit(error')
            [] o.kind = "own" -> Exit(o.status)
            [] o.kind = "throw" -> Exit(0)
            [] OTHER -> UNCHANGED <<pc, status>>
  /\ UNCHANGED <<register, given, resolution>>

Finish ==
  /\ pc = "tasks"
  /\ ~Enabling
  /\ ran = Len(task_order)
  /\ Exit(error)
  /\ UNCHANGED <<register, given, resolution, error, ran, facts>>

-----------------------------------------------------------------------------
Init ==
  /\ declared = Declared
  /\ task_list = {}
  /\ given = 0
  /\ calls = <<>>
  /\ task_order = <<>>
  /\ error = 0
  /\ ran = 0
  /\ facts = {}
  /\ pc = "static"
  /\ status = Running

Resolve == Activate \/ SkipDependency \/ Push
CommandLine == Option \/ JustInform \/ BadUsage \/ NoMoreOptions

Next ==
  \/ Register
  \/ StartMain
  \/ Resolve
  \/ CommandLine
  \/ Execute
  \/ Finish

Spec == Init /\ [][Next]_vars

\* One thread, which takes its next step.
FairSpec == Spec /\ WF_vars(Next)
=============================================================================
