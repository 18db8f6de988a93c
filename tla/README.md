# Verification of the Tiger compiler

TLA+ modules for `tc`, a compiler for Tiger written in C++ (`src/src`, with its
support library in `src/lib/misc`), and for the run time that is linked into the
programs it compiles (`src/src/llvmgc/runtime`). TLC checks the modules on
small instances; TLAPS proves theorems for every instance.

* [The system](#the-system)
* [Modules and their code](#modules-and-their-code)
* [Runs](#runs)
* [Theorems](#theorems)
* [What disagrees](#what-disagrees)
* [What is not modelled](#what-is-not-modelled)
* [Plan](#plan)

## The system

`tc` is a sequence of passes over one global syntax tree,
`ast::tasks::the_program`. Each pass is a *task*; the command line names tasks,
`task::TaskRegister` adds the tasks they depend on, and `main` executes the list.
Passes communicate through the tree only: through the annotations that binder,
type checker and escape analysis leave in its nodes, and by replacing the tree
(clone, desugar, inline, prune). The compiled program runs in one thread and
calls the run time for memory, strings and input/output; the run time reads
the program's stack and blocks behind the program's back when it collects.

| Component (sources) | State | Operations | What makes it correct |
|---|---|---|---|
| Garbage collector and allocator (`llvmgc/runtime/*.c`) | list of blocks, mark bits, on/off flag, the C stack it scans | `tc_malloc`, `tc_init_*`, `tc_gc_run`, `tc_gc_enable`, `DFS`, `gc_collect` | nothing reachable is freed, everything a conservative collector can free is, marks and list survive any order of calls |
| Task register and driver (`task/`, `tc.cc`, `lib/misc/error.*`) | registered tasks, the order being built, the recorded error, exit status | registration, `enable_task`, `resolve_dependencies`, `execute`, `main` | every task runs after what it depends on, no task is repeated needlessly, `tc` ends with a status |
| Task table (`*/tasks.hh`) | none | 65 declarations | the dependencies are enough for what the passes read |
| Scoped map (`lib/misc/scoped-map.*`) | stack of dictionaries | `scope_begin`, `scope_end`, `put`, `get`, `contains` | the innermost definition is found |
| Binder (`bind/binder.cc`) | three scoped maps, stack of loops, `in_loop_` | one handler per kind of node | uses are bound lexically, breaks to the innermost loop, errors diagnosed, scopes balanced |
| Renamer, symbols (`bind/renamer.*`, `lib/misc/symbol.*`, `unique.*`) | map of new names, counter, pool of strings | `new_name`, `fresh` | definitions get distinct names, uses follow |
| Escape analysis (`escapes/`) | depth, depth of each declaration, the flags | handlers of variables, functions, lets, loops | a flag is set where an inner function needs the variable |
| Escapes collector (`llvmtranslate/escapes-collector.cc`) | set of variables per function, "modified" flag, current function | handlers of chunks, functions, calls, uses | the sets are the least fixpoint |
| LLVM translator (`llvmtranslate/translator.cc`) | addresses of variables per function, current function, loop ends | handler per node | each use has an address, arguments match |
| Type checker (`type/`) | types on nodes, read-only loop variables | handler per node | compatibility, no cyclic definitions |
| Desugaring, bounds checks (`desugar/`), inlining, pruning (`inlining/`), cloner (`astclone/`) | the copy being built | handler per node | meaning is kept |
| Parser driver, imports, scanner, tweasts (`parse/`) | open files, search path, state of comments and strings, metavariables | `parse`, `parse_import`, `pop`, `append_` | files are read once at a time, errors are reported |
| Call graph (`callgraph/`) | graph of functions, the function around | construction, search of an ancestor | the graph has the nesting of the functions |
| Overloading, objects, combine (`overload/`, `object/`, `combine/`) | as binder and type checker | | most visits are missing in this repository |
| Timer (`lib/misc/timer.*`) | stack of running tasks, elapsed times | `push`, `pop`, `start`, `stop`, `<<` | elapsed time is conserved |
| Tiger run time (`llvmtranslate/tiger-runtime.c`) | none | strings, characters, output | limits of strings and characters |
| Printers and dumper (`ast/pretty-printer.cc`, `ast/dumper-dot.*`) | the port and the node the next edge leaves from | handler per node | what is printed can be read again, what is drawn is the tree |
| Shell (`tcsh/`) | | | output only |

The hard behaviours are these.

* *A collection can start inside any allocation*, with references in registers'
  spill slots, in arguments of the run time, in cyclic data, and with integers
  that look like addresses. Marks have to be clear again whichever way it ends.
* *The search for an order of tasks is recursive*, appends to a list it also
  reads, serves options from left to right, and goes on after an error.
* *A pass may run on a tree another pass has replaced.*
* *Visitors keep the context of the walk in fields* (scopes, loops, depths, the
  current function, "modified"), which every handler must restore.
* *The collector of escaped variables computes a fixpoint* over functions that
  call each other and are nested in each other.

* *Rebuilt trees are parsed from text with trees in it*, under names the text gives, and
  are bound and typed once more; the tree they replace is freed.
* *Files are read in the middle of files*, with directories, open files and a
  location that belong to the driver they share.

There is no concurrency: `tc` and the programs it compiles have one thread.
Nothing is persistent, so there is no crash recovery. `PROJECT.json` lists the
hazards, each at its line, with the properties that watch over it.

## Modules and their code

### The collector: `GcSpec`, `Gc`, `GcProps`, `MCGc`, `GcProofs`

`GcSpec` is what a compiled program may rely on: a memory of blocks, zero when
handed out, from which only blocks that no path of references reaches are ever
taken back. It says nothing of lists, marks or of when to collect.

`Gc` is the run time, one step of its loops at a time, driven by an arbitrary well
typed program. A word is an address together with a Boolean that only the type
checker knows: whether it is a reference or an integer that looks like one. The
code cannot see the Boolean, and no action of the collector reads it.

| Code | Actions |
|---|---|
| `tc_init_array`, `tc_init_ptr_array`, `tc_init_record` | `CallAlloc`: size and, for arrays, the element, which may from now on live in the frame of the run time only (`held`) |
| `tc_malloc` | `Malloc` (calloc succeeds, the node is linked), `MallocNodeFails`, `MallocCollects` (first calloc failed), `MallocFails` (second one failed too) |
| `tc_gc_run`, `tc_gc_enable` | `GcRun`, `GcEnable` |
| `gc_collect`, `DFS`: mark | `MarkRoot` (one word of the stack), `MarkField` (one turn of the loop of the innermost `DFS`), `MarkReturn`, `MarkDone` |
| `gc_collect`: sweep | `SweepKeep`, `SweepFree`, `SweepDone` |
| compiled code | `SetInt`, `Load`, `Store`, `Return` |

`heap` and `h` are the list split at the cursor of the sweep. The C library is
external: it has `avail` words left, and `calloc` fails when they do not suffice.
The model assumes that every word a caller needs is in a frame between `gc_collect` and `tos`.
The build gives that for the run time, which it compiles without optimisation
(`runtime/local.am:15`). On the program's own functions `libllvmgc.cc:73-94` runs LLVM's O1 pipeline, and
of a reference that it keeps in a register alone the model says nothing.

### The driver: `TaskRegister`, `TigerTasks`, `TaskProps`, `MCTask`, `TaskProofs`

`TaskRegister` has one frame of `calls` for each active `enable_task`. `Register` is
the construction of the static task objects, `Option`, `JustInform`, `BadUsage` and
`NoMoreOptions` are `parse_arg` and `main`; `Enter`, `Activate`, `SkipDependency` and
`Push` are the recursion of `enable_task` and `resolve_dependencies`, `Unknown` their
error; `Execute` and `Finish` are `execute` and the end of `main`. A task ends in one of
its `Outcomes`: well, recording an error, exiting on one, throwing an error of its own,
or throwing an exception of the standard library. `WithStatus` is how two
statuses combine. `TigerTasks` is the table of the repository, module by module,
with what each pass reads from the tree and from what is kept beside it (`Needs`), leaves there (`Computes`), and
loses by replacing the tree or by a reset (`Destroys`). Beside the tree are the two `the_overfun_bindings`, of
`overload` and `combine`, which the type checkers of these modules reset, the `class_names` of `object`, and the flags of
`combine`, which say what passes `combine-desugar` runs.

### The binder: `ScopedMap`, `Binder`, `BinderProps`, `MCBinder`, `Induction`, `BinderProofs`

`ScopedMap` has the operations of `misc::scoped_map` as operators. In `Binder` the
program is chosen while it is visited: a step visits one node and chooses
what stands there, so that all programs of a few nodes are covered. `todo`
is the stack of calls the visit still has to make; a handler replaces its own item
by the calls it makes, in their order, ended by a `Leave...` item that restores
what the handler restores. `BinderProps` states the scoping rules on the finished
part of the tree (`Ancestors`, `Owner`, `Visible`) without maps or stacks, and compares.

### Escapes: `LambdaLifting`, `LiftingProps`, `MCLifting`, `LiftingProofs`

Functions nested in functions reach the variables around them through extra arguments.
Three visitors cooperate, and the module has all three, in the order in which
`escapes-compute` and `llvm-compute` run them: `Flag...` actions for
`escapes::EscapesVisitor`, `Collect...` actions for `EscapesCollector` and
`Translate...` actions for the part of `Translator` that handles functions, variables
and calls. A body is reduced to the sequence of what these visitors act on:
declarations, uses, calls, chunks of functions, and the ends of lets and loops.
`stack` holds the visitor's active calls; what a handler saves in a local
variable (`saved_did_modify`, the function around) is saved in its frame. `phase`
is "thrown" once a look-up in `locals_` throws.

### The front end: `FrontEnd` and the modules it is made of, `FrontEndProps`, `MCFrontEnd`

`FrontEnd` holds the tree and the passes that read and replace it. An action is a whole
task; tasks run in any order that `TigerTasks` allows, each at most once, so that each
pass meets every tree the other passes may leave. A tree that is replaced is freed:
the new one is at other addresses, and those of the one before it may be used again.
What a pass does of the tree is an operator, recursive as the visitor it stands for:

| Module | Code | |
|---|---|---|
| `Ast` | `ast/*.hh` | a node is a record with its class, symbol, children, address and definition site; one constructor for each class |
| `Tokens`, `Parser` | `parse/parsetiger.yy`, `tiger-factory.*` | the grammar as a recursive descent with the precedences of the file, and what each rule builds |
| `Tweasts` | `parse/tweast.*`, `metavar-map.*` | text with trees in it, their numbers, and the parse of the whole |
| `Printer` | `ast/pretty-printer.cc`, `ast/dumper-dot.*` | the tokens `ast-display` writes; the nodes, ports and edges `ast-dump` draws |
| `TreeBinder`, `Renamer` | `bind/` | the binder on a whole tree (`Binder` models its steps), and new names |
| `TypeChecker` | `type/` | types on a heap, since names refer to types that are not there yet; every visit |
| `Desugar` | `astclone/`, `desugar/` | the copy, and the copy without for loops and comparisons of strings |
| `CallGraph` | `callgraph/` | the graphs of calls and of functions in functions |
| `Translator` | `llvmtranslate/translator.cc` | the code: functions of blocks of instructions, with the types of operands, branches and phis |
| `Eval`, `Runtime` | `llvmtranslate/translator.cc`, `tiger-runtime.c` | what the code does, and the primitives |

`source` is what stands before the text: a prelude, which may be the builtin one, another or none, and whether the
text is an expression, around which the parser puts `_main`, or a list of declarations, which it takes as it is.

`Eval` gives the program two meanings: `said`, taken of the tree that the checker accepted, with
loops and comparisons as the language has them, and `does`, taken of the tree that
was translated. Integers wrap around at `MaxInteger`, a small one, so that the last turn of
a loop can be at the greatest. `strcmp` yields a sign.

### The timer: `TimerSpec`, `Timer`, `TimerProps`, `TimerProofs`

`TimerSpec` charges each tick of a clock to the task started last. `Timer` has an action
for each operation of `misc::timer`, with the times it keeps for a task (`begin`, `elapsed`,
`first`, `last`) on each of `Clocks`: user, system and wall. They tick apart, since the report distinguishes them: `dump`
lists a task in its first table if it took time on any clock, in the second if it did on the wall. `total` is
started and stopped by itself. `Charged` is the refinement mapping: a
task's elapsed time, and for the one that runs also the time since it was resumed.

### Reading files: `Scanner`, `FileLibrary`, `Driver`, `DriverProps`, `MCDriver`, `DriverProofs`

`Scanner` has the rules of `scantiger.ll` with their start conditions, on bytes; `FileLibrary`
the operations of `misc::file_library`, on paths as sequences of components. `Driver`
composes them with a grammar: a frame of `frames` is a call of `parse_`, and a step is a rule of
the scanner (`scan`), an import the parser has met (`import`), the end of a file (`parse_`),
an option (`library_append`, `library_prepend`) or one of the parts of `parse::parse`. An import is
read before the parser asks for the next token, as the look-ahead of the generated
parser has it. What the driver does depends on a tree only by its being an expression, a list of
chunks or null, so that the grammar (`Grammar`) and the `_main` around an expression (`MainTree`) are parameters of
`Driver`. An option of the search path has the argument of its last occurrence (`Stored`), as the task object
keeps one for all of them. `MCDriver` gives the parameters the values `program` of `Parser` and `WithMain` of `Tweasts`; the theorems hold for any.

## Runs

| Run | Question | Result |
|---|---|---|
| `gc_safety` | Is the memory safe, is the collection exact, does the collector implement `GcSpec`? | holds |
| `gc_answers` | Is each request answered, is the inductive invariant of the proofs an invariant? | holds |
| `task_order` | Does the search order the real table of tasks, and is the table sufficient? | holds |
| `task_stale` | Does each pass find what it reads? | violated |
| `binder` | Are uses bound by the scoping rules, and are scopes and loops balanced? | holds |
| `binder_while` | Is every use of an accepted program bound? | violated |
| `binder_hide` | May a declaration hide one of an enclosing scope? | violated |
| `lifting` | Are the variables of inner functions flagged and sets no larger than needed; where is the translation safe? | holds |
| `lifting_callees` | Does a caller always get what its callees need? | violated |
| `frontend` | Do the passes, in every order, keep the tree readable, bound, typed and of one meaning, and is the code well formed? | holds; what is rebuilt is accepted only where `strcmp` and `streq` are declared for it |
| `timer` | Is each tick of each clock charged once, and does the report add up? | holds |
| `driver` | Does a program with imports declare what it does with the files in their place, and do the files share their state as a stack? | holds, but for the chunks that functions and types are grouped in |

### Bounds, and why they are enough

* `gc_safety`: three blocks, one word each, two stack words, memory for two blocks
  and the object, but not the node, of a third. Three blocks give chains and cycles
  (of one, two and three) and a sweep that keeps and frees at the head, in the
  middle and at the end of the list; memory for less than three makes `calloc` fail
  in all three places: at first, after the collection, and for the node. Addresses are symmetric. `gc_answers` has
  fewer blocks but two words in each, so that `DFS` has siblings to return to; it is
  run without symmetry, since it checks liveness.
* `task_*`: all 65 tasks, command lines of at most three options out of seventeen, one
  of each kind (a leaf, a pass that replaces the tree, one without its checks, a disjunctive task, a type checker that
  resets what it was given, one with
  long chains of dependencies, one with an unknown dependency, ...). Two options show
  every interference between what one left in the order and what the next needs; three
  allow a pass in between. `task_stale` has four options to choose from and up to four on a line.
* `binder`: two names in three name spaces, five chosen nodes, two declarations
  or expressions in a list. Literals cost no node. Five nodes suffice for a declaration,
  one that hides it, a use, and a loop or function around any of them. The two names are
  symmetric.
* `lifting`: 4,177 programs: two functions in one chunk, in successive chunks, and one
  in the other, with all bodies of up to two calls, uses and uses in a let; and three
  functions in one chunk, which is where a fixpoint takes several turns. `MCLifting`
  has the sets.
* `frontend`: the programs of `MCFrontEnd`, in 34,479 states: loops with each kind of bound and
  body, the greatest integer among them; declarations that shadow, recur, capture variables,
  or have the name of a primitive; comparisons of strings; arrays and their arguments in either order; every mixture of types in a
  variable, an argument and a result, well typed or not. The builtin prelude has seven of the primitives; programs that
  compare strings are also read with another prelude and with none, as expressions and as lists of declarations. A
  run of a program has `MaxFuel` calls and turns of loops, more than any of these that ends needs;
  one that does not end in time is left out of `SameMeaning`. `Region` keeps the addresses of two trees apart,
  and is larger than any of them.
* `timer`: two tasks, three deep, three clocks with two ticks between them, and totals of up to two (`MaxTotal`): enough for a task in
  itself with another in between, for time on one clock and none on another, for time that both of two tasks took, and for a total that is
  started late, stopped early or stopped twice; 2,342,770 states. Tasks are symmetric, and so are the clocks but the one on the wall.
* `driver`: fifteen files in five directories: files that import each other, one that imports
  a file of its directory that has the name of one elsewhere, one by an absolute path, one that is an expression and
  one that is missing; imports by twelve names in five shapes of program, and behind functions, types and variables, of files that begin with the
  same; five preludes, four uses of the search path, one of which repeats an option. The strings
  are those of one or two of nine bytes, the comments nest to a depth of three; 15,651 states.

### Fairness

`FairSpec` of `Gc` demands weak fairness of the steps of the run time only. They are
sequential code that keeps running; the compiled program may compute forever without
calling the run time. `FairSpec` of `TaskRegister` and `Spec` of `LambdaLifting` demand
weak fairness of `Next`: `tc` is one thread without waiting. `Terminates` of
`lifting` is then about the collector's own loop, `Answered` of `gc_answers` about cyclic data
and the retry after a collection. The other runs have no liveness property: the
passes of `frontend` are functions, and the compiler is free to stop after any.
Deadlock is not checked in any run: programs end.

### What the properties say

* `NoDangling`, `SweepExact`, `MarksClear`: no reference denotes a freed block; the sweep keeps
  exactly the blocks a scanned word leads to; no mark survives.
* `DepthBounded`, `Accounting`, `GivesUpHonestly`: `DFS` enters a block once; every
  word of memory is in a listed block or available; the allocator gives up only after
  a collection that could free nothing.
* `ImplementsPromise`: refinement of `GcSpec`, `blocks` being the list.
* `DepsFirst`, `RunsAfterDeps`, `NoNeedlessDefault`, `RepeatedOnRequest`, `NoReentry`: the
  order; that it is the order executed; that alternatives already in it are used; that
  only the command line repeats a task; that the recursion does not meet a cycle.
* `DepsSuffice`: what a pass reads, a task before it has computed: if it is not there any more, a task in between replaced the
  tree or reset it. `InputsHold`, without that, is what `task_stale` refutes. `combine-desugar` is left out
  (`Unwritten`), as the body of `combine-rename`, on which it depends, was deleted.
* `BoundLexically`, `RejectsDuplicates`, `BreakInnermost`, `ScopesBalanced`: the binder against
  the tree. Of rejected names only what no test contradicts is demanded: two of one chunk are rejected, and none that
  has no other in sight; the rest is `HidingIsLegal` of `binder_hide`.
* `InnerUsesFlagged`, `OnlyNeeded`, `ExactWhenCalleesFirst`, `ClosedSuffices`: each use by an inner function is
  flagged (others may be, see below); the sets against reachability in the call graph; that one pass is enough when
  callees stand before callers; and that a missed variable is the only reason for
  the translator to throw.
* `PrintedReadsBack`, `DrawnIsTheTree`, `ParentsEnclose`: the text, the drawing and the graphs say what
  the tree says, whichever pass made it. `Ambiguous` lists where the printer does not: fields
  (printed with the record after them), special characters of strings, operators that would
  need parentheses, an if without else before an else. Nothing is said of what the graph of functions finds for the first function
  of the program, which is wrong (see below).
* `UsesFindDeclarations`, `RenamedApart`: definition sites are live nodes of this tree, those the
  names say; new names are distinct.
* `RebuiltIsAccepted`, `AcceptedRuns`, `SameMeaning`: the compiler does not reject what it has made
  itself, but for comparisons of strings in a program that does not start with the primitives `strcmp` and `streq`, be it by its
  prelude or by itself; what the checker accepts has no undefined behaviour; all orders of
  the passes end in the same output. Left out are programs that divide, variables without
  a value, and orders in which a copy without definition sites is handed on (`InOrder`:
  what they do is what `task_stale` shows).
* `CodeIsWellFormed`: types of operands, one way out of each block, phis that agree with the
  branches, values defined before they are used (`Dominates`).
* `ChargesTheTop`, `ReportAddsUp`: the refinement of `TimerSpec`, on each clock, and the report: on each clock the
  tasks took no more than the total and none more than its span in the second table, in which each task is that took time on
  the wall. This is for a timer whose tasks ran while the total did. Tasks
  merged from another timer are left out of the sum, as their time is also that of the task that runs here.
* `StacksAgree`, `ImportIsInclusion`, `SpelledReadsBack`: the state the files share at every step;
  the tree against the one parsed from the text with the files put in place, but for how functions and types are grouped into
  chunks (`Ungrouped`); scanning undoes
  `misc::escape` and skips comments.

* `ExactInv`: the inductive invariant of `GcProofs`, checked by `gc_answers` on blocks with siblings.

`TypeOK` is part of `ExactInv`, `ScopesBalanced` and `InnerUsesFlagged`.

## Theorems

`GcProofs` proves every property of `gc_safety`, and `[]ExactInv`,
for any set of addresses, any number of stack slots and words, and any memory
(`GcAssumption`). `NoDangling` is not inductive: whether the sweep may free a block
depends on what the marks mean. `IInv` adds

* `MarkInv`: words already scanned lead to marked blocks, and what a marked block
  leads to is marked too, unless an active call of `DFS` has yet to visit that field
  (`Pending`);
* `SweepInv`: the blocks kept so far and those still marked contain everything a
  scanned word denotes, are closed under all words in them, and those already passed
  are unmarked again;
* `Phases`: the variables of one phase are at rest outside it.

When the last root is done no call of `DFS` is active, so `Pending` is empty and `MarkInv`
becomes closure of the marked blocks (`MarkDoneInvariant`). From there on a block that is
freed is outside a closed set that holds all roots, so no reference to it is left
(`SweepFreeInvariant`). There is a lemma for each action, or group of actions that
leave the same parts alone.

`IInv` says that enough is marked. That nothing is marked in vain, which `SweepsExactly`,
`DepthIsBounded`, `GivesUpOnlyWhenFull` and `PromiseKept` rest on, is `ExactInv`, proved on top of it:

* `ActiveMarked` and `DepthBounded`: `DFS` is only called for unmarked blocks and marks
  them first, so that no block is active twice;
* `NoneInVain`: what is marked, and later what is kept, is reachable from a scanned word.
  Reachability (`Conservative`) is the intersection of all closed sets that hold the roots, so what a
  reachable block leads to is reachable; with `SweepInv`, which says that the kept blocks are such a set, what
  is kept and what is reachable are the same throughout the sweep (`KeptIsConservative`). Freeing a block
  changes the memory and so what "reachable" means: a set `S` closed in the smaller memory gives one,
  `S \cap Kept`, that is closed in the larger, so what is kept stays reachable;
* `ListedOnce`: a block is on the list once. Otherwise one that is freed could be kept by a second node;
* `Collected`: at the second `calloc` the list is what the collection left, all of it reachable;
* `Serving`: the request that waits for a collection is still there after it, which the
  refinement needs for `Malloc`.

`PromiseKept` maps each action to a step of `GcSpec` or a stutter. The step that matters is `SweepFree`, which has to
be a `Reclaim`, that is, of a block no path from the program's references reaches: `Kept`, which does not have it, is
closed and holds all references, by `SweepInv`.

`NothingLost` adds `Balance`, the equation of `Accounting`, to `ExactInv`. The words of the blocks are a fold over a set, so what
`Malloc` and `SweepFree` do to it rests on the lemmas of `Induction` on sums: one more element adds its term
(`SumWithOneMore`), and the terms of the others are untouched (`SumOfSame`). That the block which is freed counted once
is `ListedOnce`.

`TaskProofs` proves `[]TypeOK`, `[]ResolutionOK`, `[]DepsFirst`, `RunsAfterDeps` and `NoNeedlessDefault` for any
table of tasks, cyclic ones included, and any command line (`TaskAssumption`). `DepsFirst`
says nothing of a search in progress; `ResolutionOK` says that in each frame of the
recursion the dependencies of its task are in the order, or still to do, or being
served by the frame above. When the last one is done the order alone meets them, and
`Push` may append the task. `ActivationIsEnough` is the lemma about disjunctive tasks: the
alternative that is chosen, or already there, meets the dependency. `AlternativesSuffice` needs `ChoiceOpen`:
a disjunctive task that has its default still to do is the innermost call, with none of its alternatives in the order.
`SearchEnds` and `RepeatsOnRequest` assume that no task depends on itself (`Acyclic`), as `enable_task` does, which looks for what is
in the order but not for what it is about to put there; `task_order` checks that the search of the real table meets no cycle. With it tasks
can be ranked, and `Descends` says that ranks go up along the stack, from the task at work to the one that an option
asked for, and that only the last of them can be in the order.

`TimerProofs` proves `ChargesTheTop`, that the timer implements `TimerSpec`, for any tasks, nested to any
depth, and any clock. `TimerInv` says that a task that is not known took no time, so that merging
one is a step of the abstract timer, and that no start is in the future. The lemma
`Stopping` is the heart of it: what stopping the top leaves is what was charged. `ReportIsSound` is about
what is dumped, on each clock by itself: `RunningInv` bounds, while the timer runs, the sum of the charges of the tasks it started itself by
the time since its start, and each charge by the time from its first start to the time the task would stop at. A task without time on the wall may have no row in
the second table, which is why that table is only asked of those that have some.

`LiftingProofs` proves all of `lifting` but that the visitors return, for any programs, of any size and nested to any depth,
that the binder has accepted: `ScopingAssumption` says that a function or variable is declared at one place, that lets and
loops end where they started, and that uses and calls are in the scope of what they name. This is what `BinderProofs` proves of
the binder, read off the tree (`ScopesBalanced`, `BoundLexically`), and TLC evaluates it on each program of `MCLifting`. The four
theorems follow from `LiftingInvariant`, which has a part for the walk and one for each visitor:

* `WalkInv`: the stack is a path down the program, chunks and functions in turn, which meets no function twice
  (`Path`), and the function a visitor believes to be in is the one on top (`Charged`). So the functions around the one that
  is visited are on the stack (`Around`), and each function is on it, behind it, with all that is inside it, or ahead
  (`Visited`, a definition on the stack alone: the collector's loop makes a chunk that was behind be ahead again);
* `FlagInv`: each frame has a depth it starts at, no less than that of the frames below it (`Nesting`), and the
  variables declared so far on the path are at the depths of their places (`Placed`); nothing ahead is declared (`NotYet`).
  Hence a variable's depth is less than `scope_` just when the use is in an inner function, let or loop
  (`UseDepth`): for the function's own variables by the lets that are open, for others since the function around went down
  through a chunk behind their declaration, in a let that is still open (`OuterDepth`). What is behind has set its flags (`FlaggedUpTo`), those
  of inner functions and, as the code does it, of inner lets and loops;
* `CollectInv`: what is behind is passed its own flagged variables, and if callees come first, all it needs: the callee is behind
  the call (`CalleeVisited`), so that its set is complete, and `Needed` is closed under callees (`NeededUnfolded`);
* `TranslateInv`: a function on the stack has an address of its formals, of what it is passed and of what it has declared. A
  variable without flag is only used in its own function, behind its declaration (`PlaceOfVar`, with `FlagsRight`);
  one with a flag is passed. So only arguments of calls can be missing, and not if the sets are closed.

`BinderProofs` proves the four properties of `binder`, for any names, programs of any size and lists of any length
(`BinderAssumption`). None of them is inductive. They follow from `BinderInv`, the invariant of the theorem
`Invariant`, which TLC checks when it is added to `MCBinder.cfg`:

* `TreeInv`: nodes come after their parents, and only loops, lets and functions open scopes that hold declarations;
* `TodoInv`: each pending call hangs under a node that is there, or under one that a call above it has still to declare,
  as the functions of a chunk do (`Placed`);
* `CallsInv`: the loops, lets and functions around a pending call are exactly those whose ends are pending behind it
  (`Enclosed`); the scope its declarations belong to is the first to be left after it (`Housed`); each is visited once (`Once`), and
  what has yet to be visited holds no declaration (`Empty`); `in_loop_`, and each saved copy of it, says whether
  a loop is the first barrier to be left (`Breakable`, `Restores`);
* `MapsInv`: a map has a level for each scope to be left, which holds for each name the latest declaration of that
  scope, and what is in a deeper level was declared later;
* `LoopsInv`: the stack of loops is that of the loops to be left.

So the scopes that are open are those that enclose the use (`OpenersAround`), and `get`, which takes the deepest level with the name, yields
the greatest visible declaration (`LookedUp`). The properties say of every node what was true when it was
visited; that it stays true is `UsesKept`, as no declaration that is added later has a smaller number. The functions of a chunk, declared
together before the first body is visited, are the hard case (`ChunkCalls`, `DeclareCalls`).

`Ancestors` and `Picks` are recursive functions, so that the proofs have to show that there are such functions
(`TheLineage`, `PicksDef`) and what they yield. `Induction` provides what that takes: the induction theorems of the
library cannot be used, as they take an operator; but that a non-empty set of natural numbers has a least element
(`WFMin` of `WellFoundedInduction`) can, and gives the same with a set in place of the operator. The same goes for sums over
finite sets: `SumsExist` shows that the fold of the community modules is well defined, `SumsAnyOrder` that it does not depend on
the elements it chooses.

Only model-checked are:

* liveness (`Answered`, `Terminates`), which is out of the prover's reach under fairness;
* everything the front end computes (the properties of `frontend`): its operators are recursive, as the visitors are, and in a
  module that reaches a recursive operator arithmetic cannot be proved;
* `ImportIsInclusion`: it is false of some grammars (of the one of the repository too, without `Ungrouped`), for which the chunks that an import gave are not what its tokens
  would have been, and the grammar that is meant is recursive;
* what `SpelledReadsBack` says of comments: they nest by an inductive definition that only the set of `MCDriver` states;
  what it says of strings `StringsReadBack` proves for all of them;
* `DepsSuffice`, which is about the passes of the real table of tasks: one instance, of which TLC sees all.

`DriverProofs` proves `StacksAgree`, for any files, paths, commands and grammar, imports that go round in circles and files that
are missing included (`PathsAssumption`: the working directory is absolute, the name of the program is not empty, bytes are integers;
`ReservedAssumption`: no reserved word is a string or begins like one). By itself it is not inductive: it does not say where a file goes back to,
nor that what is put on the stack of directories is the directory of the file. `ReadingInvariant` is about `DriverInv`:

* `Stacked` holds while files are read. Of the calls of `parse_` the first n are imports, their paths are distinct and are the open files,
  their directories lie on the two the stack starts with, and each call has saved the path of the one below it, which is
  also what is recorded in `open_files_`. `PushStacked`, `PopStacked` and `KeepStacked` say what an import, its end and
  everything else do to it. That n is one less for a program than for a prelude is `Importing`;
* `Phases` says what is left before and after: nothing is open, and the library of the tasks, of which the driver has a copy,
  has the directory of the program on top until `parse` returns;
* `TypeOK` is needed because the name of an import comes from the text: scanners yield tokens (`RuleType`), the
  string of an import is a path with a name in it (`PathIsName`), and `find_file` finds for it an absolute directory which is
  just the path without the name (`FileIsFound`). Otherwise pushing it could put another directory on the stack. A path
  that ends with a slash names the empty component, as in `std::filesystem`, not the root.

`StringsReadBack` proves `ReadAs`, of which `SpelledReadsBack` is made, for a program that is any string between the quotes
and escapes of `misc::escape`: scanning does not fail and gives one token, the string. Left out are strings with a backslash,
which is written as two and read as two. `ByteIsRead` is the heart of it: what a byte is
written as is the longest match in front of any text, be that text digits after an octal escape, and the action of the rule gives the byte
back (`LetterIsOne`, `OctalIsByte`). `ReadsStrings` is inductive with `DriverInv`: either the opening quote is next
or what was read and what is left, each written as it is, make the string, or the string is a token. A scanner that fails is
then the prelude's, so that an import is open (`SomeOpen`). `ReservedAssumption` is used here: no reserved word begins with a quote.

`strtol`, `escape` and the cutting of paths are recursive functions; `StepsExist` of `Induction` says that there are such functions and
where they have their values.

The induction theorems of the library take an operator, so that `GcProofs`, `TaskProofs` and `LiftingProofs` prove their lemmas
on sequences directly from their definitions.

## What disagrees

Each of these is a run that TLC refutes, with the text it contradicts in
`PROJECT.json`.

1. `binder_while`: the visitor of `while` does not visit the test.
2. `binder_hide`: `contains` looks in all scopes, so a type or function that hides one of
   another chunk is a duplicate. The tests in `tests/good` say it is legal.
3. `task_stale`: a dependency already in the order is not met again, even though its
   result has been replaced since.
4. `lifting_callees`: a variable found at a use does not count as a modification, so the
   loop of the escapes collector stops too early; the grammar reverses the functions of
   a chunk, so callers often come first. The translator then throws `std::out_of_range`.

The models show more, which the properties leave out by name and no run refutes:

* Tasks: `object-types-compute` depends on `object-bindings-compute`, which nobody declares
  (`object/tasks.hh:34`), so the option cannot be served. Blocks still listed when a program ends are not
  freed (`tiger-gc.c:116`), which the check for leaks in `tests/functionnal.sh:47` asks for. `execute` runs on
  after a task that recorded an error (`task-register.cc:339`). `--combine-types-compute` twice dereferences a null pointer, as the
  first resets `the_overfun_bindings` and what computed them is not run again (`combine/tasks.cc:39-46`); so does
  `--overfun-types-compute` (`overload/tasks.cc:28-36`). `combine-rename` has no body, so that with `--c-object` `combine-desugar` finds
  no `class_names` (`combine/tasks.cc:50`).
* Escapes: the flag is also set for uses in an inner let or loop of the same function (`escapes-visitor.cc:55`), although
  `escapes-visitor.hh:5-6` speaks of inner functions only. `InnerUsesFlagged` demands no more than the comment does, so that the
  surplus is not an error to it; that it does no harm to the translation is `ClosedSuffices`.
  `escapes-collector.cc:107` speaks of variables of parent frames, while a
  function's own variables are collected too.
* Files: the directory of a name is taken to be the name itself (`file-library.cc:95`), so the search
  path is searched at `dir/name/name`, and `-P` and `-p` find nothing else. An option of the search path given twice counts twice
  with the last argument, `-P a -P b` as `-P b -P b` (`task-register.cc:56-60`, `argument-task.cc:25`). An import ends the chunk before it and keeps its own,
  so functions or types on either side of it cannot refer to each other, as they could in one text (`parsetiger.yy:382`, `390`, `440`).
  An import of a missing
  file behind another chunk crashes, as a chunk is put in front of a null list. The program itself is not
  among the open files, so a file that imports it reads it once more; paths are not normalised, so
  `sub/../a` in `a` has no end.
* Scanner: line breaks in strings and comments are dropped, as unknown characters are; `\\` is read
  as two backslashes.
* Types: the type in a type declaration is never bound, as `BindTypeDec` does not visit it, so records and arrays of a
  declared type have no element type and the translator crashes (`Visit_`). `tests/good`
  has such programs. Of a call only formals that have an argument are compared.
* Graphs: functions outside of any function are linked to the first one, as null is looked up in a map
  of vertices, so that it is found as a parent of each function, though it is said that only parents are
  (`fundec-graph.hh:33`; `ParentsEnclose` says nothing of it); the graph of calls has no edges, since that visit lacks its code, so the inliner knows of no recursive
  function; and graphs dumped after a pass that replaced the tree read functions that were freed (`InputsHold` covers it).
* Desugaring: a comparison of strings becomes a call of `strcmp` or `streq`, of which nothing sees to it that they are declared
  (`desugar-visitor.cc:41-45`). Without a prelude, with one that lacks them, and in a list of declarations that does, `tc` refuses the tree that it has
  made itself. A program with a `streq` of its own never has it called in their place: `rename`, which the
  desugaring depends on, has given it another name by then, unless it is a primitive, which is the one of the run time. (`combine-desugar` depends on `combine-rename` instead, which has no
  body; it is not modelled on trees.)
* Code: after a break, a block goes on with a second terminator, and nobody asks what the verifier
  says (`translator.cc:619`); a phi behind it has too few values. A program that declares `primitive print` again makes a
  second `tc_print`, which LLVM renames and nothing finds. A for loop that is not desugared leaves
  its breaks without a loop. `ord` of a character above 127 is negative, though it is said to be the
  inverse of `chr` (`tiger-runtime.c:146`).
* Printing: besides the cases of `Ambiguous`, edges of record types leave ports that are not shown
  (`dumper-dot.cc:367`).

## What is not modelled

* Text: error messages, help, indentation, what the cells of a drawing say, locations beyond their file.
* LLVM itself, and the numbering and names of its instructions; what the code does is
  interpreted on the tree (`Eval`), and what it looks like is in `Translator`.
* The automata of scanner and parser, and the recovery from syntax errors. The object extension in grammar, tree, printer and dumper.
* The prelude that is built into `tc`: a file stands for it. Files that exist are taken to be readable.
* `llvmgc`'s LLVM passes, the bounds-checking visitor, `overload/`'s type checker, most of `object/`,
  `combine/` and `inlining/`: the repository has skeletons only ("Some code was deleted
  here"). `object/desugar-visitor.cc` is complete but needs trees that no other code here makes or types.
* In lambda lifting: types of arguments. In the timer: the numbers of its tasks and its copy.
* `tcsh`, scripts and build files.

## Plan

Done: 1. `Gc` with proofs of safety, exactness and its refinement; 2. `TaskRegister`; 3. `ScopedMap` and `Binder`;
4. `LambdaLifting`; 5. the front end, from text to code; 6. `Timer` with the proof of its refinement; 7. `Driver` with
scanner and library; 8. proofs of all safety properties of 1 to 4 and 6; 9. the invariant of the stacks of 7.

To do, in this order:

10. Run-time meaning of lambda lifting: that the address a function is passed belongs to
   the right activation of the function around it, with `ClosedSuffices` as the first
   step and `Translator`'s calls as the code.
11. Objects, once the repository has their visits: `object::DesugarVisitor` is the largest part
    of the code that is left.
