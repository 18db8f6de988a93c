---------------------------------- MODULE Timer --------------------------------
(***************************************************************************)
(* misc::timer (src/lib/misc/timer.cc): the time each task takes, nested   *)
(* ones left out.  The stack holds the tasks started; only the top one is  *)
(* running, and is stopped when another is pushed on it.  A time is taken  *)
(* on three clocks, which do not tick together: elapsed[c][n] is what task *)
(* n took on clock c.                                                      *)
(***************************************************************************)
EXTENDS Integers, Sequences, Functions

CONSTANTS
  Names,     \* of tasks
  Clocks,    \* the fields of struct time: user, sys and wall
  Wall,      \* the last of them
  MaxNow,    \* bound: ticks of the clocks together
  MaxTotal,  \* bound: the total of each clock
  MaxDepth   \* bound: tasks in one another

ASSUME MaxNowAssumption == MaxNow \in Nat
ASSUME ClocksAssumption == Wall \in Clocks

VARIABLES
  now,       \* what times() says of each clock
  tasks,     \* the stack, its top at the end
  known,     \* the tasks tasksmap has
  begin,     \* of each clock and task, the last start,
  elapsed,   \*   the time between starts and stops,
  first,     \*   the first start
  last,      \*   and the last stop
  total,     \* the same for the whole program: begin, elapsed
  imports,   \* history: the tasks of another timer
  timing,    \* history: the total is started and not stopped
  whole,     \* history: all tasks ran from a start of the total to its stop
  dumping,   \* dump_stream is set
  alive      \* FALSE once the timer is destroyed

tmvars == <<now, tasks, known, begin, elapsed, first, last, total, imports,
            timing, whole, dumping, alive>>

Top(s)     == s[Len(s)]
Without(s) == SubSeq(s, 1, Len(s) - 1)

NoTime == [c \in Clocks |-> 0]

Init ==
  /\ now = NoTime /\ tasks = <<>> /\ known = {} /\ imports = {}
  /\ begin = [c \in Clocks |-> [n \in Names |-> 0]]
  /\ elapsed = begin /\ first = begin /\ last = begin
  /\ total = [begin |-> NoTime, elapsed |-> NoTime]
  /\ timing = FALSE /\ whole = TRUE /\ dumping = FALSE /\ alive = TRUE

-----------------------------------------------------------------------------
(* time_var *)

\* What stopping the top of the stack makes of the times: nothing, if it is empty.
Elapsed(c, n) == elapsed[c][n] + (now[c] - begin[c][n])
StoppedElapsed ==
  IF tasks = <<>> THEN elapsed
  ELSE [c \in Clocks |-> [elapsed[c] EXCEPT ![Top(tasks)] = Elapsed(c, Top(tasks))]]
StoppedLast ==
  IF tasks = <<>> THEN last ELSE [c \in Clocks |-> [last[c] EXCEPT ![Top(tasks)] = now[c]]]

\* Only the first start is remembered, that of a task of another timer as well.
StartOf(times, n) == [c \in Clocks |-> [times[c] EXCEPT ![n] = now[c]]]
Started(n) ==
  /\ begin' = StartOf(begin, n)
  /\ first' = IF n \in known THEN first ELSE StartOf(first, n)

\* The total stops, whether it was started or not.
StoppedTotal ==
  [total EXCEPT !.elapsed = [c \in Clocks |-> total.elapsed[c] + (now[c] - total.begin[c])]]

-----------------------------------------------------------------------------
Tick ==
  /\ alive /\ SumFunction(now) < MaxNow
  /\ \E c \in Clocks : now' = [now EXCEPT ![c] = @ + 1]
  /\ UNCHANGED <<tasks, known, begin, elapsed, first, last, total, imports, timing, whole,
                 dumping, alive>>

\* Mutant: the task that is running is not stopped.
pushOver(n) ==
  /\ alive /\ Len(tasks) < MaxDepth
  /\ tasks' = Append(tasks, n) /\ known' = known \cup {n}
  /\ Started(n)
  /\ whole' = (whole /\ timing)
  /\ UNCHANGED <<now, elapsed, last, total, imports, timing, dumping, alive>>

push(n) ==
  /\ alive /\ Len(tasks) < MaxDepth
  /\ elapsed' = StoppedElapsed /\ last' = StoppedLast
  /\ tasks' = Append(tasks, n) /\ known' = known \cup {n}
  /\ Started(n)
  /\ whole' = (whole /\ timing)
  /\ UNCHANGED <<now, total, imports, timing, dumping, alive>>

\* Mutant: the task that is resumed still has the time it was started at.
popStale ==
  /\ alive /\ tasks # <<>>
  /\ elapsed' = StoppedElapsed /\ last' = StoppedLast
  /\ tasks' = Without(tasks)
  /\ UNCHANGED <<now, known, begin, first, total, imports, timing, whole, dumping, alive>>

pop ==
  /\ alive /\ tasks # <<>>
  /\ elapsed' = StoppedElapsed /\ last' = StoppedLast
  /\ tasks' = Without(tasks)
  /\ begin' = IF tasks' = <<>> THEN begin ELSE StartOf(begin, Top(tasks'))
  /\ UNCHANGED <<now, known, first, total, imports, timing, whole, dumping, alive>>

\* start() and stop() are for the total, at any time: tc starts it before any task
\* and leaves the stop to the end, a test stops it after the last task.  To start
\* it again before it is stopped loses time.
start ==
  /\ alive
  /\ total' = [total EXCEPT !.begin = now]
  /\ timing' = TRUE /\ whole' = (whole /\ ~timing)
  /\ UNCHANGED <<now, tasks, known, begin, elapsed, first, last, imports, dumping, alive>>

stop ==
  /\ alive /\ \A c \in Clocks : StoppedTotal.elapsed[c] <= MaxTotal
  /\ total' = StoppedTotal
  /\ timing' = FALSE /\ whole' = (whole /\ timing /\ tasks = <<>>)
  /\ UNCHANGED <<now, tasks, known, begin, elapsed, first, last, imports, dumping, alive>>

\* The tasks of another timer that this one does not have are copied, with what
\* they took until now; the same times for each is a bound.
merge ==
  /\ alive
  /\ \E S \in (SUBSET (Names \ known)) \ {{}}, e \in [Clocks -> 0 .. MaxNow] :
       /\ \A c \in Clocks : e[c] <= now[c]
       /\ known' = known \cup S /\ imports' = imports \cup S
       /\ elapsed' = [c \in Clocks |-> [n \in Names |-> IF n \in S THEN e[c] ELSE elapsed[c][n]]]
       /\ first' = [c \in Clocks |-> [n \in Names |-> IF n \in S THEN now[c] - e[c] ELSE first[c][n]]]
       /\ last' = [c \in Clocks |-> [n \in Names |-> IF n \in S THEN now[c] ELSE last[c][n]]]
  /\ UNCHANGED <<now, tasks, begin, total, timing, whole, dumping, alive>>

dump_on_destruction ==
  /\ alive /\ ~dumping /\ dumping' = TRUE
  /\ UNCHANGED <<now, tasks, known, begin, elapsed, first, last, total, imports, timing, whole,
                 alive>>

\* A timer that is to be dumped first stops what still runs: all tasks are popped
\* at once, so that only the top one takes more time, and then the total.
destroy ==
  /\ alive /\ alive' = FALSE
  /\ IF dumping /\ tasks # <<>>
     THEN /\ elapsed' = StoppedElapsed
          /\ last' = [c \in Clocks |-> [n \in Names |->
                        IF \E i \in DOMAIN tasks : tasks[i] = n THEN now[c] ELSE last[c][n]]]
          /\ tasks' = <<>>
          /\ total' = StoppedTotal
          /\ timing' = FALSE /\ whole' = (whole /\ timing)
     ELSE UNCHANGED <<tasks, elapsed, last, total, timing, whole>>
  /\ UNCHANGED <<now, known, begin, first, imports, dumping>>

-----------------------------------------------------------------------------
(* What is dumped: the tasks that took time on some clock, the tasks that   *)
(* did not end when they began by the clock on the wall, with the time from *)
(* one to the other, and the total.                                         *)

Took(n)   == \E c \in Clocks : elapsed[c][n] # 0
Lasted(n) == last[Wall][n] # first[Wall][n]

dump ==
  [execution |-> [n \in {x \in known : Took(x)} |-> [c \in Clocks |-> elapsed[c][n]]],
   cumulated |-> [n \in {x \in known : Lasted(x)} |->
                    [c \in Clocks |-> last[c][n] - first[c][n]]],
   total     |-> total.elapsed]

Next ==
  \/ Tick \/ (\E n \in Names : push(n)) \/ pop \/ start \/ stop \/ merge
  \/ dump_on_destruction \/ destroy

Spec == Init /\ [][Next]_tmvars
================================================================================
