-------------------------------- MODULE TimerProps -----------------------------
(***************************************************************************)
(* What the report of a timer can be trusted for.                          *)
(***************************************************************************)
EXTENDS Timer, TLC

\* The time of a task, that of its current run included.
ChargedAt(c) == [n \in Names |->
  IF tasks # <<>> /\ n = Top(tasks) THEN Elapsed(c, n) ELSE elapsed[c][n]]
Charged == [c \in Clocks |-> ChargedAt(c)]

\* Every tick is charged once, to the task on the top of the stack: none is lost
\* and none counted twice when tasks are nested, in themselves too, stopped and
\* resumed, or when tasks of another timer come in.
Abstract == INSTANCE TimerSpec WITH spent <- Charged
ChargesTheTop == Abstract!Spec

\* When all tasks ran from a start of the total to its stop, the report of the
\* timer adds up, on each of the clocks: what its own tasks took is no more than
\* the total; none took more than from its first start to its last stop, where the
\* second table has it; and a task that took time on the wall is in that table.
\* The tasks of another timer are left out of the sum: their time is also that of
\* the task that was running here in the meantime.
ReportAddsUp ==
  whole /\ ~timing =>
    LET rows == DOMAIN dump.execution
        took == dump.execution
    IN  /\ \A c \in Clocks :
             SumFunctionOnSet([n \in rows |-> took[n][c]], rows \ imports) <= dump.total[c]
        /\ \A n \in rows :
             /\ took[n][Wall] # 0 => n \in DOMAIN dump.cumulated
             /\ n \in DOMAIN dump.cumulated =>
                  \A c \in Clocks : took[n][c] <= dump.cumulated[n][c]

\* Tasks are treated alike, and so are the clocks but the one on the wall.
Symmetry == Permutations(Names) \cup Permutations(Clocks \ {Wall})
=============================================================================
