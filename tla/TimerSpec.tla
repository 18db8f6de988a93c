-------------------------------- MODULE TimerSpec ------------------------------
(***************************************************************************)
(* What a timer of nested tasks promises: each tick of a clock is charged  *)
(* once, to the task that is running, which is the last one started.       *)
(***************************************************************************)
EXTENDS Integers, Sequences

CONSTANTS
  Names,  \* of the tasks
  Clocks  \* that tick

VARIABLES
  tasks,  \* the tasks started and not stopped, the last one at the end
  spent   \* the ticks of each clock charged to a task

Top(s)     == s[Len(s)]
Without(s) == SubSeq(s, 1, Len(s) - 1)

SpecInit == tasks = <<>> /\ spent = [c \in Clocks |-> [n \in Names |-> 0]]

Charge ==
  /\ tasks # <<>>
  /\ \E c \in Clocks : spent' = [spent EXCEPT ![c][Top(tasks)] = @ + 1]
  /\ UNCHANGED tasks
Begin ==
  /\ \E n \in Names : tasks' = Append(tasks, n)
  /\ UNCHANGED spent
End ==
  /\ tasks # <<>>
  /\ tasks' = Without(tasks)
  /\ UNCHANGED spent
EndAll == tasks' = <<>> /\ UNCHANGED spent

\* What another timer charged to tasks that did not run here.
Imported ==
  /\ spent' \in [Clocks -> [Names -> Nat]]
  /\ \A c \in Clocks, n \in Names : spent'[c][n] # spent[c][n] =>
       spent[c][n] = 0 /\ \A i \in DOMAIN tasks : tasks[i] # n
  /\ UNCHANGED tasks

SpecNext == Charge \/ Begin \/ End \/ EndAll \/ Imported
Spec == SpecInit /\ [][SpecNext]_<<tasks, spent>>
================================================================================
