------------------------------ MODULE TaskProofs ------------------------------
(***************************************************************************)
(* For every table of tasks and every command line: the order the search   *)
(* of resolve_dependencies builds runs each task after its dependencies.   *)
(*                                                                         *)
(* The invariant follows the recursion: whatever the task of a frame       *)
(* depends on is in the order already, still to be looked at by the frame, *)
(* or being enabled by the frame above it (FrameOK).                       *)
(***************************************************************************)
EXTENDS TaskProps, TLAPS

\* A dependency that is met stays met when more tasks are there.
LEMMA MetByMonotone ==
  ASSUME NEW t \in Task, NEW S, NEW T, S \subseteq T, MetBy(t, S)
  PROVE  MetBy(t, T)
BY DEF MetBy

\* The elements of a sequence that is not empty: its head, and those of its tail.
LEMMA ElementsOfHeadAndTail ==
  ASSUME NEW A, NEW s \in Seq(A), s # <<>>
  PROVE  /\ ToSet(s) = {Head(s)} \cup ToSet(Tail(s))
         /\ Head(s) \in A
         /\ Tail(s) \in Seq(A)
<1>1. /\ Head(s) \in A /\ Tail(s) \in Seq(A)
      /\ Len(s) \in Nat \ {0} /\ Len(Tail(s)) = Len(s) - 1
      /\ Head(s) = s[1]
  OBVIOUS
<1>2. \A i \in 1..Len(s) : s[i] \in {Head(s)} \cup ToSet(Tail(s))
  <2> TAKE i \in 1..Len(s)
  <2>1. CASE i = 1
    BY <1>1, <2>1
  <2>2. CASE i # 1
    <3>1. i - 1 \in DOMAIN Tail(s) /\ Tail(s)[i - 1] = s[i]
      BY <1>1, <2>2
    <3> QED BY <3>1 DEF ToSet
  <2> QED BY <2>1, <2>2
<1>3. \A j \in 1..Len(Tail(s)) : Tail(s)[j] = s[j + 1] /\ j + 1 \in 1..Len(s)
  BY <1>1
<1> QED BY <1>1, <1>2, <1>3 DEF ToSet

\* The elements of a sequence one element has been appended to.
LEMMA ElementsOfAppend ==
  ASSUME NEW A, NEW s \in Seq(A), NEW e \in A
  PROVE  /\ ToSet(Append(s, e)) = ToSet(s) \cup {e}
         /\ Append(s, e) \in Seq(A)
<1>1. \A i \in 1..Len(s) : Append(s, e)[i] = s[i]
  OBVIOUS
<1>2. Len(Append(s, e)) = Len(s) + 1 /\ Append(s, e)[Len(s) + 1] = e /\ Len(s) \in Nat
  OBVIOUS
<1> QED BY <1>1, <1>2 DEF ToSet

\* What ToActivate returns are dependencies of the task, and enough of them.
LEMMA ActivationIsEnough ==
  ASSUME TaskAssumption, NEW t \in Task, NEW order \in Seq(Task)
  PROVE  /\ ToActivate(t, order) \in Seq(Task)
         /\ ToSet(ToActivate(t, order)) \subseteq ToSet(Deps[t])
         /\ MetBy(t, ToSet(order) \cup ToSet(ToActivate(t, order)))
<1>1. Deps[t] \in Seq(Task)
  BY DEF TaskAssumption
<1>2. CASE t \notin Disjunctive \/ Deps[t] = <<>>
  BY <1>1, <1>2 DEF ToActivate, MetBy
<1>3. CASE /\ t \in Disjunctive /\ Deps[t] # <<>>
           /\ ToSet(Deps[t]) \cap task_list \cap ToSet(order) # {}
  <2>1. ToActivate(t, order) = <<>>
    BY <1>3 DEF ToActivate
  <2>2. ToSet(<<>>) = {}
    BY DEF ToSet
  <2> QED BY <1>3, <2>1, <2>2 DEF MetBy
<1>4. CASE /\ t \in Disjunctive /\ Deps[t] # <<>>
           /\ ToSet(Deps[t]) \cap task_list \cap ToSet(order) = {}
  <2>1. ToActivate(t, order) = <<Head(Deps[t])>>
    BY <1>4 DEF ToActivate
  <2>2. ToSet(<<Head(Deps[t])>>) = {Head(Deps[t])}
    BY DEF ToSet
  <2>3. Head(Deps[t]) \in ToSet(Deps[t]) /\ Head(Deps[t]) \in Task
    BY <1>1, <1>4, ElementsOfHeadAndTail
  <2>4. <<Head(Deps[t])>> \in Seq(Task)
    BY <2>3
  <2>5. ToSet(Deps[t]) \cap (ToSet(order) \cup {Head(Deps[t])}) # {}
    BY <2>3
  <2>6. MetBy(t, ToSet(order) \cup {Head(Deps[t])})
    BY <2>5, <1>4 DEF MetBy
  <2> QED BY <2>1, <2>2, <2>3, <2>4, <2>6
<1> QED BY <1>2, <1>3, <1>4

-----------------------------------------------------------------------------
(***************************************************************************)
(* Type correctness.                                                       *)
(***************************************************************************)
\* What error::operator<< keeps is a status.
LEMMA StatusType ==
  ASSUME NEW a \in 0..5, NEW b \in 0..5
  PROVE  WithStatus(a, b) \in 0..5
BY DEF WithStatus

\* enable_task pushes a frame.
LEMMA EnterType ==
  ASSUME TaskAssumption, TypeOK, NEW t \in Task, Enter(t)
  PROVE  /\ error' \in 0..5
         /\ calls' \in Seq([task : Task, todo : Seq(Task)])
<1>1. ToActivate(t, task_order) \in Seq(Task)
  BY ActivationIsEnough DEF TypeOK
<1>2. [task |-> t, todo |-> ToActivate(t, task_order)] \in [task : Task, todo : Seq(Task)]
  BY <1>1
<1>3. Failure \in 0..5
  BY DEF Failure
<1>4. error' \in 0..5
  BY <1>3, StatusType DEF TypeOK, Enter
<1>5. calls' \in Seq([task : Task, todo : Seq(Task)])
  BY <1>2 DEF TypeOK, Enter
<1> QED BY <1>4, <1>5

\* The frame on top of the stack gets past its first dependency.
LEMMA AdvanceType ==
  ASSUME TypeOK, calls # <<>>, Head(calls).todo # <<>>
  PROVE  /\ Advance(calls) \in Seq([task : Task, todo : Seq(Task)])
         /\ Len(Advance(calls)) = Len(calls)
         /\ Advance(calls)[1].task = calls[1].task
         /\ Advance(calls)[1].todo = Tail(calls[1].todo)
         /\ \A i \in 2..Len(calls) : Advance(calls)[i] = calls[i]
         /\ Head(Head(calls).todo) \in Task
         /\ ToSet(calls[1].todo) =
              {Head(Head(calls).todo)} \cup ToSet(Tail(calls[1].todo))
<1> DEFINE Frame == [task : Task, todo : Seq(Task)]
           top == [task |-> Head(calls).task, todo |-> Tail(Head(calls).todo)]
<1>1. calls \in Seq(Frame) /\ Len(calls) \in Nat \ {0} /\ Head(calls) = calls[1]
  BY DEF TypeOK
<1>2. Head(calls) \in Frame
  <2> HIDE DEF Frame
  <2> QED BY <1>1
<1>3. Head(calls).todo \in Seq(Task) /\ Head(calls).task \in Task
  BY <1>2
<1>4. /\ Head(Head(calls).todo) \in Task
      /\ Tail(Head(calls).todo) \in Seq(Task)
      /\ ToSet(Head(calls).todo) =
           {Head(Head(calls).todo)} \cup ToSet(Tail(Head(calls).todo))
  BY <1>3, ElementsOfHeadAndTail
<1>5. top \in Frame
  BY <1>3, <1>4
<1>6. /\ Tail(calls) \in Seq(Frame)
      /\ Len(Tail(calls)) = Len(calls) - 1
      /\ \A i \in 1..(Len(calls) - 1) : Tail(calls)[i] = calls[i + 1]
  BY <1>1
<1>7. Advance(calls) = <<top>> \o Tail(calls)
  BY DEF Advance
<1> HIDE DEF Frame, top
<1>8. /\ Advance(calls) \in Seq(Frame)
      /\ Len(Advance(calls)) = Len(calls)
      /\ Advance(calls)[1] = top
      /\ \A i \in 2..Len(calls) : Advance(calls)[i] = Tail(calls)[i - 1]
  BY <1>1, <1>5, <1>6, <1>7
<1>9. \A i \in 2..Len(calls) : Advance(calls)[i] = calls[i]
  BY <1>1, <1>6, <1>8
<1>10. Advance(calls)[1].task = calls[1].task /\ Advance(calls)[1].todo = Tail(calls[1].todo)
  BY <1>1, <1>8 DEF top
<1> QED BY <1>1, <1>4, <1>8, <1>9, <1>10 DEF Frame

\* Every step preserves the types.
LEMMA TypeStep ==
  ASSUME TaskAssumption, TypeOK, [Next]_vars
  PROVE  TypeOK'
<1> DEFINE Frame == [task : Task, todo : Seq(Task)]
<1> USE DEF register, resolution
<1>1. CASE Register
  <2>1. Head(declared) \in Task /\ Tail(declared) \in Seq(Task)
    BY <1>1, ElementsOfHeadAndTail DEF Register, TypeOK
  <2>2. error' \in 0..5
    BY <1>1, StatusType DEF Register, TypeOK, Failure
  <2> QED BY <1>1, <2>1, <2>2 DEF Register, TypeOK
<1>2. CASE StartMain
  BY <1>2 DEF StartMain, TypeOK
<1>3. CASE Activate
  <2> DEFINE d == Head(Head(calls).todo)
  <2>1. d \in Task /\ Advance(calls) \in Seq(Frame)
    BY <1>3, AdvanceType DEF Activate, Enabling
  <2>2. ToActivate(d, task_order) \in Seq(Task)
    BY <2>1, ActivationIsEnough DEF TypeOK
  <2>3. [task |-> d, todo |-> ToActivate(d, task_order)] \in Frame
    BY <2>1, <2>2
  <2>4. calls' = <<[task |-> d, todo |-> ToActivate(d, task_order)]>> \o Advance(calls)
    BY <1>3 DEF Activate
  <2>5. calls' \in Seq(Frame)
    <3> HIDE DEF Frame
    <3> QED BY <2>1, <2>3, <2>4
  <2>6. error' \in 0..5
    <3>1. error \in 0..5 /\ Failure \in 0..5
      BY DEF TypeOK, Failure
    <3>2. error' = IF Unknown(d) # {} THEN WithStatus(error, Failure) ELSE error
      BY <1>3 DEF Activate
    <3> QED BY <3>1, <3>2, StatusType, Zenon
  <2> QED BY <1>3, <2>5, <2>6 DEF Activate, TypeOK
<1>4. CASE SkipDependency
  <2>1. calls' \in Seq(Frame)
    BY <1>4, AdvanceType DEF SkipDependency, Enabling
  <2> QED BY <1>4, <2>1 DEF SkipDependency, TypeOK
<1>5. CASE Push
  <2>1. calls \in Seq(Frame) /\ calls # <<>>
    BY <1>5 DEF Push, Enabling, TypeOK
  <2>2. Head(calls) \in Frame /\ Tail(calls) \in Seq(Frame)
    <3> HIDE DEF Frame
    <3> QED BY <2>1
  <2>3. task_order' \in Seq(Task)
    BY <1>5, <2>2 DEF Push, TypeOK
  <2> QED BY <1>5, <2>2, <2>3 DEF Push, TypeOK
<1>6. CASE Option
  <2>1. PICK t \in Options : Enter(t)
    BY <1>6 DEF Option
  <2>2. t \in Task
    BY DEF TaskAssumption, ToSet
  <2>3. error' \in 0..5 /\ calls' \in Seq(Frame)
    BY <2>1, <2>2, EnterType
  <2> QED BY <1>6, <2>3 DEF Option, TypeOK
<1>7. CASE JustInform
  BY <1>7 DEF JustInform, Exit, TypeOK
<1>8. CASE BadUsage
  BY <1>8 DEF BadUsage, Exit, TypeOK
<1>9. CASE NoMoreOptions
  <2>1. Parse \in Task
    BY DEF TaskAssumption, ToSet
  <2>2. error' \in 0..5 /\ calls' \in Seq(Frame)
    BY <1>9, <2>1, EnterType DEF NoMoreOptions, TypeOK
  <2> QED BY <1>9, <2>2 DEF NoMoreOptions, Exit, TypeOK
<1>10. CASE Execute
  <2>1. Current \in Task
    BY <1>10 DEF Execute, Current, TypeOK
  <2>2. PICK o \in Outcomes[Current] :
          /\ error' = IF o.kind \in {"ok", "record", "exit"}
                      THEN WithStatus(error, o.status) ELSE error
          /\ CASE o.kind = "exit" -> Exit(error')
               [] o.kind = "own" -> Exit(o.status)
               [] o.kind = "throw" -> Exit(0)
               [] OTHER -> UNCHANGED <<pc, status>>
    BY <1>10 DEF Execute
  <2>3. o \in Outcome
    BY <2>1 DEF TaskAssumption
  <2>4. o.status \in 0..5 /\ o.kind \in {"ok", "record", "exit", "own", "throw"}
    BY <2>3 DEF Outcome
  <2>5. error' \in 0..5
    BY <2>2, <2>4, StatusType DEF TypeOK
  <2>6. /\ pc' \in {"static", "options", "tasks", "exited"}
        /\ status' \in {0, 1, 2, 3, 4, 5, Usage, Running}
    BY <2>2, <2>4, <2>5 DEF Exit, TypeOK
  <2>7. facts' \subseteq Fact
    <3>1. On \in SUBSET Flag
      BY DEF On
    <3>2. Provides \in [Task -> [SUBSET Flag -> SUBSET Fact]]
      BY DEF TaskAssumption
    <3>3. Provides[Current][On] \in SUBSET Fact
      BY <2>1, <3>1, <3>2
    <3> QED BY <1>10, <3>3 DEF Execute, TypeOK
  <2> QED BY <1>10, <2>5, <2>6, <2>7 DEF Execute, TypeOK
<1>11. CASE Finish
  BY <1>11 DEF Finish, Exit, TypeOK
<1>12. CASE UNCHANGED vars
  BY <1>12 DEF vars, TypeOK
<1> QED BY <1>1, <1>2, <1>3, <1>4, <1>5, <1>6, <1>7, <1>8, <1>9, <1>10, <1>11,
           <1>12 DEF Next, Resolve, CommandLine

\* The variables of the driver keep their types, whatever the task table.
THEOREM TaskTypeCorrect == Spec => []TypeOK
<1>1. Init => TypeOK
  BY TaskAssumption DEF Init, TypeOK, TaskAssumption, Running
<1>2. TypeOK /\ [Next]_vars => TypeOK'
  BY TaskAssumption, TypeStep
<1> QED BY <1>1, <1>2, PTL DEF Spec

-----------------------------------------------------------------------------
(***************************************************************************)
(* The order.                                                              *)
(***************************************************************************)
\* enable_task, called with nothing being resolved.
LEMMA EnterResolution ==
  ASSUME TaskAssumption, TypeOK, NEW t \in Task, Enter(t), calls = <<>>,
         error' = 0
  PROVE  Resolving(task_order, calls', task_list)
<1> DEFINE todo == ToActivate(t, task_order)
<1>1. /\ todo \in Seq(Task)
      /\ ToSet(todo) \subseteq ToSet(Deps[t])
      /\ MetBy(t, ToSet(task_order) \cup ToSet(todo))
  BY ActivationIsEnough DEF TypeOK
<1>2. calls' = <<[task |-> t, todo |-> todo]>>
  BY DEF Enter
<1>3. Unknown(t) = {}
  <2>1. CASE Unknown(t) # {}
    BY <2>1 DEF Enter, WithStatus, Failure, TypeOK
  <2> QED BY <2>1
<1>4. ToSet(todo) \subseteq task_list
  BY <1>1, <1>3 DEF Unknown
<1> HIDE DEF todo
<1>5. Len(calls') = 1 /\ calls'[1].task = t /\ calls'[1].todo = todo
  BY <1>2
<1>6. MetBy(t, Coming(task_order, calls', 1))
  BY <1>1, <1>5, MetByMonotone DEF Coming
<1> QED BY <1>4, <1>5, <1>6 DEF Resolving

\* A dependency is enabled: the frame below counts on the new frame for it.
LEMMA ActivateResolution ==
  ASSUME TaskAssumption, TypeOK, Activate, error' = 0,
         Resolving(task_order, calls, task_list)
  PROVE  Resolving(task_order, calls', task_list)
<1> DEFINE Frame == [task : Task, todo : Seq(Task)]
           d == Head(Head(calls).todo)
           todo == ToActivate(d, task_order)
           new == [task |-> d, todo |-> todo]
           adv == Advance(calls)
<1>1. calls # <<>> /\ Head(calls).todo # <<>>
  BY DEF Activate, Enabling
<1>0. calls \in Seq(Frame) /\ Len(calls) \in Nat
  BY DEF TypeOK
<1>2. /\ adv \in Seq(Frame) /\ Len(adv) = Len(calls)
      /\ adv[1].task = calls[1].task /\ adv[1].todo = Tail(calls[1].todo)
      /\ \A i \in 2..Len(calls) : adv[i] = calls[i]
      /\ d \in Task
      /\ ToSet(calls[1].todo) = {d} \cup ToSet(Tail(calls[1].todo))
  BY <1>1, AdvanceType
<1>3. /\ calls' = <<new>> \o adv
      /\ error' = IF Unknown(d) # {} THEN WithStatus(error, Failure) ELSE error
  BY DEF Activate
<1>4. /\ todo \in Seq(Task)
      /\ ToSet(todo) \subseteq ToSet(Deps[d])
      /\ MetBy(d, ToSet(task_order) \cup ToSet(todo))
  BY <1>2, ActivationIsEnough DEF TypeOK
<1>5. ToSet(todo) \subseteq task_list
  <2>1. CASE Unknown(d) # {}
    BY <2>1, <1>3 DEF WithStatus, Failure, TypeOK
  <2>2. CASE Unknown(d) = {}
    BY <2>2, <1>4 DEF Unknown
  <2> QED BY <2>1, <2>2
<1>6. new \in Frame /\ new.task = d /\ new.todo = todo
  BY <1>2, <1>4
<1>7. \A i \in 1..Len(calls) : calls[i].task \in Task
  <2>1. \A i \in 1..Len(calls) : calls[i] \in Frame
    <3> HIDE DEF Frame
    <3> QED BY <1>0
  <2> QED BY <2>1
<1> HIDE DEF Frame, new, todo, adv, d
<1>8. /\ Len(calls') = Len(calls) + 1
      /\ calls'[1] = new
      /\ \A i \in 2..(Len(calls) + 1) : calls'[i] = adv[i - 1]
      /\ DOMAIN calls' = 1..(Len(calls) + 1)
      /\ DOMAIN calls = 1..Len(calls)
      /\ 1 \in 1..Len(calls)
  BY <1>0, <1>1, <1>2, <1>3, <1>6
<1>9. calls'[2].task = calls[1].task /\ calls'[2].todo = Tail(calls[1].todo)
  <2>1. 2 \in 2..(Len(calls) + 1) /\ 2 - 1 = 1
    BY <1>0, <1>8
  <2>2. calls'[2] = adv[1]
    BY <2>1, <1>8
  <2> QED BY <2>2, <1>2
<1>10. ASSUME NEW i \in 3..(Len(calls) + 1)
       PROVE  /\ calls'[i] = calls[i - 1]
              /\ i - 1 \in 2..Len(calls) /\ i - 2 \in 1..Len(calls)
              /\ (i - 1) - 1 = i - 2
  <2>1. /\ i \in 2..(Len(calls) + 1) /\ i - 1 \in 2..Len(calls)
        /\ i - 2 \in 1..Len(calls) /\ (i - 1) - 1 = i - 2
    BY <1>0
  <2> QED BY <2>1, <1>2, <1>8
<1> DEFINE OK(stack, i) == /\ MetBy(stack[i].task, Coming(task_order, stack, i))
                           /\ ToSet(stack[i].todo) \subseteq task_list
<1>11. \A i \in 1..Len(calls) : OK(calls, i)
  BY DEF Resolving
<1>12. OK(calls', 1)
  <2>1. ToSet(task_order) \cup ToSet(todo) \subseteq Coming(task_order, calls', 1)
    BY <1>6, <1>8 DEF Coming
  <2> QED BY <2>1, <1>2, <1>4, <1>5, <1>6, <1>8, MetByMonotone
<1>13. OK(calls', 2)
  <2>1. Coming(task_order, calls, 1) \subseteq Coming(task_order, calls', 2)
    <3>1. d \in Coming(task_order, calls', 2)
      BY <1>2, <1>6, <1>8 DEF Coming
    <3>2. {calls[j].task : j \in {1 - 1} \cap DOMAIN calls} = {}
      BY <1>2, <1>8
    <3> QED BY <3>1, <3>2, <1>2, <1>9 DEF Coming
  <2> QED BY <2>1, <1>2, <1>7, <1>8, <1>9, <1>11, MetByMonotone
<1>14. ASSUME NEW i \in 3..(Len(calls) + 1)
       PROVE  OK(calls', i)
  <2>1. /\ i - 1 \in 1..Len(calls) /\ i - 1 \in 1..(Len(calls) + 1)
        /\ i = 3 \/ i - 1 \in 3..(Len(calls) + 1)
    BY <1>0
  <2>2. calls'[i - 1].task = calls[i - 2].task
    <3>1. CASE i = 3
      BY <3>1, <1>9
    <3>2. CASE i - 1 \in 3..(Len(calls) + 1)
      BY <3>2, <1>10
    <3> QED BY <2>1, <3>1, <3>2
  <2>3. {calls[j].task : j \in {(i - 1) - 1} \cap DOMAIN calls}
          \subseteq {calls'[j].task : j \in {i - 1} \cap DOMAIN calls'}
    BY <1>8, <1>10, <2>1, <2>2
  <2>4. Coming(task_order, calls, i - 1) \subseteq Coming(task_order, calls', i)
    BY <1>10, <2>3 DEF Coming
  <2>5. MetBy(calls[i - 1].task, Coming(task_order, calls', i))
    BY <2>1, <2>4, <1>7, <1>11, MetByMonotone
  <2> QED BY <1>10, <1>11, <2>1, <2>5
<1>15. \A i \in 1..Len(calls') : i = 1 \/ i = 2 \/ i \in 3..(Len(calls) + 1)
  BY <1>0, <1>8
<1> QED BY <1>12, <1>13, <1>14, <1>15 DEF Resolving

\* A dependency is passed over: it is in the order already.
LEMMA SkipResolution ==
  ASSUME TaskAssumption, TypeOK, SkipDependency,
         Resolving(task_order, calls, task_list)
  PROVE  Resolving(task_order, calls', task_list)
<1> DEFINE Frame == [task : Task, todo : Seq(Task)]
           d == Head(Head(calls).todo)
           adv == Advance(calls)
<1>1. calls # <<>> /\ Head(calls).todo # <<>>
  BY DEF SkipDependency, Enabling
<1>0. calls \in Seq(Frame) /\ Len(calls) \in Nat
  BY DEF TypeOK
<1>2. /\ adv \in Seq(Frame) /\ Len(adv) = Len(calls)
      /\ adv[1].task = calls[1].task /\ adv[1].todo = Tail(calls[1].todo)
      /\ \A i \in 2..Len(calls) : adv[i] = calls[i]
      /\ d \in Task
      /\ ToSet(calls[1].todo) = {d} \cup ToSet(Tail(calls[1].todo))
  BY <1>1, AdvanceType
<1>3. calls' = adv /\ (d \notin task_list \/ d \in ToSet(task_order))
  BY DEF SkipDependency
<1>4. \A i \in 1..Len(calls) : calls[i].task \in Task
  <2>1. \A i \in 1..Len(calls) : calls[i] \in Frame
    <3> HIDE DEF Frame
    <3> QED BY <1>0
  <2> QED BY <2>1
<1> HIDE DEF Frame, adv, d
<1>5. DOMAIN calls = 1..Len(calls) /\ DOMAIN calls' = 1..Len(calls) /\ 1 \in 1..Len(calls)
  BY <1>0, <1>1, <1>2, <1>3
<1>9. \A i \in 1..Len(calls) : i = 1 \/ i \in 2..Len(calls)
  BY <1>0
<1>6. \A i \in 1..Len(calls) : calls'[i].task = calls[i].task
  BY <1>2, <1>3, <1>9
<1>7. d \in ToSet(task_order)
  BY <1>2, <1>3, <1>5 DEF Resolving
<1>8. ASSUME NEW i \in 1..Len(calls)
      PROVE  /\ MetBy(calls'[i].task, Coming(task_order, calls', i))
             /\ ToSet(calls'[i].todo) \subseteq task_list
  <2>1. /\ ToSet(calls[i].todo) \subseteq {d} \cup ToSet(calls'[i].todo)
        /\ ToSet(calls'[i].todo) \subseteq ToSet(calls[i].todo)
    <3>1. CASE i = 1
      BY <3>1, <1>2, <1>3
    <3>2. CASE i \in 2..Len(calls)
      BY <3>2, <1>2, <1>3
    <3> QED BY <3>1, <3>2, <1>9
  <2>2. \A j \in DOMAIN calls : calls'[j].task = calls[j].task
    BY <1>5, <1>6
  <2>3. Coming(task_order, calls, i) \subseteq Coming(task_order, calls', i)
    BY <1>5, <1>7, <2>1, <2>2 DEF Coming
  <2>4. MetBy(calls[i].task, Coming(task_order, calls', i))
    BY <2>3, <1>4, MetByMonotone DEF Resolving
  <2> QED BY <1>6, <2>1, <2>4 DEF Resolving
<1>10. Len(calls') = Len(calls)
  BY <1>2, <1>3
<1> QED BY <1>8, <1>10 DEF Resolving

\* The task of the top frame is pushed: by then the order meets all it needs,
\* and the frame below finds it in the order.
LEMMA PushResolution ==
  ASSUME TaskAssumption, TypeOK, Push, Ordered(task_order),
         Resolving(task_order, calls, task_list)
  PROVE  Ordered(task_order') /\ Resolving(task_order', calls', task_list)
<1> DEFINE Frame == [task : Task, todo : Seq(Task)]
           t == calls[1].task
           n == Len(task_order)
<1>1. /\ calls \in Seq(Frame) /\ calls # <<>> /\ task_order \in Seq(Task)
      /\ Head(calls).todo = <<>>
      /\ calls' = Tail(calls)
      /\ task_order' = Append(task_order, Head(calls).task)
  BY DEF Push, Enabling, TypeOK
<1> HIDE DEF Frame
<1>2. /\ Len(calls) \in Nat \ {0} /\ n \in Nat
      /\ Head(calls) = calls[1]
      /\ DOMAIN calls = 1..Len(calls) /\ 1 \in 1..Len(calls)
      /\ Len(calls') = Len(calls) - 1
      /\ DOMAIN calls' = 1..(Len(calls) - 1)
      /\ \A i \in 1..(Len(calls) - 1) : calls'[i] = calls[i + 1]
      /\ \A i \in 1..Len(calls) : calls[i] \in Frame
  BY <1>1
<1>3. \A i \in 1..Len(calls) : calls[i].task \in Task
  BY <1>2 DEF Frame
<1>4. /\ ToSet(task_order') = ToSet(task_order) \cup {t}
      /\ Len(task_order') = n + 1
      /\ task_order'[n + 1] = t
      /\ \A k \in 1..n : task_order'[k] = task_order[k]
  BY <1>1, <1>2, <1>3, ElementsOfAppend
<1>5. MetBy(t, ToSet(task_order))
  <2>1. ToSet(calls[1].todo) = {}
    BY <1>1, <1>2 DEF ToSet
  <2>2. {calls[j].task : j \in {1 - 1} \cap DOMAIN calls} = {}
    BY <1>2
  <2>3. Coming(task_order, calls, 1) = ToSet(task_order)
    BY <2>1, <2>2 DEF Coming
  <2> QED BY <2>3, <1>2 DEF Resolving
<1>6. Ordered(task_order')
  <2> DEFINE order == task_order'
  <2>1. n \in Nat /\ DOMAIN task_order = 1..n /\ (n + 1) - 1 = n
    BY <1>1, <1>2
  <2>2. /\ Len(order) = n + 1 /\ order[n + 1] = t
        /\ \A k \in 1..n : order[k] = task_order[k]
    BY <1>4
  <2> HIDE DEF n, order
  <2>3. ASSUME NEW k \in 1..(n + 1)
        PROVE  Before(order, k) = Before(task_order, k) /\ (k = n + 1 \/ k \in 1..n)
    <3>1. \A j \in 1..(k - 1) : j \in 1..n
      BY <2>1
    <3>2. k = n + 1 \/ k \in 1..n
      BY <2>1
    <3> QED BY <3>1, <3>2, <2>2 DEF Before
  <2>4. Before(task_order, n + 1) = ToSet(task_order)
    BY <2>1 DEF Before, ToSet
  <2>5. ASSUME NEW k \in 1..(n + 1)
        PROVE  MetBy(order[k], Before(order, k))
    <3>1. CASE k = n + 1
      BY <3>1, <2>2, <2>3, <2>4, <1>5
    <3>2. CASE k \in 1..n
      BY <3>2, <2>2, <2>3 DEF Ordered, n
    <3> QED BY <2>3, <3>1, <3>2
  <2>6. Ordered(order)
    BY <2>2, <2>5 DEF Ordered
  <2> QED BY <2>6 DEF order
<1>7. ASSUME NEW i \in 1..(Len(calls) - 1)
      PROVE  /\ MetBy(calls'[i].task, Coming(task_order', calls', i))
             /\ ToSet(calls'[i].todo) \subseteq task_list
  <2>1. i + 1 \in 1..Len(calls) /\ (i + 1) - 1 = i
    BY <1>2
  <2>2. Coming(task_order, calls, i + 1) \subseteq Coming(task_order', calls', i)
    <3>1. calls[i].task \in Coming(task_order', calls', i)
      <4>1. CASE i = 1
        BY <4>1, <1>4 DEF Coming
      <4>2. CASE i # 1
        <5>1. i - 1 \in 1..(Len(calls) - 1) /\ (i - 1) + 1 = i
          BY <4>2, <1>2
        <5>2. i - 1 \in DOMAIN calls' /\ calls'[i - 1] = calls[i]
          BY <5>1, <1>2
        <5> QED BY <5>2 DEF Coming
      <4> QED BY <4>1, <4>2
    <3>2. Coming(task_order, calls, i + 1)
            \subseteq ToSet(task_order) \cup ToSet(calls[i + 1].todo) \cup {calls[i].task}
      BY <2>1 DEF Coming
    <3>3. ToSet(task_order') \cup ToSet(calls'[i].todo) \subseteq Coming(task_order', calls', i)
      BY DEF Coming
    <3> QED BY <3>1, <3>2, <3>3, <1>2, <1>4
  <2>3. MetBy(calls[i + 1].task, Coming(task_order', calls', i))
    BY <2>1, <2>2, <1>3, MetByMonotone DEF Resolving
  <2> QED BY <1>2, <2>1, <2>3 DEF Resolving
<1> QED BY <1>2, <1>6, <1>7 DEF Resolving

\* Every step preserves what the search has established.
LEMMA ResolutionStep ==
  ASSUME TaskAssumption, TypeOK, ResolutionOK, [Next]_vars
  PROVE  ResolutionOK'
<1> USE DEF register, resolution
<1> DEFINE Done == Ordered(task_order) /\ Resolving(task_order, calls, task_list)
<1>1. CASE Register
  <2>1. calls' = <<>> /\ task_order' = <<>> /\ pc' = "static"
    BY <1>1 DEF Register, ResolutionOK
  <2>2. Ordered(<<>>) /\ Resolving(<<>>, <<>>, task_list')
    BY DEF Ordered, Resolving
  <2> QED BY <2>1, <2>2 DEF ResolutionOK
<1>2. CASE StartMain
  BY <1>2 DEF StartMain, ResolutionOK
<1>3. CASE Activate
  <2>1. calls # <<>> /\ Head(calls).todo # <<>>
    BY <1>3 DEF Activate, Enabling
  <2>2. pc # "tasks" /\ pc # "static"
    BY <2>1 DEF ResolutionOK
  <2>3. error' = 0 => error = 0
    BY <1>3 DEF Activate, WithStatus, Failure, TypeOK
  <2>4. error' = 0 => Resolving(task_order, calls', task_list)
    BY <1>3, <2>3, ActivateResolution DEF ResolutionOK
  <2>5. UNCHANGED <<pc, task_order, task_list>>
    BY <1>3 DEF Activate
  <2> QED BY <2>2, <2>3, <2>4, <2>5 DEF ResolutionOK
<1>4. CASE SkipDependency
  <2>1. calls # <<>> /\ Head(calls).todo # <<>>
    BY <1>4 DEF SkipDependency, Enabling
  <2>2. pc # "tasks" /\ pc # "static"
    BY <2>1 DEF ResolutionOK
  <2>3. UNCHANGED <<pc, task_order, task_list, error>>
    BY <1>4 DEF SkipDependency
  <2>4. error = 0 => Resolving(task_order, calls', task_list)
    BY <1>4, SkipResolution DEF ResolutionOK
  <2> QED BY <2>2, <2>3, <2>4 DEF ResolutionOK
<1>5. CASE Push
  <2>1. calls # <<>> /\ calls' = Tail(calls) /\ UNCHANGED <<pc, task_list, error>>
    BY <1>5 DEF Push, Enabling
  <2>2. pc # "static"
    BY <2>1 DEF ResolutionOK
  <2>3. pc = "tasks" => calls' = <<>>
    <3> DEFINE frame == [task |-> Parse, todo |-> <<>>]
    <3>1. pc = "tasks" => calls = <<frame>>
      BY <2>1 DEF ResolutionOK
    <3> HIDE DEF frame
    <3>2. Tail(<<frame>>) = <<>>
      OBVIOUS
    <3> QED BY <2>1, <3>1, <3>2
  <2>4. Done => Ordered(task_order') /\ Resolving(task_order', calls', task_list)
    BY <1>5, PushResolution
  <2> QED BY <2>1, <2>2, <2>3, <2>4 DEF ResolutionOK
<1>6. CASE Option
  <2>1. PICK t \in Options : Enter(t)
    BY <1>6 DEF Option
  <2>2. t \in Task
    BY DEF TaskAssumption, ToSet
  <2>3. /\ calls = <<>> /\ pc = "options"
        /\ UNCHANGED <<pc, task_order, task_list>>
    BY <1>6 DEF Option, Enabling
  <2>4. error' = 0 => error = 0
    BY <2>1 DEF Enter, WithStatus, Failure, TypeOK
  <2>5. error' = 0 => Resolving(task_order, calls', task_list)
    BY <2>1, <2>2, <2>3, EnterResolution
  <2> QED BY <2>3, <2>4, <2>5 DEF ResolutionOK
<1>7. CASE JustInform
  BY <1>7 DEF JustInform, Exit, ResolutionOK
<1>8. CASE BadUsage
  BY <1>8 DEF BadUsage, Exit, ResolutionOK
<1>9. CASE NoMoreOptions
  <2>1. /\ calls = <<>> /\ pc = "options"
        /\ UNCHANGED <<task_order, task_list>>
    BY <1>9 DEF NoMoreOptions, Enabling
  <2>2. CASE error # 0
    BY <1>9, <2>1, <2>2 DEF NoMoreOptions, Exit, ResolutionOK
  <2>3. CASE error = 0 /\ task_order # <<>>
    BY <1>9, <2>1, <2>3 DEF NoMoreOptions, ResolutionOK
  <2>4. CASE error = 0 /\ task_order = <<>>
    <3>1. pc' = "tasks" /\ Enter(Parse)
      BY <1>9, <2>4 DEF NoMoreOptions
    <3>2. Parse \in Task /\ Deps[Parse] = <<>>
      BY DEF TaskAssumption, ToSet
    <3>3. ToActivate(Parse, task_order) = <<>>
      BY <3>2 DEF ToActivate
    <3>4. calls' = <<[task |-> Parse, todo |-> <<>>]>>
      BY <2>1, <3>1, <3>3 DEF Enter
    <3>5. Unknown(Parse) = {}
      BY <3>2 DEF Unknown, ToSet
    <3>6. error' = 0
      BY <2>4, <3>1, <3>5 DEF Enter
    <3>7. Resolving(task_order, calls', task_list)
      BY <2>1, <3>1, <3>2, <3>6, EnterResolution
    <3>8. Ordered(task_order)
      BY <2>4 DEF Ordered
    <3> QED BY <2>1, <3>1, <3>4, <3>7, <3>8 DEF ResolutionOK
  <2> QED BY <2>2, <2>3, <2>4
<1>10. CASE Execute
  <2>1. /\ UNCHANGED <<calls, task_order, task_list>> /\ pc = "tasks" /\ calls = <<>>
    BY <1>10 DEF Execute, Enabling
  <2>2. pc' \in {"tasks", "exited"}
    BY <1>10, <2>1 DEF Execute, Exit
  <2> QED BY <2>1, <2>2 DEF ResolutionOK
<1>11. CASE Finish
  BY <1>11 DEF Finish, Exit, ResolutionOK
<1>12. CASE UNCHANGED vars
  BY <1>12 DEF vars, ResolutionOK
<1> QED BY <1>1, <1>2, <1>3, <1>4, <1>5, <1>6, <1>7, <1>8, <1>9, <1>10, <1>11,
           <1>12 DEF Next, Resolve, CommandLine

\* What the search has established holds in every state.
THEOREM SearchInvariance == Spec => [](TypeOK /\ ResolutionOK)
<1>1. Init => TypeOK /\ ResolutionOK
  <2>1. Init => TypeOK
    BY TaskAssumption DEF Init, TypeOK, TaskAssumption, Running
  <2>2. Init => ResolutionOK
    BY DEF Init, ResolutionOK, Ordered, Resolving
  <2> QED BY <2>1, <2>2
<1>2. TypeOK /\ ResolutionOK /\ [Next]_vars => (TypeOK /\ ResolutionOK)'
  BY TaskAssumption, TypeStep, ResolutionStep
<1> QED BY <1>1, <1>2, PTL DEF Spec

\* Every task of an order built without error stands after tasks that meet its
\* dependencies.
THEOREM DependenciesFirst == Spec => []DepsFirst
<1>1. ResolutionOK => DepsFirst
  BY DEF ResolutionOK, DepsFirst
<1> QED BY <1>1, SearchInvariance, PTL

\* What tc executes, it executes after everything it depends on.
THEOREM ExecutionRespectsDeps == Spec => RunsAfterDeps
<1>1. ASSUME TypeOK, ResolutionOK, Next, ran' # ran
      PROVE  MetBy(Current, Before(task_order, ran + 1))
  <2>1. Execute
    BY <1>1 DEF Next, Register, StartMain, Resolve, Activate, SkipDependency,
                Push, CommandLine, Option, JustInform, BadUsage, NoMoreOptions,
                Finish
  <2>2. pc = "tasks" /\ ran + 1 \in 1..Len(task_order)
    BY <1>1, <2>1 DEF Execute, TypeOK
  <2> QED BY <1>1, <2>2 DEF ResolutionOK, Ordered, Current
<1>2. TypeOK /\ ResolutionOK /\ [Next]_vars
        => [ran' # ran => MetBy(Current, Before(task_order, ran + 1))]_vars
  BY <1>1 DEF vars
<1> QED BY <1>2, SearchInvariance, PTL DEF Spec, RunsAfterDeps

-----------------------------------------------------------------------------
(***************************************************************************)
(* The alternatives of disjunctive tasks.                                  *)
(***************************************************************************)
\* What ChoiceOpen asks of frame i of a stack, when the order is order.
FrameChoice(frame, i, order) ==
  /\ frame.task \in task_list
  /\ frame.task \in Disjunctive /\ frame.todo # <<>> =>
       /\ i = 1
       /\ Tail(frame.todo) = <<>>
       /\ ToSet(Deps[frame.task]) \cap ToSet(order) = {}

\* A frame with no choice left.
Decided(frame) ==
  frame.task \in task_list /\ (frame.task \in Disjunctive => frame.todo = <<>>)

\* enable_task takes the first alternative only when none is active.
LEMMA EnteredChoice ==
  ASSUME NEW t \in task_list, ToSet(task_order) \subseteq task_list
  PROVE  FrameChoice([task |-> t, todo |-> ToActivate(t, task_order)], 1, task_order)
<1> DEFINE todo == ToActivate(t, task_order)
<1>1. ASSUME t \in Disjunctive, todo # <<>>
      PROVE  /\ Tail(todo) = <<>>
             /\ ToSet(Deps[t]) \cap ToSet(task_order) = {}
  <2>1. /\ Deps[t] # <<>>
        /\ ToSet(Deps[t]) \cap task_list \cap ToSet(task_order) = {}
        /\ todo = <<Head(Deps[t])>>
    BY <1>1 DEF ToActivate
  <2>2. \A x : Tail(<<x>>) = <<>>
    OBVIOUS
  <2> QED BY <2>1, <2>2
<1> HIDE DEF todo
<1> QED BY <1>1 DEF FrameChoice, todo

\* Once the top frame has got past its first dependency no frame has a choice.
LEMMA AdvanceChoice ==
  ASSUME TypeOK, ChoiceOpen, calls # <<>>, Head(calls).todo # <<>>
  PROVE  \A i \in 1..Len(calls) : Decided(Advance(calls)[i])
<1>1. /\ Advance(calls)[1].task = calls[1].task
      /\ Advance(calls)[1].todo = Tail(calls[1].todo)
      /\ \A i \in 2..Len(calls) : Advance(calls)[i] = calls[i]
  BY AdvanceType
<1>2. /\ Len(calls) \in Nat \ {0} /\ Head(calls) = calls[1] /\ 1 \in 1..Len(calls)
  BY DEF TypeOK
<1>3. TAKE i \in 1..Len(calls)
<1>4. CASE i = 1
  BY <1>1, <1>2, <1>4 DEF ChoiceOpen, Decided
<1>5. CASE i # 1
  <2>1. i \in 2..Len(calls)
    BY <1>5
  <2> QED BY <1>1, <1>5, <2>1 DEF ChoiceOpen, Decided
<1> QED BY <1>4, <1>5

\* A single frame on an empty stack.
LEMMA EnterChoice ==
  ASSUME TypeOK, ChoiceOpen, calls = <<>>, NEW t \in task_list, Enter(t),
         UNCHANGED <<task_order, task_list, declared>>,
         pc' # "static" => declared = <<>>
  PROVE  ChoiceOpen'
<1> DEFINE new == [task |-> t, todo |-> ToActivate(t, task_order)]
<1>1. calls' = <<new>>
  BY DEF Enter
<1>2. FrameChoice(new, 1, task_order)
  BY EnteredChoice DEF ChoiceOpen
<1> HIDE DEF new
<1>3. Len(calls') = 1 /\ calls'[1] = new
  BY <1>1
<1> QED BY <1>2, <1>3 DEF ChoiceOpen, FrameChoice

\* Nothing that is resolved changes.
LEMMA QuietChoice ==
  ASSUME ChoiceOpen, UNCHANGED <<calls, task_order, task_list, declared>>,
         pc' # "static" => declared = <<>>
  PROVE  ChoiceOpen'
BY DEF ChoiceOpen

LEMMA ActivateChoice ==
  ASSUME TaskAssumption, TypeOK, ChoiceOpen, Activate
  PROVE  ChoiceOpen'
<1> DEFINE Frame == [task : Task, todo : Seq(Task)]
           d == Head(Head(calls).todo)
           new == [task |-> d, todo |-> ToActivate(d, task_order)]
           adv == Advance(calls)
<1>1. /\ calls # <<>> /\ Head(calls).todo # <<>> /\ d \in task_list
      /\ calls' = <<new>> \o adv
      /\ UNCHANGED <<task_order, task_list, declared, pc>>
  BY DEF Activate, Enabling, register
<1>2. adv \in Seq(Frame) /\ Len(adv) = Len(calls) /\ Len(calls) \in Nat
  BY <1>1, AdvanceType DEF TypeOK
<1>3. d \in Task /\ ToActivate(d, task_order) \in Seq(Task)
  BY <1>1, AdvanceType, ActivationIsEnough DEF TypeOK
<1>4. new \in Frame
  BY <1>3
<1>5. FrameChoice(new, 1, task_order)
  BY <1>1, EnteredChoice DEF ChoiceOpen
<1>6. \A i \in 1..Len(calls) : Decided(adv[i])
  BY <1>1, AdvanceChoice
<1> HIDE DEF Frame, new, adv, d
<1>7. /\ Len(calls') = Len(calls) + 1 /\ calls'[1] = new
      /\ \A i \in 2..Len(calls) + 1 : calls'[i] = adv[i - 1]
  BY <1>1, <1>2, <1>4
<1>8. \A i \in 1..Len(calls') : FrameChoice(calls'[i], i, task_order)
  <2> TAKE i \in 1..Len(calls')
  <2>1. CASE i = 1
    BY <1>5, <1>7, <2>1
  <2>2. CASE i # 1
    <3>1. i \in 2..Len(calls) + 1 /\ i - 1 \in 1..Len(calls)
      BY <1>2, <1>7, <2>2
    <3>2. calls'[i] = adv[i - 1]
      BY <1>7, <3>1
    <3> QED BY <1>6, <3>1, <3>2 DEF FrameChoice, Decided
  <2> QED BY <2>1, <2>2
<1> QED BY <1>1, <1>8 DEF ChoiceOpen, FrameChoice

\* The frame on top of the stack gets past a dependency, or returns.
LEMMA ReturnChoice ==
  ASSUME TaskAssumption, TypeOK, ChoiceOpen, SkipDependency \/ Push
  PROVE  ChoiceOpen'
<1>1. CASE SkipDependency
  <2>1. /\ calls # <<>> /\ Head(calls).todo # <<>> /\ calls' = Advance(calls)
        /\ UNCHANGED <<task_order, task_list, declared, pc>>
    BY <1>1 DEF SkipDependency, Enabling, register
  <2>2. Len(calls') = Len(calls) /\ \A i \in 1..Len(calls) : Decided(calls'[i])
    BY <2>1, AdvanceType, AdvanceChoice
  <2> QED BY <2>1, <2>2 DEF ChoiceOpen, Decided
<1>2. CASE Push
  <2> DEFINE Frame == [task : Task, todo : Seq(Task)]
  <2>1. /\ calls # <<>> /\ calls' = Tail(calls)
        /\ task_order' = Append(task_order, Head(calls).task)
        /\ UNCHANGED <<task_list, declared, pc>>
    BY <1>2 DEF Push, Enabling, register
  <2>2. calls \in Seq(Frame) /\ task_order \in Seq(Task)
    BY DEF TypeOK
  <2> HIDE DEF Frame
  <2>3. /\ Len(calls) \in Nat \ {0} /\ Head(calls) = calls[1]
        /\ Len(calls') = Len(calls) - 1
        /\ \A i \in 1..Len(calls) - 1 : calls'[i] = calls[i + 1]
    BY <2>1, <2>2
  <2>4. \A i \in 1..Len(calls') : Decided(calls'[i])
    <3> TAKE i \in 1..Len(calls')
    <3>1. i + 1 \in 1..Len(calls) /\ i + 1 # 1 /\ calls'[i] = calls[i + 1]
      BY <2>3
    <3> QED BY <3>1 DEF ChoiceOpen, Decided
  <2>5. Head(calls).task \in task_list /\ task_list \subseteq Task
    <3>1. 1 \in 1..Len(calls)
      BY <2>3
    <3> QED BY <2>3, <3>1 DEF ChoiceOpen, TypeOK
  <2>6. ToSet(task_order') = ToSet(task_order) \cup {Head(calls).task}
    BY <2>1, <2>2, <2>5, ElementsOfAppend
  <2> QED BY <2>1, <2>4, <2>5, <2>6 DEF ChoiceOpen, Decided
<1> QED BY <1>1, <1>2

LEMMA ChoiceStep ==
  ASSUME TaskAssumption, TypeOK, ResolutionOK, ChoiceOpen, [Next]_vars
  PROVE  ChoiceOpen'
<1> USE DEF register, resolution
<1>1. CASE Register
  <2>1. /\ calls = <<>> /\ task_order = <<>> /\ UNCHANGED <<calls, task_order>>
        /\ pc' = "static" /\ declared # <<>> /\ declared' = Tail(declared)
        /\ task_list' = task_list \cup {Head(declared)}
    BY <1>1 DEF Register, ResolutionOK
  <2>2. ToSet(declared) = {Head(declared)} \cup ToSet(declared')
    BY <2>1, ElementsOfHeadAndTail DEF TypeOK
  <2>3. ToSet(<<>>) = {} /\ Len(<<>>) = 0
    BY DEF ToSet
  <2> QED BY <2>1, <2>2, <2>3 DEF ChoiceOpen
<1>2. CASE StartMain
  BY <1>2, QuietChoice DEF StartMain
<1>3. CASE Activate
  BY <1>3, ActivateChoice
<1>4. CASE SkipDependency \/ Push
  BY <1>4, ReturnChoice
<1>5. ASSUME pc # "static"
      PROVE  declared = <<>> /\ task_list = ToSet(Declared)
  <2>1. ToSet(<<>>) = {}
    BY DEF ToSet
  <2> QED BY <1>5, <2>1 DEF ChoiceOpen
<1>6. CASE Option
  <2>1. PICK t \in Options : Enter(t)
    BY <1>6 DEF Option
  <2>2. /\ calls = <<>> /\ pc = "options"
        /\ UNCHANGED <<task_order, task_list, declared>>
    BY <1>6 DEF Option, Enabling
  <2>3. t \in task_list
    BY <1>5, <2>1, <2>2 DEF TaskAssumption
  <2> QED BY <1>5, <2>1, <2>2, <2>3, EnterChoice
<1>7. CASE NoMoreOptions
  <2>1. calls = <<>> /\ pc = "options" /\ UNCHANGED <<task_order, task_list, declared>>
    BY <1>7 DEF NoMoreOptions, Enabling
  <2>2. CASE Enter(Parse)
    <3>1. Parse \in task_list
      BY <1>5, <2>1 DEF TaskAssumption
    <3> QED BY <1>5, <2>1, <2>2, <3>1, EnterChoice
  <2>3. CASE UNCHANGED calls
    BY <1>5, <2>1, <2>3, QuietChoice
  <2> QED BY <1>7, <2>2, <2>3 DEF NoMoreOptions
<1>8. CASE JustInform \/ BadUsage \/ Execute \/ Finish
  <2>1. UNCHANGED <<calls, task_order, task_list, declared>> /\ pc # "static"
    BY <1>8 DEF JustInform, BadUsage, Execute, Finish
  <2> QED BY <1>5, <2>1, QuietChoice
<1>9. CASE UNCHANGED vars
  <2>1. UNCHANGED <<calls, task_order, task_list, declared, pc>>
    BY <1>9 DEF vars
  <2> QED BY <2>1, QuietChoice DEF ChoiceOpen
<1> QED BY <1>1, <1>2, <1>3, <1>4, <1>6, <1>7, <1>8, <1>9
        DEF Next, Resolve, CommandLine

\* The default of a disjunctive task is resolved only when none of its
\* alternatives is in the order: the command line decides how a task is done.
THEOREM AlternativesSuffice == Spec => NoNeedlessDefault
<1>1. Init => ChoiceOpen
  <2>1. ToSet(<<>>) = {} /\ Len(<<>>) = 0
    BY DEF ToSet
  <2> QED BY <2>1 DEF Init, ChoiceOpen
<1>2. TypeOK /\ ResolutionOK /\ ChoiceOpen /\ [Next]_vars => ChoiceOpen'
  BY TaskAssumption, ChoiceStep
<1>3. ASSUME TypeOK, ChoiceOpen, [Next]_vars, NEW t \in Disjunctive,
             calls # <<>>, Head(calls).task = t,
             ToSet(Deps[t]) \cap ToSet(task_order) # {}
      PROVE  ~(Len(calls') > Len(calls))
  <2>1. /\ Len(calls) \in Nat \ {0} /\ Head(calls) = calls[1] /\ 1 \in 1..Len(calls)
    BY <1>3 DEF TypeOK
  <2>2. Head(calls).todo = <<>>
    BY <1>3, <2>1 DEF ChoiceOpen
  <2>3. CASE Push
    <3>1. calls' = Tail(calls)
      BY <2>3 DEF Push
    <3>2. Len(calls') = Len(calls) - 1
      BY <1>3, <2>1, <3>1 DEF TypeOK
    <3> QED BY <2>1, <3>2
  <2>4. CASE calls' = calls
    BY <2>1, <2>4
  <2> QED BY <1>3, <2>2, <2>3, <2>4
          DEF Next, vars, Register, StartMain, Resolve, Activate, SkipDependency,
              CommandLine, Option, JustInform, BadUsage, NoMoreOptions, Execute,
              Finish, Enabling, resolution
<1>4. TypeOK /\ ChoiceOpen /\ [Next]_vars =>
        [\A t \in Disjunctive :
           /\ calls # <<>>
           /\ Head(calls).task = t
           /\ ToSet(Deps[t]) \cap ToSet(task_order) # {}
           => ~(Len(calls') > Len(calls))]_vars
  BY <1>3
<1> QED BY <1>1, <1>2, <1>4, SearchInvariance, PTL DEF Spec, NoNeedlessDefault

-----------------------------------------------------------------------------
(***************************************************************************)
(* The search of tasks without cyclic dependencies.                        *)
(***************************************************************************)
\* The ranks go up from the top of the stack to its bottom, which is what the
\* command line asked for, or the default; the tasks above it are new.
Descends(rank) ==
  /\ \A i, j \in 1..Len(calls) : i < j => rank[calls[i].task] < rank[calls[j].task]
  /\ \A i \in 1..Len(calls) : ToSet(calls[i].todo) \subseteq ToSet(Deps[calls[i].task])
  /\ \A i \in 1..(Len(calls) - 1) : calls[i].task \notin ToSet(task_order)
  /\ calls # <<>> => pc \in {"options", "tasks"}
  /\ calls # <<>> /\ pc = "options" => calls[Len(calls)].task \in Options
  /\ calls # <<>> /\ pc = "tasks" => task_order = <<>>

\* A frame is of a task.
LEMMA FramesType ==
  ASSUME TypeOK
  PROVE  \A i \in 1..Len(calls) : calls[i] \in [task : Task, todo : Seq(Task)]
                                 /\ calls[i].task \in Task
<1> DEFINE Frame == [task : Task, todo : Seq(Task)]
<1>1. calls \in Seq(Frame)
  BY DEF TypeOK
<1> HIDE DEF Frame
<1>2. \A i \in 1..Len(calls) : calls[i] \in Frame
  BY <1>1
<1> QED BY <1>2 DEF Frame

\* A single frame on an empty stack.
LEMMA EnterDescends ==
  ASSUME TaskAssumption, TypeOK, calls = <<>>, NEW rank, NEW t \in Task, Enter(t),
         (pc' = "options" /\ t \in Options) \/ (pc' = "tasks" /\ task_order' = <<>>)
  PROVE  Descends(rank)'
<1> DEFINE new == [task |-> t, todo |-> ToActivate(t, task_order)]
<1>1. calls' = <<new>>
  BY DEF Enter
<1>2. new.task = t /\ ToSet(new.todo) \subseteq ToSet(Deps[t])
  BY ActivationIsEnough DEF TypeOK
<1> HIDE DEF new
<1>3. Len(calls') = 1 /\ calls'[1] = new /\ calls' # <<>>
  BY <1>1
<1> QED BY <1>2, <1>3 DEF Descends

LEMMA ActivateDescends ==
  ASSUME TaskAssumption, TypeOK, ResolutionOK, NEW rank, Ranks(rank),
         Descends(rank), Activate
  PROVE  Descends(rank)'
<1> DEFINE Frame == [task : Task, todo : Seq(Task)]
           d == Head(Head(calls).todo)
           new == [task |-> d, todo |-> ToActivate(d, task_order)]
           adv == Advance(calls)
<1>1. /\ calls # <<>> /\ Head(calls).todo # <<>> /\ d \notin ToSet(task_order)
      /\ calls' = <<new>> \o adv
      /\ UNCHANGED <<task_order, pc>>
  BY DEF Activate, Enabling
<1>2. /\ adv \in Seq(Frame) /\ Len(adv) = Len(calls) /\ Len(calls) \in Nat \ {0}
      /\ adv[1].task = calls[1].task /\ adv[1].todo = Tail(calls[1].todo)
      /\ \A i \in 2..Len(calls) : adv[i] = calls[i]
      /\ ToSet(calls[1].todo) = {d} \cup ToSet(Tail(calls[1].todo))
  <2>1. Len(calls) \in Nat \ {0}
    BY <1>1 DEF TypeOK
  <2> QED BY <1>1, <2>1, AdvanceType
<1>3. d \in Task /\ ToActivate(d, task_order) \in Seq(Task)
      /\ ToSet(ToActivate(d, task_order)) \subseteq ToSet(Deps[d])
  BY <1>1, AdvanceType, ActivationIsEnough DEF TypeOK
<1>4. new \in Frame /\ new.task = d /\ ToSet(new.todo) \subseteq ToSet(Deps[d])
  BY <1>3
<1>5. \A i \in 1..Len(calls) : calls[i].task \in Task
  BY FramesType
<1>6. pc # "tasks"
  <2>1. pc = "tasks" => Head(calls).todo = <<>>
    BY <1>1 DEF ResolutionOK
  <2> QED BY <1>1, <2>1
<1> HIDE DEF Frame, new, adv, d
<1>7. /\ Len(calls') = Len(calls) + 1 /\ calls'[1] = new
      /\ \A i \in 2..Len(calls) + 1 : calls'[i] = adv[i - 1]
  BY <1>1, <1>2, <1>4
<1>8. \A i \in 1..Len(calls) : adv[i].task = calls[i].task
  <2> TAKE i \in 1..Len(calls)
  <2>1. i = 1 \/ i \in 2..Len(calls)
    BY <1>2
  <2> QED BY <1>2, <2>1, Zenon
<1>9. \A i \in 2..Len(calls') : i - 1 \in 1..Len(calls) /\ calls'[i] = adv[i - 1]
                              /\ calls'[i].task = calls[i - 1].task
  <2> TAKE i \in 2..Len(calls')
  <2>1. i - 1 \in 1..Len(calls) /\ i \in 2..Len(calls) + 1
    BY <1>2, <1>7
  <2> QED BY <1>7, <1>8, <2>1
<1>10. rank[d] < rank[calls[1].task]
  <2>1. 1 \in 1..Len(calls) /\ d \in ToSet(calls[1].todo)
    BY <1>2
  <2> QED BY <1>5, <2>1 DEF Descends, Ranks
<1>11. \A i \in 1..Len(calls) : rank[d] < rank[calls[i].task]
  <2> TAKE i \in 1..Len(calls)
  <2>1. CASE i = 1
    BY <1>10, <2>1
  <2>2. CASE i # 1
    <3>1. rank[calls[1].task] < rank[calls[i].task]
      BY <1>2, <2>2 DEF Descends
    <3>2. rank[d] \in Nat /\ rank[calls[1].task] \in Nat /\ rank[calls[i].task] \in Nat
      BY <1>2, <1>3, <1>5 DEF Ranks
    <3> QED BY <1>10, <3>1, <3>2
  <2> QED BY <2>1, <2>2
<1>12. \A i, j \in 1..Len(calls') : i < j => rank[calls'[i].task] < rank[calls'[j].task]
  <2> TAKE i, j \in 1..Len(calls')
  <2>1. SUFFICES ASSUME i < j PROVE rank[calls'[i].task] < rank[calls'[j].task]
    OBVIOUS
  <2>2. j \in 2..Len(calls')
    BY <1>2, <1>7, <2>1
  <2>3. CASE i = 1
    BY <1>4, <1>7, <1>9, <1>11, <2>2, <2>3
  <2>4. CASE i # 1
    <3>1. i \in 2..Len(calls') /\ i - 1 < j - 1
      BY <1>2, <1>7, <2>1, <2>4
    <3> QED BY <1>9, <2>2, <3>1 DEF Descends
  <2> QED BY <2>3, <2>4
<1>13. \A i \in 1..Len(calls') : ToSet(calls'[i].todo) \subseteq ToSet(Deps[calls'[i].task])
  <2> TAKE i \in 1..Len(calls')
  <2>1. CASE i = 1
    BY <1>4, <1>7, <2>1
  <2>2. CASE i # 1
    <3>1. i \in 2..Len(calls') /\ i - 1 \in 1..Len(calls)
      BY <1>2, <1>7, <2>2
    <3>2. ToSet(adv[i - 1].todo) \subseteq ToSet(calls[i - 1].todo)
      <4>1. CASE i - 1 = 1
        BY <1>2, <4>1
      <4>2. CASE i - 1 # 1
        <5>1. i - 1 \in 2..Len(calls)
          BY <3>1, <4>2
        <5>2. adv[i - 1] = calls[i - 1]
          BY <1>2, <5>1
        <5> QED BY <5>2
      <4> QED BY <4>1, <4>2
    <3> QED BY <1>9, <3>1, <3>2 DEF Descends
  <2> QED BY <2>1, <2>2
<1>14. \A i \in 1..(Len(calls') - 1) : calls'[i].task \notin ToSet(task_order')
  <2> TAKE i \in 1..(Len(calls') - 1)
  <2>1. CASE i = 1
    BY <1>1, <1>4, <1>7, <2>1
  <2>2. CASE i # 1
    <3>1. i \in 2..Len(calls') /\ i - 1 \in 1..(Len(calls) - 1)
      BY <1>2, <1>7, <2>2
    <3> QED BY <1>1, <1>9, <3>1 DEF Descends
  <2> QED BY <2>1, <2>2
<1>15. calls'[Len(calls')].task = calls[Len(calls)].task
  <2>1. Len(calls') \in 2..Len(calls') /\ Len(calls') - 1 = Len(calls)
    BY <1>2, <1>7
  <2> QED BY <1>9, <2>1
<1> QED BY <1>1, <1>6, <1>12, <1>13, <1>14, <1>15 DEF Descends

LEMMA SkipDescends ==
  ASSUME TypeOK, NEW rank, Descends(rank), SkipDependency
  PROVE  Descends(rank)'
<1>1. /\ calls # <<>> /\ Head(calls).todo # <<>> /\ calls' = Advance(calls)
      /\ UNCHANGED <<task_order, pc>>
  BY DEF SkipDependency, Enabling
<1>2. /\ Len(calls') = Len(calls) /\ Len(calls) \in Nat \ {0}
      /\ calls'[1].task = calls[1].task
      /\ \A i \in 2..Len(calls) : calls'[i] = calls[i]
      /\ ToSet(calls'[1].todo) \subseteq ToSet(calls[1].todo)
  BY <1>1, AdvanceType DEF TypeOK
<1>3. \A i \in 1..Len(calls) : /\ calls'[i].task = calls[i].task
                              /\ ToSet(calls'[i].todo) \subseteq ToSet(calls[i].todo)
  <2> TAKE i \in 1..Len(calls)
  <2>1. i = 1 \/ i \in 2..Len(calls)
    BY <1>2
  <2> QED BY <1>2, <2>1
<1>4. Len(calls) \in 1..Len(calls)
  BY <1>2
<1>5. \A i \in 1..Len(calls) : ToSet(calls'[i].todo) \subseteq ToSet(Deps[calls'[i].task])
  BY <1>3 DEF Descends
<1>6. /\ \A i, j \in 1..Len(calls) : i < j => rank[calls'[i].task] < rank[calls'[j].task]
      /\ \A i \in 1..(Len(calls) - 1) : calls'[i].task \notin ToSet(task_order)
  <2>1. \A i \in 1..(Len(calls) - 1) : i \in 1..Len(calls)
    BY <1>2
  <2> QED BY <1>3, <2>1 DEF Descends
<1> QED BY <1>1, <1>2, <1>3, <1>4, <1>5, <1>6 DEF Descends

LEMMA PushDescends ==
  ASSUME TypeOK, ResolutionOK, NEW rank, Ranks(rank), Descends(rank), Push
  PROVE  Descends(rank)'
<1> DEFINE Frame == [task : Task, todo : Seq(Task)]
<1>1. /\ calls # <<>> /\ calls' = Tail(calls)
      /\ task_order' = Append(task_order, Head(calls).task)
      /\ UNCHANGED pc
  BY DEF Push, Enabling
<1>2. calls \in Seq(Frame) /\ task_order \in Seq(Task)
  BY DEF TypeOK
<1>3. \A i \in 1..Len(calls) : calls[i].task \in Task
  BY FramesType
<1> HIDE DEF Frame
<1>4. /\ Len(calls) \in Nat \ {0} /\ Head(calls) = calls[1]
      /\ Len(calls') = Len(calls) - 1
      /\ \A i \in 1..Len(calls') : i + 1 \in 2..Len(calls) /\ calls'[i] = calls[i + 1]
  BY <1>1, <1>2
<1>5. ToSet(task_order') = ToSet(task_order) \cup {calls[1].task}
  BY <1>1, <1>2, <1>3, <1>4, ElementsOfAppend
<1>6. \A i \in 2..Len(calls) : calls[i].task # calls[1].task
  <2> TAKE i \in 2..Len(calls)
  <2>1. rank[calls[1].task] < rank[calls[i].task]
    BY <1>4 DEF Descends
  <2>2. rank[calls[i].task] \in Nat
    BY <1>3, <1>4 DEF Ranks
  <2> QED BY <2>1, <2>2
<1>7. \A i, j \in 1..Len(calls') : i < j => rank[calls'[i].task] < rank[calls'[j].task]
  BY <1>4 DEF Descends
<1>8. \A i \in 1..Len(calls') : ToSet(calls'[i].todo) \subseteq ToSet(Deps[calls'[i].task])
  <2> TAKE i \in 1..Len(calls')
  <2>1. i + 1 \in 1..Len(calls) /\ calls'[i] = calls[i + 1]
    BY <1>4
  <2>2. ToSet(calls[i + 1].todo) \subseteq ToSet(Deps[calls[i + 1].task])
    BY <2>1 DEF Descends
  <2> QED BY <2>1, <2>2
<1>9. \A i \in 1..(Len(calls') - 1) : calls'[i].task \notin ToSet(task_order')
  <2> TAKE i \in 1..(Len(calls') - 1)
  <2>1. i \in 1..Len(calls') /\ i + 1 \in 1..(Len(calls) - 1) /\ i + 1 \in 2..Len(calls)
    BY <1>4
  <2> QED BY <1>4, <1>5, <1>6, <2>1 DEF Descends
<1>10. CASE calls' = <<>>
  BY <1>4, <1>7, <1>8, <1>9, <1>10 DEF Descends
<1>11. CASE calls' # <<>>
  <2>1. Len(calls') \in 1..Len(calls') /\ Len(calls') + 1 = Len(calls)
    BY <1>1, <1>2, <1>4, <1>11
  <2>2. calls'[Len(calls')] = calls[Len(calls)]
    BY <1>4, <2>1
  <2>3. pc # "tasks"
    <3>1. pc = "tasks" => Len(calls) = 1
      BY <1>1 DEF ResolutionOK
    <3> QED BY <1>4, <2>1, <3>1
  <2> QED BY <1>1, <1>7, <1>8, <1>9, <2>2, <2>3 DEF Descends
<1> QED BY <1>10, <1>11

LEMMA DescendStep ==
  ASSUME TaskAssumption, TypeOK, ResolutionOK, NEW rank, Ranks(rank),
         Descends(rank), [Next]_vars
  PROVE  Descends(rank)'
<1> USE DEF register, resolution
<1>1. CASE Register \/ StartMain
  <2>1. calls = <<>> /\ task_order' = task_order /\ calls' = calls
    BY <1>1 DEF Register, StartMain, ResolutionOK
  <2> QED BY <2>1 DEF Descends
<1>2. CASE Activate
  BY <1>2, ActivateDescends
<1>3. CASE SkipDependency
  BY <1>3, SkipDescends
<1>4. CASE Push
  BY <1>4, PushDescends
<1>5. CASE Option
  <2>1. PICK t \in Options : Enter(t)
    BY <1>5 DEF Option
  <2>2. calls = <<>> /\ pc' = "options"
    BY <1>5 DEF Option, Enabling
  <2>3. t \in Task
    BY DEF TaskAssumption, ToSet
  <2> QED BY <2>1, <2>2, <2>3, EnterDescends
<1>6. CASE NoMoreOptions
  <2>1. calls = <<>> /\ UNCHANGED task_order
    BY <1>6 DEF NoMoreOptions, Enabling
  <2>2. CASE calls' = calls
    BY <2>1, <2>2 DEF Descends
  <2>3. CASE calls' # calls
    <3>1. Enter(Parse) /\ task_order = <<>> /\ pc' = "tasks"
      BY <1>6, <2>3 DEF NoMoreOptions
    <3>2. Parse \in Task
      BY DEF TaskAssumption, ToSet
    <3> QED BY <2>1, <3>1, <3>2, EnterDescends
  <2> QED BY <2>2, <2>3
<1>7. CASE JustInform \/ BadUsage \/ Execute \/ Finish
  <2>1. calls = <<>> /\ UNCHANGED <<calls, task_order>>
    BY <1>7 DEF JustInform, BadUsage, Execute, Finish, Enabling
  <2> QED BY <2>1 DEF Descends
<1>8. CASE UNCHANGED vars
  BY <1>8 DEF vars, Descends
<1> QED BY <1>1, <1>2, <1>3, <1>4, <1>5, <1>6, <1>7, <1>8
        DEF Next, Resolve, CommandLine

\* With dependencies that have no cycle the search never enters a task it is
\* resolving, however many options there are: the recursion ends.
THEOREM SearchEnds == Acyclic /\ Spec => []NoReentry
<1> SUFFICES ASSUME Acyclic PROVE Spec => []NoReentry
  OBVIOUS
<1>1. PICK rank : Ranks(rank)
  BY DEF Acyclic
<1>2. Init => Descends(rank)
  BY DEF Init, Descends
<1>3. TypeOK /\ ResolutionOK /\ Descends(rank) /\ [Next]_vars => Descends(rank)'
  BY <1>1, TaskAssumption, DescendStep
<1>4. TypeOK /\ Descends(rank) => NoReentry
  <2> SUFFICES ASSUME TypeOK, Descends(rank),
                      NEW i \in 1..Len(calls), NEW j \in 1..Len(calls),
                      calls[i].task = calls[j].task
               PROVE  i = j
    BY DEF NoReentry
  <2>1. rank[calls[i].task] \in Nat
    BY <1>1, FramesType DEF Ranks
  <2>2. Len(calls) \in Nat
    BY DEF TypeOK
  <2> QED BY <2>1, <2>2 DEF Descends
<1> QED BY <1>2, <1>3, <1>4, SearchInvariance, PTL DEF Spec

\* And it adds a task that is in the order already only where an option asks
\* for that task.
THEOREM RepeatsOnRequest == Acyclic /\ Spec => RepeatedOnRequest
<1> SUFFICES ASSUME Acyclic PROVE Spec => RepeatedOnRequest
  OBVIOUS
<1>1. PICK rank : Ranks(rank)
  BY DEF Acyclic
<1>2. Init => Descends(rank)
  BY DEF Init, Descends
<1>3. TypeOK /\ ResolutionOK /\ Descends(rank) /\ [Next]_vars => Descends(rank)'
  BY <1>1, TaskAssumption, DescendStep
<1>4. ASSUME TypeOK, Descends(rank), [Next]_vars, task_order' # task_order,
             Head(calls).task \in ToSet(task_order)
      PROVE  Len(calls) = 1 /\ Head(calls).task \in Options
  <2>1. calls # <<>>
    BY <1>4 DEF Next, vars, Register, StartMain, Resolve, Activate, SkipDependency, Push,
                CommandLine, Option, JustInform, BadUsage, NoMoreOptions, Execute,
                Finish, Enabling, resolution
  <2>2. Len(calls) \in Nat \ {0} /\ Head(calls) = calls[1]
    BY <2>1 DEF TypeOK
  <2>3. Len(calls) = 1
    <3>1. 1 \in 1..(Len(calls) - 1) => calls[1].task \notin ToSet(task_order)
      BY <1>4 DEF Descends
    <3>2. 1 \notin 1..(Len(calls) - 1)
      BY <1>4, <2>2, <3>1
    <3>3. \A n \in Nat \ {0} : 1 \notin 1..(n - 1) => n = 1
      OBVIOUS
    <3> QED BY <2>2, <3>2, <3>3
  <2>4. ToSet(<<>>) = {}
    BY DEF ToSet
  <2> QED BY <1>4, <2>1, <2>2, <2>3, <2>4 DEF Descends
<1>5. TypeOK /\ Descends(rank) /\ [Next]_vars =>
        [task_order' # task_order /\ Head(calls).task \in ToSet(task_order) =>
           Len(calls) = 1 /\ Head(calls).task \in Options]_vars
  BY <1>4
<1> QED BY <1>2, <1>3, <1>5, SearchInvariance, PTL DEF Spec, RepeatedOnRequest
=============================================================================
