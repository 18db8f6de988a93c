------------------------------- MODULE TimerProofs -----------------------------
(***************************************************************************)
(* The timer charges each tick of each clock once, and its report adds up, *)
(* for any names, clocks and depth.                                        *)
(***************************************************************************)
EXTENDS TimerProps, Induction

Times == [Clocks -> [Names -> Nat]]

\* Each clock has passed each start, only known tasks are on the stack, and a task
\* that is not known took no time: merge may then give it any.
TimerInv ==
  /\ now \in [Clocks -> Nat]
  /\ tasks \in Seq(Names)
  /\ begin \in Times
  /\ elapsed \in Times
  /\ \A c \in Clocks, n \in Names : begin[c][n] <= now[c]
  /\ \A i \in DOMAIN tasks : tasks[i] \in known
  /\ \A c \in Clocks, n \in Names : n \notin known => elapsed[c][n] = 0

\* The top of a stack is one of its tasks, and what is left under it is a stack.
LEMMA StackOps ==
  ASSUME NEW s \in Seq(Names), s # <<>>
  PROVE  /\ Len(s) \in DOMAIN s /\ Top(s) \in Names
         /\ Without(s) \in Seq(Names)
         /\ \A i \in DOMAIN Without(s) : i \in DOMAIN s /\ Without(s)[i] = s[i]
  BY DEF Top, Without

\* The same of a stack a task is put on.
LEMMA StackAppend ==
  ASSUME NEW s \in Seq(Names), NEW n \in Names
  PROVE  /\ Append(s, n) \in Seq(Names) /\ Append(s, n) # <<>>
         /\ Top(Append(s, n)) = n
         /\ \A i \in DOMAIN Append(s, n) : Append(s, n)[i] = n \/ (i \in DOMAIN s /\ Append(s, n)[i] = s[i])
  BY DEF Top

\* Times that agree on each clock and task are the same.
LEMMA SameTimes ==
  ASSUME NEW F \in Times, NEW G \in Times,
         \A c \in Clocks, n \in Names : F[c][n] = G[c][n]
  PROVE  F = G
<1>1. \A c \in Clocks : F[c] = G[c]
  <2> TAKE c \in Clocks
  <2>1. F[c] \in [Names -> Nat] /\ G[c] \in [Names -> Nat]
    BY DEF Times
  <2> QED BY <2>1
<1> QED BY <1>1 DEF Times

\* Times that are changed for one task, on each clock.
LEMMA TimesExcept ==
  ASSUME NEW F \in Times, NEW t \in Names, NEW v \in [Clocks -> Nat]
  PROVE  /\ [c \in Clocks |-> [F[c] EXCEPT ![t] = v[c]]] \in Times
         /\ \A c \in Clocks, n \in Names :
              [d \in Clocks |-> [F[d] EXCEPT ![t] = v[d]]][c][n] = IF n = t THEN v[c] ELSE F[c][n]
<1>1. \A c \in Clocks : F[c] \in [Names -> Nat] /\ v[c] \in Nat
  BY DEF Times
<1>2. \A c \in Clocks : /\ [F[c] EXCEPT ![t] = v[c]] \in [Names -> Nat]
                        /\ \A n \in Names : [F[c] EXCEPT ![t] = v[c]][n] = IF n = t THEN v[c] ELSE F[c][n]
  BY <1>1
<1> QED BY <1>2 DEF Times

\* What a task is charged on a clock.
LEMMA ChargedIs ==
  ASSUME NEW c \in Clocks, NEW n \in Names
  PROVE  Charged[c][n] = IF tasks # <<>> /\ n = Top(tasks)
                         THEN elapsed[c][n] + (now[c] - begin[c][n]) ELSE elapsed[c][n]
  BY DEF Charged, ChargedAt, Elapsed

\* Stopping the top leaves times that are not negative, and those of the others.
LEMMA Stopping ==
  ASSUME TimerInv
  PROVE  /\ StoppedElapsed \in Times
         /\ \A c \in Clocks, n \in Names : n \notin known => StoppedElapsed[c][n] = 0
         /\ StoppedElapsed = Charged
         /\ Charged \in Times
<1>1. CASE tasks = <<>>
  <2>1. \A c \in Clocks : ChargedAt(c) = elapsed[c]
    <3> TAKE c \in Clocks
    <3>1. elapsed[c] \in [Names -> Nat]
      BY DEF TimerInv, Times
    <3> QED BY <1>1, <3>1 DEF ChargedAt
  <2>2. Charged = elapsed
    BY <2>1 DEF Charged, TimerInv, Times
  <2> QED BY <1>1, <2>2 DEF TimerInv, StoppedElapsed
<1>2. CASE tasks # <<>>
  <2> DEFINE t == Top(tasks)
             v == [c \in Clocks |-> elapsed[c][t] + (now[c] - begin[c][t])]
  <2>1. t \in Names /\ t \in known
    BY <1>2, StackOps DEF TimerInv, Top
  <2>2. StoppedElapsed = [c \in Clocks |-> [elapsed[c] EXCEPT ![t] = v[c]]]
    BY <1>2 DEF StoppedElapsed, Elapsed
  <2>3. \A c \in Clocks, n \in Names : Charged[c][n] = IF n = t THEN v[c] ELSE elapsed[c][n]
    BY <1>2, ChargedIs
  <2>4. v \in [Clocks -> Nat]
    <3>1. \A c \in Clocks : elapsed[c][t] \in Nat /\ begin[c][t] \in Nat /\ now[c] \in Nat
                            /\ begin[c][t] <= now[c]
      BY <2>1 DEF TimerInv, Times
    <3>2. \A c \in Clocks : elapsed[c][t] + (now[c] - begin[c][t]) \in Nat
      BY <3>1
    <3> QED BY <3>2
  <2> HIDE DEF t, v
  <2>5. elapsed \in Times
    BY DEF TimerInv
  <2>6. /\ StoppedElapsed \in Times
        /\ \A c \in Clocks, n \in Names : StoppedElapsed[c][n] = IF n = t THEN v[c] ELSE elapsed[c][n]
    BY <2>1, <2>2, <2>4, <2>5, TimesExcept
  <2>7. Charged \in Times
    <3>1. \A c \in Clocks, n \in Names : Charged[c][n] \in Nat
      BY <2>3, <2>6 DEF Times
    <3>2. \A c \in Clocks : Charged[c] = ChargedAt(c)
      BY DEF Charged
    <3>3. \A c \in Clocks : ChargedAt(c) \in [Names -> Nat]
      BY <3>1, <3>2 DEF ChargedAt
    <3> QED BY <3>3 DEF Charged, Times
  <2>8. StoppedElapsed = Charged
    BY <2>3, <2>6, <2>7, SameTimes
  <2> QED BY <2>1, <2>6, <2>7, <2>8 DEF TimerInv
<1> QED
  BY <1>1, <1>2

\* What a step needs of the state it leads to, as state predicates.
ChargesAreTimes == Charged \in Times
FreshTopIsFlat  == (tasks # <<>> => \A c \in Clocks : begin[c][Top(tasks)] = now[c]) => Charged = elapsed
ChargesHere == \A c \in Clocks, n \in Names :
  Charged[c][n] = IF tasks # <<>> /\ n = Top(tasks)
                  THEN elapsed[c][n] + (now[c] - begin[c][n]) ELSE elapsed[c][n]

LEMMA StoppingNext == TimerInv' => ChargesAreTimes'
<1>1. TimerInv => ChargesAreTimes
  BY Stopping DEF ChargesAreTimes
<1> QED
  BY <1>1, PTL

LEMMA ChargedNext == ChargesHere'
<1>1. ChargesHere
  BY ChargedIs DEF ChargesHere
<1> QED
  BY <1>1, PTL

LEMMA InitTimerInv == Init => TimerInv
  BY DEF Init, TimerInv, NoTime, Times

\* Starting a task takes its time from the clocks.
LEMMA Starting ==
  ASSUME TimerInv, NEW n \in Names
  PROVE  /\ StartOf(begin, n) \in Times
         /\ \A c \in Clocks, m \in Names : StartOf(begin, n)[c][m] <= now[c]
         /\ \A c \in Clocks : StartOf(begin, n)[c][n] = now[c]
<1>1. begin \in Times /\ now \in [Clocks -> Nat]
  BY DEF TimerInv
<1>2. /\ StartOf(begin, n) \in Times
      /\ \A c \in Clocks, m \in Names :
           StartOf(begin, n)[c][m] = IF m = n THEN now[c] ELSE begin[c][m]
  BY <1>1, TimesExcept DEF StartOf
<1>3. \A c \in Clocks : now[c] \in Nat
  BY <1>1
<1>4. \A c \in Clocks, m \in Names : begin[c][m] <= now[c]
  BY DEF TimerInv
<1> QED BY <1>2, <1>3, <1>4

LEMMA NextTimerInv == TimerInv /\ [Next]_tmvars => TimerInv'
<1> SUFFICES ASSUME TimerInv, [Next]_tmvars
             PROVE  TimerInv'
  OBVIOUS
<1>1. CASE Tick
  <2>1. PICK d \in Clocks : now' = [now EXCEPT ![d] = @ + 1]
    BY <1>1 DEF Tick
  <2>2. UNCHANGED <<tasks, known, begin, elapsed>>
    BY <1>1 DEF Tick
  <2>3. now' \in [Clocks -> Nat] /\ \A c \in Clocks : now[c] \in Nat /\ now[c] <= now'[c] /\ now'[c] \in Nat
    BY <2>1 DEF TimerInv
  <2>4. \A c \in Clocks, n \in Names : begin[c][n] <= now'[c]
    <3> SUFFICES ASSUME NEW c \in Clocks, NEW n \in Names PROVE begin[c][n] <= now'[c]
      OBVIOUS
    <3>1. begin[c][n] \in Nat /\ begin[c][n] <= now[c]
      BY DEF TimerInv, Times
    <3> QED BY <2>3, <3>1
  <2> QED BY <2>2, <2>3, <2>4 DEF TimerInv
<1>2. ASSUME NEW n \in Names, push(n)
      PROVE  TimerInv'
  <2>1. /\ elapsed' = StoppedElapsed /\ tasks' = Append(tasks, n) /\ known' = known \cup {n}
        /\ begin' = StartOf(begin, n) /\ now' = now
    BY <1>2 DEF push, Started
  <2>2. tasks' \in Seq(Names) /\ \A i \in DOMAIN tasks' : tasks'[i] \in known'
    BY <2>1, StackAppend DEF TimerInv
  <2>3. /\ elapsed' \in Times
        /\ \A c \in Clocks, m \in Names : m \notin known' => elapsed'[c][m] = 0
    BY <2>1, Stopping
  <2>4. begin' \in Times /\ \A c \in Clocks, m \in Names : begin'[c][m] <= now'[c]
    BY <2>1, Starting
  <2> QED
    BY <2>1, <2>2, <2>3, <2>4 DEF TimerInv
<1>3. CASE pop
  <2>1. /\ tasks # <<>> /\ elapsed' = StoppedElapsed /\ tasks' = Without(tasks) /\ known' = known
        /\ begin' = (IF tasks' = <<>> THEN begin ELSE StartOf(begin, Top(tasks')))
        /\ now' = now
    BY <1>3 DEF pop
  <2>2. tasks' \in Seq(Names) /\ \A i \in DOMAIN tasks' : tasks'[i] \in known'
    BY <2>1, StackOps DEF TimerInv
  <2>3. /\ elapsed' \in Times
        /\ \A c \in Clocks, m \in Names : m \notin known' => elapsed'[c][m] = 0
    BY <2>1, Stopping
  <2>4. begin' \in Times /\ \A c \in Clocks, m \in Names : begin'[c][m] <= now'[c]
    <3>1. CASE tasks' = <<>>
      BY <2>1, <3>1 DEF TimerInv
    <3>2. CASE tasks' # <<>>
      <4>1. Top(tasks') \in Names
        BY <2>2, <3>2, StackOps
      <4> QED BY <2>1, <3>2, <4>1, Starting
    <3> QED BY <3>1, <3>2
  <2> QED
    BY <2>1, <2>2, <2>3, <2>4 DEF TimerInv
<1>4. CASE start \/ stop
  BY <1>4 DEF start, stop, TimerInv
<1>5. CASE merge
  <2>1. PICK S \in (SUBSET (Names \ known)) \ {{}}, e \in [Clocks -> 0 .. MaxNow] :
          /\ known' = known \cup S
          /\ elapsed' = [c \in Clocks |-> [n \in Names |-> IF n \in S THEN e[c] ELSE elapsed[c][n]]]
          /\ now' = now /\ tasks' = tasks /\ begin' = begin
    BY <1>5 DEF merge
  <2>2. \A c \in Clocks : e[c] \in Nat
    BY <2>1, MaxNowAssumption
  <2>3. elapsed' \in Times
    BY <2>1, <2>2 DEF TimerInv, Times
  <2>4. \A c \in Clocks, n \in Names : n \notin known' => elapsed'[c][n] = 0
    BY <2>1 DEF TimerInv
  <2> QED
    BY <2>1, <2>3, <2>4 DEF TimerInv
<1>6. CASE dump_on_destruction
  BY <1>6 DEF dump_on_destruction, TimerInv
<1>7. CASE destroy
  <2>1. CASE dumping /\ tasks # <<>>
    <3>1. elapsed' = StoppedElapsed /\ tasks' = <<>> /\ now' = now /\ known' = known /\ begin' = begin
      BY <1>7, <2>1 DEF destroy
    <3> QED
      BY <3>1, Stopping DEF TimerInv
  <2>2. CASE ~(dumping /\ tasks # <<>>)
    BY <1>7, <2>2 DEF destroy, TimerInv
  <2> QED
    BY <2>1, <2>2
<1>8. CASE UNCHANGED tmvars
  BY <1>8 DEF tmvars, TimerInv
<1> QED
  BY <1>1, <1>2, <1>3, <1>4, <1>5, <1>6, <1>7, <1>8 DEF Next

\* At the start nothing runs and nothing took time.
LEMMA InitCharges == Init => Abstract!SpecInit
  BY DEF Init, Abstract!SpecInit, Charged, ChargedAt

\* Of a timer whose top was just started, the charges are the elapsed times.
LEMMA JustStarted ==
  TimerInv => FreshTopIsFlat
<1> SUFFICES ASSUME TimerInv, tasks # <<>> => \A c \in Clocks : begin[c][Top(tasks)] = now[c]
             PROVE  Charged = elapsed
  BY DEF FreshTopIsFlat
<1>1. Charged \in Times /\ elapsed \in Times
  BY Stopping DEF TimerInv
<1>2. ASSUME NEW c \in Clocks, NEW n \in Names
      PROVE  Charged[c][n] = elapsed[c][n]
  <2>1. now[c] \in Nat /\ elapsed[c][n] \in Nat
    BY DEF TimerInv, Times
  <2>2. tasks # <<>> /\ n = Top(tasks) => begin[c][n] = now[c]
    OBVIOUS
  <2> QED BY <2>1, <2>2, ChargedIs
<1> QED
  BY <1>1, <1>2, SameTimes

LEMMA JustStartedNext == TimerInv' => FreshTopIsFlat'
  BY JustStarted, PTL

\* Stopping the top and starting another, or none, charges nobody.
LEMMA SwitchCharges ==
  ASSUME TimerInv, TimerInv', elapsed' = StoppedElapsed, now' = now,
         tasks' # <<>> => \A c \in Clocks : begin'[c][Top(tasks')] = now[c]
  PROVE  Charged' = Charged
<1>1. (tasks # <<>> => \A c \in Clocks : begin[c][Top(tasks)] = now[c])'
  BY DEF Top
<1>2. Charged' = elapsed'
  BY <1>1, JustStartedNext DEF FreshTopIsFlat
<1> QED
  BY <1>2, Stopping

\* A step that changes none of what the charges are made of.
LEMMA SameCharged ==
  ASSUME UNCHANGED <<now, tasks, begin, elapsed>>
  PROVE  Charged' = Charged
  BY DEF Charged, ChargedAt, Elapsed, Top

\* A tick of clock d is charged to the top task, on that clock.
LEMMA TickCharges ==
  ASSUME TimerInv, TimerInv', Tick, NEW d \in Clocks, now' = [now EXCEPT ![d] = @ + 1]
  PROVE  \A c \in Clocks, n \in Names :
           Charged'[c][n] = IF c = d /\ tasks # <<>> /\ n = Top(tasks)
                            THEN Charged[c][n] + 1 ELSE Charged[c][n]
<1> SUFFICES ASSUME NEW c \in Clocks, NEW n \in Names
             PROVE  Charged'[c][n] = IF c = d /\ tasks # <<>> /\ n = Top(tasks)
                                     THEN Charged[c][n] + 1 ELSE Charged[c][n]
  OBVIOUS
<1>1. UNCHANGED <<tasks, begin, elapsed>>
  BY DEF Tick
<1>2. Charged'[c][n] = IF tasks # <<>> /\ n = Top(tasks)
                       THEN elapsed[c][n] + (now'[c] - begin[c][n]) ELSE elapsed[c][n]
  <2>1. Charged'[c][n] = IF tasks' # <<>> /\ n = Top(tasks')
                         THEN elapsed'[c][n] + (now'[c] - begin'[c][n]) ELSE elapsed'[c][n]
    BY ChargedNext DEF ChargesHere, Top
  <2> QED BY <1>1, <2>1
<1>3. elapsed[c][n] \in Nat /\ begin[c][n] \in Nat /\ now[c] \in Nat
  BY DEF TimerInv, Times
<1>4. now'[c] = IF c = d THEN now[c] + 1 ELSE now[c]
  BY DEF TimerInv
<1> QED BY <1>2, <1>3, <1>4, ChargedIs

LEMMA NextCharges ==
  ASSUME TimerInv, TimerInv', [Next]_tmvars
  PROVE  [Abstract!SpecNext]_<<tasks, Charged>>
<1>1. CASE Tick
  <2>1. PICK d \in Clocks : now' = [now EXCEPT ![d] = @ + 1]
    BY <1>1 DEF Tick
  <2>2. tasks' = tasks
    BY <1>1 DEF Tick
  <2>3. Charged \in Times /\ Charged' \in Times
    BY Stopping, StoppingNext DEF ChargesAreTimes
  <2>4. \A c \in Clocks, n \in Names :
          Charged'[c][n] = IF c = d /\ tasks # <<>> /\ n = Top(tasks)
                           THEN Charged[c][n] + 1 ELSE Charged[c][n]
    BY <1>1, <2>1, TickCharges
  <2>5. CASE tasks = <<>>
    <3>1. Charged' = Charged
      BY <2>3, <2>4, <2>5, SameTimes
    <3> QED
      BY <2>2, <3>1
  <2>6. CASE tasks # <<>>
    <3> DEFINE t == Top(tasks)
               G == [Charged EXCEPT ![d][t] = @ + 1]
    <3>1. t \in Names
      BY <2>6, StackOps DEF TimerInv
    <3> HIDE DEF t
    <3>2. \A c \in Clocks : Charged[c] \in [Names -> Nat]
      BY <2>3 DEF Times
    <3>3. G = [c \in Clocks |-> IF c = d THEN [Charged[d] EXCEPT ![t] = @ + 1] ELSE Charged[c]]
      BY <2>3 DEF Times
    <3>4. [Charged[d] EXCEPT ![t] = @ + 1] \in [Names -> Nat]
      BY <3>1, <3>2
    <3>5. G \in Times
      BY <3>2, <3>3, <3>4 DEF Times
    <3>6. \A c \in Clocks, n \in Names :
            G[c][n] = IF c = d /\ n = t THEN Charged[c][n] + 1 ELSE Charged[c][n]
      BY <3>1, <3>2, <3>3
    <3>7. \A c \in Clocks, n \in Names : Charged'[c][n] = G[c][n]
      BY <2>4, <2>6, <3>6 DEF t
    <3>8. Charged' = G
      <4> HIDE DEF G
      <4> QED BY <2>3, <3>5, <3>7, SameTimes
    <3> QED
      BY <2>2, <2>6, <3>8 DEF Abstract!SpecNext, Abstract!Charge, Abstract!Top, Top, t
  <2> QED
    BY <2>5, <2>6
<1>2. ASSUME NEW n \in Names, push(n)
      PROVE  Abstract!Begin
  <2>1. /\ elapsed' = StoppedElapsed /\ tasks' = Append(tasks, n)
        /\ begin' = StartOf(begin, n) /\ now' = now
    BY <1>2 DEF push, Started
  <2>2. Top(tasks') = n
    BY <2>1, StackAppend DEF TimerInv
  <2>3. \A c \in Clocks : begin'[c][Top(tasks')] = now[c]
    BY <2>1, <2>2, Starting
  <2>4. Charged' = Charged
    BY <2>1, <2>3, SwitchCharges
  <2> QED
    BY <2>1, <2>4 DEF Abstract!Begin
<1>3. CASE pop
  <2>1. /\ tasks # <<>> /\ elapsed' = StoppedElapsed /\ tasks' = Without(tasks)
        /\ begin' = (IF tasks' = <<>> THEN begin ELSE StartOf(begin, Top(tasks')))
        /\ now' = now
    BY <1>3 DEF pop
  <2>2. ASSUME tasks' # <<>>
        PROVE  \A c \in Clocks : begin'[c][Top(tasks')] = now[c]
    <3>1. Top(tasks') \in Names
      BY <2>2, StackOps DEF TimerInv
    <3> QED
      BY <2>1, <2>2, <3>1, Starting
  <2>3. Charged' = Charged
    BY <2>1, <2>2, SwitchCharges
  <2> QED
    BY <2>1, <2>3 DEF Abstract!SpecNext, Abstract!End, Abstract!Without, Without
<1>4. CASE start \/ stop
  <2>1. UNCHANGED <<now, tasks, begin, elapsed>>
    BY <1>4 DEF start, stop
  <2> QED BY <2>1, SameCharged
<1>5. CASE merge
  <2>1. PICK S \in (SUBSET (Names \ known)) \ {{}}, e \in [Clocks -> 0 .. MaxNow] :
          /\ elapsed' = [c \in Clocks |-> [n \in Names |-> IF n \in S THEN e[c] ELSE elapsed[c][n]]]
          /\ now' = now /\ tasks' = tasks /\ begin' = begin
    BY <1>5 DEF merge
  <2>2. Charged \in Times /\ Charged' \in Times
    BY Stopping, StoppingNext DEF ChargesAreTimes
  <2>3. ASSUME NEW c \in Clocks, NEW n \in Names, n \in S
        PROVE  Charged[c][n] = 0 /\ \A i \in DOMAIN tasks : tasks[i] # n
    <3>1. n \notin known
      BY <2>3
    <3>2. \A i \in DOMAIN tasks : tasks[i] # n
      BY <3>1 DEF TimerInv
    <3>3. Charged[c][n] = 0
      BY <3>1, Stopping
    <3> QED
      BY <3>2, <3>3
  <2>4. ASSUME NEW c \in Clocks, NEW n \in Names, n \notin S
        PROVE  Charged'[c][n] = Charged[c][n]
    <3>1. Charged'[c][n] = IF tasks' # <<>> /\ n = Top(tasks')
                           THEN elapsed'[c][n] + (now'[c] - begin'[c][n]) ELSE elapsed'[c][n]
      BY ChargedNext DEF ChargesHere, Top
    <3>2. elapsed'[c][n] = elapsed[c][n]
      BY <2>1, <2>4
    <3> QED BY <2>1, <3>1, <3>2, ChargedIs
  <2>5. /\ Charged' \in [Clocks -> [Names -> Nat]]
        /\ \A c \in Clocks, n \in Names : Charged'[c][n] # Charged[c][n] =>
             Charged[c][n] = 0 /\ \A i \in DOMAIN tasks : tasks[i] # n
    BY <2>2, <2>3, <2>4 DEF Times
  <2> QED
    BY <2>1, <2>5 DEF Abstract!SpecNext, Abstract!Imported
<1>6. CASE dump_on_destruction
  <2>1. UNCHANGED <<now, tasks, begin, elapsed>>
    BY <1>6 DEF dump_on_destruction
  <2> QED BY <2>1, SameCharged
<1>7. CASE destroy
  <2>1. CASE dumping /\ tasks # <<>>
    <3>1. elapsed' = StoppedElapsed /\ tasks' = <<>> /\ now' = now
      BY <1>7, <2>1 DEF destroy
    <3>2. Charged' = Charged
      BY <3>1, SwitchCharges
    <3> QED
      BY <3>1, <3>2 DEF Abstract!SpecNext, Abstract!EndAll
  <2>2. CASE ~(dumping /\ tasks # <<>>)
    <3>1. UNCHANGED <<now, tasks, begin, elapsed>>
      BY <1>7, <2>2 DEF destroy
    <3> QED BY <3>1, SameCharged
  <2> QED
    BY <2>1, <2>2
<1>8. CASE UNCHANGED tmvars
  <2>1. UNCHANGED <<now, tasks, begin, elapsed>>
    BY <1>8 DEF tmvars
  <2> QED BY <2>1, SameCharged
<1> QED
  BY <1>1, <1>2, <1>3, <1>4, <1>5, <1>6, <1>7, <1>8 DEF Next, Abstract!SpecNext

\* Each tick of each clock goes to the task on the top of the stack, and to no
\* other: the timer implements TimerSpec.
THEOREM ChargesOnce == Spec => ChargesTheTop
<1>1. Spec => []TimerInv
  BY InitTimerInv, NextTimerInv, PTL DEF Spec
<1>2. TimerInv /\ TimerInv' /\ [Next]_tmvars => [Abstract!SpecNext]_<<tasks, Charged>>
  BY NextCharges
<1> QED
  BY <1>1, <1>2, InitCharges, PTL DEF Spec, ChargesTheTop, Abstract!Spec
-----------------------------------------------------------------------------
(* The report adds up.                                                     *)

\* The tasks started here, those of no other timer.
Own == known \ imports

\* When a task stopped last by a clock, were it to stop now.
Until(c, n) == IF tasks # <<>> /\ n = Top(tasks) THEN now[c] ELSE last[c][n]

\* The total of a clock, were it to stop now.
Measured(c) == total.elapsed[c] + (IF timing THEN now[c] - total.begin[c] ELSE 0)

\* As long as all tasks ran within the total, what the own tasks took is within it
\* too; and what a task took, within the time from its first start.
RunningInv ==
  /\ IsFiniteSet(Own)
  /\ known \subseteq Names
  /\ timing \in BOOLEAN /\ whole \in BOOLEAN
  /\ whole /\ ~timing => tasks = <<>>
  /\ total \in [begin : [Clocks -> Nat], elapsed : [Clocks -> Int]]
  /\ first \in Times /\ last \in Times
  /\ whole => \A c \in Clocks : SumFunctionOnSet(Charged[c], Own) <= Measured(c)
  /\ \A c \in Clocks, n \in Names : /\ last[c][n] <= now[c]
                                    /\ Charged[c][n] <= Until(c, n) - first[c][n]

LEMMA InitReport == Init => RunningInv
<1> SUFFICES ASSUME Init PROVE RunningInv
  OBVIOUS
<1>1. Own = {}
  BY DEF Init, Own
<1>2. IsFiniteSet(Own) /\ \A c \in Clocks : SumFunctionOnSet(Charged[c], Own) = 0
  BY <1>1, FS_EmptySet, SumFacts
<1>3. \A c \in Clocks, n \in Names : Charged[c][n] = 0 /\ Until(c, n) = 0
  BY ChargedIs DEF Init, Until
<1>4. \A c \in Clocks : Measured(c) = 0
  BY DEF Init, Measured, NoTime
<1>5. first \in Times /\ last \in Times /\ total \in [begin : [Clocks -> Nat], elapsed : [Clocks -> Int]]
  BY DEF Init, Times, NoTime
<1>6. \A c \in Clocks, n \in Names : last[c][n] = 0 /\ first[c][n] = 0 /\ now[c] = 0
  BY DEF Init, NoTime
<1>7. timing = FALSE /\ whole = TRUE /\ tasks = <<>> /\ known = {}
  BY DEF Init
<1>8. ASSUME NEW c \in Clocks PROVE SumFunctionOnSet(Charged[c], Own) <= Measured(c)
  <2>1. SumFunctionOnSet(Charged[c], Own) = 0 /\ Measured(c) = 0
    BY <1>2, <1>4
  <2> QED BY <2>1
<1>9. ASSUME NEW c \in Clocks, NEW n \in Names
      PROVE  last[c][n] <= now[c] /\ Charged[c][n] <= Until(c, n) - first[c][n]
  <2>1. last[c][n] = 0 /\ now[c] = 0 /\ first[c][n] = 0
    BY <1>6
  <2>2. Charged[c][n] = 0 /\ Until(c, n) = 0
    BY <1>3
  <2> HIDE DEF Charged, Until
  <2>3. last[c][n] <= now[c]
    BY <2>1
  <2>4. Charged[c][n] <= Until(c, n) - first[c][n]
    BY <2>1, <2>2
  <2> QED BY <2>3, <2>4
<1>10. IsFiniteSet(Own)
  BY <1>2
<1> QED BY <1>5, <1>7, <1>8, <1>9, <1>10, Zenon DEF RunningInv

\* The charges of one clock, and their sum over the own tasks.
LEMMA ChargesOf ==
  ASSUME TimerInv, RunningInv, NEW c \in Clocks
  PROVE  /\ Charged[c] \in [Names -> Nat] /\ Own \subseteq Names
         /\ \A a \in Own : Charged[c][a] \in Int
         /\ SumFunctionOnSet(Charged[c], Own) \in Int
         /\ Measured(c) \in Int /\ now[c] \in Nat
         /\ total.elapsed[c] \in Int /\ total.begin[c] \in Nat
<1>1. Charged[c] \in [Names -> Nat] /\ Own \subseteq Names /\ IsFiniteSet(Own)
  BY Stopping DEF Times, RunningInv, Own
<1>2. \A a \in Own : Charged[c][a] \in Int
  BY <1>1
<1>3. SumFunctionOnSet(Charged[c], Own) \in Int
  BY <1>1, <1>2, SumFacts
<1>4. now[c] \in Nat /\ total.elapsed[c] \in Int /\ total.begin[c] \in Nat
  BY DEF TimerInv, RunningInv
<1>5. Measured(c) \in Int
  BY <1>4 DEF Measured
<1> QED BY <1>1, <1>2, <1>3, <1>4, <1>5

\* One more for one task adds no more than one to a sum.
LEMMA SumTick ==
  ASSUME NEW f \in [Names -> Nat], NEW g \in [Names -> Nat], NEW D \in SUBSET Names,
         NEW t \in Names, IsFiniteSet(D),
         \A n \in Names : g[n] = IF n = t THEN f[n] + 1 ELSE f[n]
  PROVE  /\ SumFunctionOnSet(g, D) \in Int
         /\ SumFunctionOnSet(g, D) <= SumFunctionOnSet(f, D) + 1
<1>1. \A a \in D : f[a] \in Int /\ g[a] \in Int
  OBVIOUS
<1>2. SumFunctionOnSet(f, D) \in Int /\ SumFunctionOnSet(g, D) \in Int
  BY <1>1, SumFacts
<1>3. CASE t \notin D
  <2>1. \A a \in D : g[a] = f[a]
    BY <1>3
  <2>2. SumFunctionOnSet(g, D) = SumFunctionOnSet(f, D)
    BY <2>1, SumOfSame
  <2> QED BY <1>2, <2>2
<1>4. CASE t \in D
  <2> DEFINE R == D \ {t}
  <2>1. IsFiniteSet(R) /\ \A a \in R : a \in D /\ f[a] \in Int /\ g[a] = f[a]
    BY <1>1, FS_RemoveElement
  <2>2. SumFunctionOnSet(f, D) = f[t] + SumFunctionOnSet(f, R)
    BY <1>1, <1>4, SumFacts
  <2>3. SumFunctionOnSet(g, D) = g[t] + SumFunctionOnSet(g, R)
    BY <1>1, <1>4, SumFacts
  <2> HIDE DEF R
  <2>4. SumFunctionOnSet(g, R) = SumFunctionOnSet(f, R)
    BY <2>1, SumOfSame
  <2>5. SumFunctionOnSet(f, R) \in Int
    BY <2>1, SumFacts
  <2>6. f[t] \in Nat /\ g[t] = f[t] + 1
    OBVIOUS
  <2> QED BY <1>2, <2>2, <2>3, <2>4, <2>5, <2>6
<1> QED BY <1>3, <1>4

LEMMA TickRuns ==
  ASSUME TimerInv, RunningInv, TimerInv', Tick
  PROVE  RunningInv'
<1>1. PICK d \in Clocks : now' = [now EXCEPT ![d] = @ + 1]
  BY DEF Tick
<1>2. UNCHANGED <<tasks, known, begin, elapsed, first, last, total, imports, timing, whole>>
  BY DEF Tick
<1>3. \A c \in Clocks, n \in Names :
        Charged'[c][n] = IF c = d /\ tasks # <<>> /\ n = Top(tasks)
                         THEN Charged[c][n] + 1 ELSE Charged[c][n]
  BY <1>1, TickCharges
<1>4. Charged' \in Times
  BY StoppingNext DEF ChargesAreTimes
<1>5. Own' = Own
  BY <1>2 DEF Own
<1>6. \A c \in Clocks : now[c] \in Nat /\ now'[c] = IF c = d THEN now[c] + 1 ELSE now[c]
  BY <1>1 DEF TimerInv
<1>7. ASSUME NEW c \in Clocks, whole
      PROVE  SumFunctionOnSet(Charged'[c], Own) <= total.elapsed[c] + (IF timing THEN now'[c] - total.begin[c] ELSE 0)
  <2>1. /\ Charged[c] \in [Names -> Nat] /\ Own \in SUBSET Names /\ IsFiniteSet(Own)
        /\ SumFunctionOnSet(Charged[c], Own) \in Int
        /\ total.elapsed[c] \in Int /\ total.begin[c] \in Nat
        /\ SumFunctionOnSet(Charged[c], Own) <= total.elapsed[c] + (IF timing THEN now[c] - total.begin[c] ELSE 0)
    BY <1>7, ChargesOf DEF RunningInv, Measured
  <2>2. Charged'[c] \in [Names -> Nat]
    BY <1>4 DEF Times
  <2>3. CASE c = d /\ tasks # <<>>
    <3>1. timing
      BY <1>7, <2>3 DEF RunningInv
    <3>2. Top(tasks) \in Names
      BY <2>3, StackOps DEF TimerInv
    <3>3. \A n \in Names : Charged'[c][n] = IF n = Top(tasks) THEN Charged[c][n] + 1 ELSE Charged[c][n]
      BY <1>3, <2>3
    <3>4. /\ SumFunctionOnSet(Charged'[c], Own) \in Int
          /\ SumFunctionOnSet(Charged'[c], Own) <= SumFunctionOnSet(Charged[c], Own) + 1
      BY <2>1, <2>2, <3>2, <3>3, SumTick
    <3>5. now[c] \in Nat /\ now'[c] = now[c] + 1
      BY <1>6, <2>3
    <3> QED BY <2>1, <3>1, <3>4, <3>5
  <2>4. CASE ~(c = d /\ tasks # <<>>)
    <3>1. \A n \in Own : Charged'[c][n] = Charged[c][n]
      BY <1>3, <2>1, <2>4
    <3>2. SumFunctionOnSet(Charged'[c], Own) = SumFunctionOnSet(Charged[c], Own)
      BY <2>1, <3>1, SumOfSame
    <3>3. now[c] \in Nat /\ now'[c] \in Nat /\ now[c] <= now'[c]
      BY <1>6
    <3> QED BY <2>1, <3>2, <3>3
  <2> QED BY <2>3, <2>4
<1>8. ASSUME NEW c \in Clocks, NEW n \in Names
      PROVE  last[c][n] <= now'[c] /\ Charged'[c][n] <= Until(c, n)' - first[c][n]
  <2>1. /\ last[c][n] \in Nat /\ first[c][n] \in Nat /\ last[c][n] <= now[c]
        /\ Charged[c][n] <= Until(c, n) - first[c][n]
    BY DEF RunningInv, Times
  <2>2. Charged[c][n] \in Nat
    BY Stopping DEF Times
  <2>3. Until(c, n)' = IF tasks # <<>> /\ n = Top(tasks) THEN now'[c] ELSE last[c][n]
    BY <1>2 DEF Until, Top
  <2>4. Until(c, n) = IF tasks # <<>> /\ n = Top(tasks) THEN now[c] ELSE last[c][n]
    BY DEF Until
  <2>5. now[c] \in Nat /\ now'[c] = IF c = d THEN now[c] + 1 ELSE now[c]
    BY <1>6
  <2>6. Charged'[c][n] = IF c = d /\ tasks # <<>> /\ n = Top(tasks)
                         THEN Charged[c][n] + 1 ELSE Charged[c][n]
    BY <1>3
  <2> QED BY <2>1, <2>2, <2>3, <2>4, <2>5, <2>6
<1>9. \A c \in Clocks : Measured(c)' = total.elapsed[c] + (IF timing THEN now'[c] - total.begin[c] ELSE 0)
  BY <1>2 DEF Measured
<1> QED BY <1>2, <1>5, <1>7, <1>8, <1>9 DEF RunningInv

\* A step that changes no charge, and adds to the own tasks none that took time.
LEMMA SameCharges ==
  ASSUME TimerInv, RunningInv, Charged' = Charged,
         NEW n \in Names, Own' \in {Own, Own \cup {n}},
         n \in Own \/ \A c \in Clocks : Charged[c][n] = 0
  PROVE  /\ IsFiniteSet(Own')
         /\ \A c \in Clocks : SumFunctionOnSet(Charged'[c], Own') = SumFunctionOnSet(Charged[c], Own)
<1>1. IsFiniteSet(Own) /\ Own \subseteq Names
  BY DEF RunningInv, Own
<1>2. CASE Own' = Own
  BY <1>1, <1>2
<1>3. CASE Own' = Own \cup {n} /\ n \notin Own
  <2>1. ASSUME NEW c \in Clocks
        PROVE  SumFunctionOnSet(Charged[c], Own \cup {n}) = SumFunctionOnSet(Charged[c], Own)
    <3>1. Charged[c] \in [Names -> Nat] /\ SumFunctionOnSet(Charged[c], Own) \in Int
      BY ChargesOf
    <3>2. \A a \in Own \cup {n} : Charged[c][a] \in Int
      BY <1>1, <3>1
    <3>3. SumFunctionOnSet(Charged[c], Own \cup {n}) = Charged[c][n] + SumFunctionOnSet(Charged[c], Own)
      BY <1>1, <1>3, <3>2, SumWithOneMore
    <3>4. Charged[c][n] = 0
      BY <1>3
    <3> QED BY <3>1, <3>3, <3>4
  <2> QED BY <1>1, <1>3, <2>1, FS_AddElement
<1> QED BY <1>2, <1>3

\* When a task stops or starts, or none does, and the total is left alone.
LEMMA StopsAt ==
  ASSUME TimerInv, RunningInv
  PROVE  /\ StoppedLast \in Times
         /\ \A c \in Clocks, m \in Names :
              /\ StoppedLast[c][m] = Until(c, m) /\ StoppedLast[c][m] <= now[c]
              /\ Charged[c][m] <= StoppedLast[c][m] - first[c][m]
<1>1. /\ StoppedLast \in Times
      /\ \A c \in Clocks, m \in Names : StoppedLast[c][m] = Until(c, m)
  <2>1. CASE tasks = <<>>
    BY <2>1 DEF StoppedLast, Until, RunningInv
  <2>2. CASE tasks # <<>>
    <3>1. Top(tasks) \in Names /\ now \in [Clocks -> Nat] /\ last \in Times
      BY <2>2, StackOps DEF TimerInv, RunningInv
    <3>2. StoppedLast = [c \in Clocks |-> [last[c] EXCEPT ![Top(tasks)] = now[c]]]
      BY <2>2 DEF StoppedLast
    <3>3. /\ StoppedLast \in Times
          /\ \A c \in Clocks, m \in Names : StoppedLast[c][m] = IF m = Top(tasks) THEN now[c] ELSE last[c][m]
      BY <3>1, <3>2, TimesExcept
    <3> QED BY <2>2, <3>3 DEF Until
  <2> QED BY <2>1, <2>2
<1>2. ASSUME NEW c \in Clocks, NEW m \in Names
      PROVE  Until(c, m) <= now[c] /\ Charged[c][m] <= Until(c, m) - first[c][m]
  <2>1. now[c] \in Nat /\ last[c][m] <= now[c] /\ Charged[c][m] <= Until(c, m) - first[c][m]
    BY DEF TimerInv, RunningInv
  <2> QED BY <2>1 DEF Until
<1> QED BY <1>1, <1>2

LEMMA PushRuns ==
  ASSUME TimerInv, RunningInv, TimerInv', NEW n \in Names, push(n)
  PROVE  RunningInv'
<1>1. /\ elapsed' = StoppedElapsed /\ last' = StoppedLast
      /\ tasks' = Append(tasks, n) /\ known' = known \cup {n}
      /\ begin' = StartOf(begin, n)
      /\ first' = IF n \in known THEN first ELSE StartOf(first, n)
      /\ whole' = (whole /\ timing)
      /\ UNCHANGED <<now, total, imports, timing>>
  BY DEF push, Started
<1>2. tasks' # <<>> /\ Top(tasks') = n
  BY <1>1, StackAppend DEF TimerInv
<1>3. \A c \in Clocks : begin'[c][Top(tasks')] = now[c]
  BY <1>1, <1>2, Starting
<1>4. Charged' = Charged /\ Charged \in Times
  BY <1>1, <1>3, SwitchCharges, Stopping
<1>5. n \notin known => \A c \in Clocks : Charged[c][n] = 0
  BY Stopping
<1>6. /\ IsFiniteSet(Own')
      /\ \A c \in Clocks : SumFunctionOnSet(Charged'[c], Own') = SumFunctionOnSet(Charged[c], Own)
  <2>1. CASE n \in imports
    <3>1. Own' = Own
      BY <1>1, <2>1 DEF Own
    <3> QED BY <1>4, <3>1 DEF RunningInv
  <2>2. CASE n \notin imports
    <3>1. Own' \in {Own, Own \cup {n}} /\ (n \in Own \/ \A c \in Clocks : Charged[c][n] = 0)
      BY <1>1, <1>5, <2>2 DEF Own
    <3> QED BY <1>4, <3>1, SameCharges
  <2> QED BY <2>1, <2>2
<1>7. /\ last' \in Times
      /\ \A c \in Clocks, m \in Names :
           last'[c][m] <= now[c] /\ Charged[c][m] <= last'[c][m] - first[c][m]
  BY <1>1, StopsAt
<1>8. /\ first' \in Times
      /\ \A c \in Clocks, m \in Names :
           first'[c][m] = IF m = n /\ n \notin known THEN now[c] ELSE first[c][m]
  <2>1. now \in [Clocks -> Nat] /\ first \in Times
    BY DEF TimerInv, RunningInv
  <2>2. /\ StartOf(first, n) \in Times
        /\ \A c \in Clocks, m \in Names : StartOf(first, n)[c][m] = IF m = n THEN now[c] ELSE first[c][m]
    BY <2>1, TimesExcept DEF StartOf
  <2> QED BY <1>1, <2>1, <2>2
<1>9. ASSUME NEW c \in Clocks, NEW m \in Names
      PROVE  last'[c][m] <= now'[c] /\ Charged'[c][m] <= Until(c, m)' - first'[c][m]
  <2>1. Until(c, m)' = IF m = n THEN now[c] ELSE last'[c][m]
    BY <1>1, <1>2 DEF Until, Top
  <2>2. /\ now[c] \in Nat /\ Charged[c][m] \in Nat /\ last'[c][m] \in Nat /\ first[c][m] \in Nat
    BY <1>4, <1>7 DEF TimerInv, RunningInv, Times
  <2>3. last'[c][m] <= now[c] /\ Charged[c][m] <= last'[c][m] - first[c][m]
    BY <1>7
  <2>4. first'[c][m] = IF m = n /\ n \notin known THEN now[c] ELSE first[c][m]
    BY <1>8
  <2>5. CASE m = n /\ n \notin known
    <3>1. Charged[c][m] = 0
      BY <1>5, <2>5
    <3> QED BY <1>1, <1>4, <2>1, <2>2, <2>3, <2>4, <2>5, <3>1
  <2>6. CASE ~(m = n /\ n \notin known)
    <3>1. Until(c, m)' \in {now[c], last'[c][m]} /\ first'[c][m] = first[c][m]
      BY <2>1, <2>4, <2>6
    <3> QED BY <1>1, <1>4, <2>2, <2>3, <3>1
  <2> QED BY <2>5, <2>6
<1>10. known' \subseteq Names /\ timing' \in BOOLEAN /\ whole' \in BOOLEAN /\ (whole' => whole /\ timing')
  BY <1>1 DEF RunningInv
<1>11. \A c \in Clocks : Measured(c)' = Measured(c)
  BY <1>1 DEF Measured
<1>12. total' = total /\ total \in [begin : [Clocks -> Nat], elapsed : [Clocks -> Int]]
       /\ (whole => \A c \in Clocks : SumFunctionOnSet(Charged[c], Own) <= Measured(c))
  BY <1>1 DEF RunningInv
<1> QED BY <1>6, <1>7, <1>8, <1>9, <1>10, <1>11, <1>12 DEF RunningInv

LEMMA PopRuns ==
  ASSUME TimerInv, RunningInv, TimerInv', pop
  PROVE  RunningInv'
<1>1. /\ tasks # <<>> /\ elapsed' = StoppedElapsed /\ last' = StoppedLast
      /\ tasks' = Without(tasks)
      /\ begin' = (IF tasks' = <<>> THEN begin ELSE StartOf(begin, Top(tasks')))
      /\ UNCHANGED <<now, known, first, total, imports, timing, whole>>
  BY DEF pop
<1>2. tasks' # <<>> => Top(tasks') \in Names
  BY StackOps DEF TimerInv
<1>3. tasks' # <<>> => \A c \in Clocks : begin'[c][Top(tasks')] = now[c]
  BY <1>1, <1>2, Starting
<1>4. Charged' = Charged /\ Charged \in Times /\ Own' = Own
  BY <1>1, <1>3, SwitchCharges, Stopping DEF Own
<1>5. /\ last' \in Times
      /\ \A c \in Clocks, m \in Names :
           last'[c][m] <= now[c] /\ Charged[c][m] <= last'[c][m] - first[c][m]
  BY <1>1, StopsAt
<1>6. ASSUME NEW c \in Clocks, NEW m \in Names
      PROVE  last'[c][m] <= now'[c] /\ Charged'[c][m] <= Until(c, m)' - first'[c][m]
  <2>1. Until(c, m)' \in {now[c], last'[c][m]}
    BY <1>1 DEF Until
  <2>2. now[c] \in Nat /\ Charged[c][m] \in Nat /\ last'[c][m] \in Nat /\ first[c][m] \in Nat
    BY <1>4, <1>5 DEF TimerInv, RunningInv, Times
  <2>3. last'[c][m] <= now[c] /\ Charged[c][m] <= last'[c][m] - first[c][m]
    BY <1>5
  <2> QED BY <1>1, <1>4, <2>1, <2>2, <2>3
<1>7. \A c \in Clocks : Measured(c)' = Measured(c)
  BY <1>1 DEF Measured
<1>8. whole /\ ~timing => tasks = <<>>
  BY DEF RunningInv
<1> QED BY <1>1, <1>4, <1>5, <1>6, <1>7, <1>8 DEF RunningInv

LEMMA MergeRuns ==
  ASSUME TimerInv, RunningInv, TimerInv', merge
  PROVE  RunningInv'
<1>1. PICK S \in (SUBSET (Names \ known)) \ {{}}, e \in [Clocks -> 0 .. MaxNow] :
        /\ \A c \in Clocks : e[c] <= now[c]
        /\ known' = known \cup S /\ imports' = imports \cup S
        /\ elapsed' = [c \in Clocks |-> [n \in Names |-> IF n \in S THEN e[c] ELSE elapsed[c][n]]]
        /\ first' = [c \in Clocks |-> [n \in Names |-> IF n \in S THEN now[c] - e[c] ELSE first[c][n]]]
        /\ last' = [c \in Clocks |-> [n \in Names |-> IF n \in S THEN now[c] ELSE last[c][n]]]
  BY DEF merge
<1>2. UNCHANGED <<tasks, begin, total, timing, whole, now>>
  BY DEF merge
<1>3. \A c \in Clocks : e[c] \in Nat /\ now[c] \in Nat /\ now[c] - e[c] \in Nat
                        /\ now[c] - (now[c] - e[c]) = e[c]
  <2> TAKE c \in Clocks
  <2>1. e[c] \in Nat /\ now[c] \in Nat /\ e[c] <= now[c]
    BY <1>1, MaxNowAssumption DEF TimerInv
  <2> QED BY <2>1
<1>4. Own' = Own /\ Own \cap S = {}
  BY <1>1 DEF Own
<1>5. tasks # <<>> => Top(tasks) \notin S
  BY <1>1, StackOps DEF TimerInv, Top
<1>6. \A c \in Clocks, n \in Names : Charged'[c][n] = IF n \in S THEN e[c] ELSE Charged[c][n]
  <2> SUFFICES ASSUME NEW c \in Clocks, NEW n \in Names
               PROVE  Charged'[c][n] = IF n \in S THEN e[c] ELSE Charged[c][n]
    OBVIOUS
  <2>1. Charged'[c][n] = IF tasks' # <<>> /\ n = Top(tasks')
                         THEN elapsed'[c][n] + (now'[c] - begin'[c][n]) ELSE elapsed'[c][n]
    BY ChargedNext DEF ChargesHere, Top
  <2>2. elapsed'[c][n] = IF n \in S THEN e[c] ELSE elapsed[c][n]
    BY <1>1
  <2> QED BY <1>2, <1>5, <2>1, <2>2, ChargedIs
<1>7. \A c \in Clocks, n \in Names : Until(c, n)' = IF n \in S THEN now[c] ELSE Until(c, n)
  <2> SUFFICES ASSUME NEW c \in Clocks, NEW n \in Names
               PROVE  Until(c, n)' = IF n \in S THEN now[c] ELSE Until(c, n)
    OBVIOUS
  <2>1. last'[c][n] = IF n \in S THEN now[c] ELSE last[c][n]
    BY <1>1
  <2> QED BY <1>2, <1>5, <2>1 DEF Until, Top
<1>8. \A c \in Clocks : SumFunctionOnSet(Charged'[c], Own) = SumFunctionOnSet(Charged[c], Own)
  <2> TAKE c \in Clocks
  <2>1. IsFiniteSet(Own) /\ Own \subseteq Names
    BY DEF RunningInv, Own
  <2>2. \A a \in Own : Charged'[c][a] = Charged[c][a]
    BY <1>4, <1>6, <2>1
  <2> QED BY <2>1, <2>2, SumOfSame
<1>9. /\ first' \in Times /\ last' \in Times /\ known' \subseteq Names
      /\ \A c \in Clocks, n \in Names : /\ first'[c][n] = IF n \in S THEN now[c] - e[c] ELSE first[c][n]
                                        /\ last'[c][n] = IF n \in S THEN now[c] ELSE last[c][n]
  BY <1>1, <1>3 DEF RunningInv, Times
<1>10. ASSUME NEW c \in Clocks, NEW n \in Names
       PROVE  last'[c][n] <= now'[c] /\ Charged'[c][n] <= Until(c, n)' - first'[c][n]
  <2>1. CASE n \in S
    BY <1>2, <1>3, <1>6, <1>7, <1>9, <2>1
  <2>2. CASE n \notin S
    <3>1. last[c][n] <= now[c] /\ Charged[c][n] <= Until(c, n) - first[c][n]
      BY DEF RunningInv
    <3> QED BY <1>2, <1>6, <1>7, <1>9, <2>2, <3>1
  <2> QED BY <2>1, <2>2
<1>11. \A c \in Clocks : Measured(c)' = Measured(c)
  BY <1>2 DEF Measured
<1> QED BY <1>2, <1>4, <1>8, <1>9, <1>10, <1>11 DEF RunningInv

\* The total is started and stopped at the time that is now.
LEMMA TotalStops ==
  ASSUME TimerInv, RunningInv
  PROVE  /\ StoppedTotal \in [begin : [Clocks -> Nat], elapsed : [Clocks -> Int]]
         /\ timing => \A c \in Clocks : StoppedTotal.elapsed[c] = Measured(c)
<1>1. total \in [begin : [Clocks -> Nat], elapsed : [Clocks -> Int]] /\ now \in [Clocks -> Nat]
  BY DEF TimerInv, RunningInv
<1>2. \A c \in Clocks : total.elapsed[c] + (now[c] - total.begin[c]) \in Int
  BY <1>1
<1>3. StoppedTotal = [begin |-> total.begin,
                      elapsed |-> [c \in Clocks |-> total.elapsed[c] + (now[c] - total.begin[c])]]
  BY <1>1 DEF StoppedTotal
<1> QED BY <1>1, <1>2, <1>3 DEF Measured

LEMMA TotalRuns ==
  ASSUME TimerInv, RunningInv, TimerInv', start \/ stop
  PROVE  RunningInv'
<1>1. UNCHANGED <<now, tasks, known, begin, elapsed, first, last, imports>>
  BY DEF start, stop
<1>2. Charged' = Charged /\ Own' = Own
  BY <1>1, SameCharged DEF Own
<1>3. \A c \in Clocks, n \in Names : Until(c, n)' = Until(c, n)
  BY <1>1 DEF Until, Top
<1>4. /\ total' \in [begin : [Clocks -> Nat], elapsed : [Clocks -> Int]]
      /\ timing' \in BOOLEAN /\ whole' \in BOOLEAN
      /\ whole' /\ ~timing' => tasks = <<>>
      /\ whole' => whole /\ \A c \in Clocks : Measured(c)' = Measured(c)
  <2>1. CASE start
    <3>1. total' = [total EXCEPT !.begin = now] /\ timing' = TRUE /\ whole' = (whole /\ ~timing)
      BY <2>1 DEF start
    <3>2. total \in [begin : [Clocks -> Nat], elapsed : [Clocks -> Int]] /\ now \in [Clocks -> Nat]
      BY DEF TimerInv, RunningInv
    <3>3. total' = [begin |-> now, elapsed |-> total.elapsed]
      BY <3>1, <3>2
    <3>4. \A c \in Clocks : Measured(c)' = total.elapsed[c] + (now[c] - now[c])
      BY <1>1, <3>1, <3>3 DEF Measured
    <3>5. ASSUME ~timing, NEW c \in Clocks
          PROVE  Measured(c)' = Measured(c)
      <4>1. now[c] \in Nat /\ total.elapsed[c] \in Int
        BY <3>2
      <4> QED BY <3>4, <3>5, <4>1 DEF Measured
    <3>6. total' \in [begin : [Clocks -> Nat], elapsed : [Clocks -> Int]]
      BY <3>2, <3>3
    <3>7. whole \in BOOLEAN
      BY DEF RunningInv
    <3> QED BY <3>1, <3>5, <3>6, <3>7
  <2>2. CASE stop
    <3>1. total' = StoppedTotal /\ timing' = FALSE /\ whole' = (whole /\ timing /\ tasks = <<>>)
      BY <2>2 DEF stop
    <3>2. \A c \in Clocks : Measured(c)' = StoppedTotal.elapsed[c] + 0
      BY <3>1 DEF Measured
    <3>3. total' \in [begin : [Clocks -> Nat], elapsed : [Clocks -> Int]]
      BY <3>1, TotalStops
    <3>4. ASSUME timing, NEW c \in Clocks
          PROVE  Measured(c)' = Measured(c)
      BY <3>2, <3>4, TotalStops, ChargesOf
    <3>5. whole \in BOOLEAN /\ timing \in BOOLEAN
      BY DEF RunningInv
    <3> QED BY <3>1, <3>3, <3>4, <3>5
  <2> QED BY <2>1, <2>2
<1> QED BY <1>1, <1>2, <1>3, <1>4 DEF RunningInv

LEMMA DestroyRuns ==
  ASSUME TimerInv, RunningInv, TimerInv', destroy
  PROVE  RunningInv'
<1>1. UNCHANGED <<now, known, begin, first, imports>> /\ Own' = Own
  BY DEF destroy, Own
<1>2. CASE ~(dumping /\ tasks # <<>>)
  <2>1. UNCHANGED <<tasks, elapsed, last, total, timing, whole>>
    BY <1>2 DEF destroy
  <2>2. Charged' = Charged
    BY <1>1, <2>1, SameCharged
  <2>3. \A c \in Clocks : Measured(c)' = Measured(c) /\ \A n \in Names : Until(c, n)' = Until(c, n)
    BY <1>1, <2>1 DEF Measured, Until, Top
  <2> QED BY <1>1, <2>1, <2>2, <2>3 DEF RunningInv
<1>3. CASE dumping /\ tasks # <<>>
  <2>1. /\ elapsed' = StoppedElapsed /\ tasks' = <<>> /\ total' = StoppedTotal
        /\ timing' = FALSE /\ whole' = (whole /\ timing)
        /\ last' = [c \in Clocks |-> [n \in Names |->
                      IF \E i \in DOMAIN tasks : tasks[i] = n THEN now[c] ELSE last[c][n]]]
    BY <1>3 DEF destroy
  <2>2. Charged' = Charged /\ Charged \in Times
    BY <1>1, <2>1, SwitchCharges, Stopping
  <2>3. last' \in Times
    BY <2>1 DEF TimerInv, RunningInv, Times
  <2>4. ASSUME NEW c \in Clocks, NEW n \in Names
        PROVE  last'[c][n] <= now'[c] /\ Charged'[c][n] <= Until(c, n)' - first'[c][n]
    <3>1. last'[c][n] = IF \E i \in DOMAIN tasks : tasks[i] = n THEN now[c] ELSE last[c][n]
      BY <2>1
    <3>2. tasks # <<>> /\ n = Top(tasks) => \E i \in DOMAIN tasks : tasks[i] = n
      BY StackOps DEF TimerInv, Top
    <3>3. /\ now[c] \in Nat /\ last[c][n] \in Nat /\ first[c][n] \in Nat /\ last[c][n] <= now[c]
          /\ Charged[c][n] <= Until(c, n) - first[c][n] /\ Charged[c][n] \in Nat
      BY <2>2 DEF TimerInv, RunningInv, Times
    <3>4. Until(c, n)' = last'[c][n]
      BY <2>1 DEF Until
    <3>5. Until(c, n) <= last'[c][n] /\ last'[c][n] <= now[c] /\ Until(c, n) \in Nat /\ last'[c][n] \in Nat
      BY <3>1, <3>2, <3>3 DEF Until
    <3> QED BY <1>1, <2>2, <3>3, <3>4, <3>5
  <2>5. /\ total' \in [begin : [Clocks -> Nat], elapsed : [Clocks -> Int]]
        /\ timing => \A c \in Clocks : StoppedTotal.elapsed[c] = Measured(c)
    BY <2>1, TotalStops
  <2>6. \A c \in Clocks : Measured(c)' = StoppedTotal.elapsed[c] + 0
    BY <2>1 DEF Measured
  <2>7. ASSUME whole', NEW c \in Clocks
        PROVE  SumFunctionOnSet(Charged'[c], Own') <= Measured(c)'
    <3>1. whole /\ timing
      BY <2>1, <2>7
    <3>2. SumFunctionOnSet(Charged[c], Own) <= Measured(c) /\ Measured(c) \in Int
      BY <3>1, ChargesOf DEF RunningInv
    <3> QED BY <1>1, <2>2, <2>5, <2>6, <3>1, <3>2
  <2>8. /\ timing' \in BOOLEAN /\ whole' \in BOOLEAN /\ tasks' = <<>>
    BY <2>1 DEF RunningInv
  <2>9. IsFiniteSet(Own') /\ known' \subseteq Names /\ first' \in Times
    BY <1>1 DEF RunningInv
  <2> QED BY <2>3, <2>4, <2>5, <2>7, <2>8, <2>9 DEF RunningInv
<1> QED BY <1>2, <1>3

LEMMA NextReport == TimerInv /\ RunningInv /\ TimerInv' /\ [Next]_tmvars => RunningInv'
<1> SUFFICES ASSUME TimerInv, RunningInv, TimerInv', [Next]_tmvars PROVE RunningInv'
  OBVIOUS
<1>1. CASE dump_on_destruction \/ UNCHANGED tmvars
  <2>1. UNCHANGED <<now, tasks, known, begin, elapsed, first, last, total, imports, timing, whole>>
    BY <1>1 DEF dump_on_destruction, tmvars
  <2>2. Charged' = Charged /\ Own' = Own
    BY <2>1, SameCharged DEF Own
  <2>3. \A c \in Clocks : Measured(c)' = Measured(c) /\ \A n \in Names : Until(c, n)' = Until(c, n)
    BY <2>1 DEF Measured, Until, Top
  <2> QED BY <2>1, <2>2, <2>3 DEF RunningInv
<1> QED
  BY <1>1, TickRuns, PushRuns, PopRuns, MergeRuns, TotalRuns, DestroyRuns DEF Next

\* With the total stopped after the last task, the charges are what is dumped.
LEMMA ReportFollows ==
  ASSUME TimerInv, RunningInv, whole, ~timing
  PROVE  ReportAddsUp
<1> DEFINE rows == {x \in known : Took(x)}
           took == [n \in rows |-> [c \in Clocks |-> elapsed[c][n]]]
           cumulated == [n \in {x \in known : Lasted(x)} |-> [c \in Clocks |-> last[c][n] - first[c][n]]]
<1>1. dump.execution = took /\ dump.cumulated = cumulated /\ dump.total = total.elapsed
  BY DEF dump
<1>2. tasks = <<>> /\ Charged \in Times /\ rows \subseteq Names /\ rows \in SUBSET known
  BY Stopping DEF RunningInv
<1>3. \A c \in Clocks, n \in Names : Charged[c][n] = elapsed[c][n] /\ Until(c, n) = last[c][n]
  BY <1>2, ChargedIs DEF Until
<1>4. ASSUME NEW c \in Clocks
      PROVE  SumFunctionOnSet([n \in rows |-> took[n][c]], rows \ imports) <= total.elapsed[c]
  <2> DEFINE f == [n \in rows |-> took[n][c]]
  <2>1. rows \ imports \in SUBSET Own /\ IsFiniteSet(Own) /\ Own \subseteq Names
    BY DEF Own, RunningInv
  <2>2. IsFiniteSet(rows \ imports)
    BY <2>1, FS_Subset
  <2>3. \A n \in rows \ imports : f[n] = Charged[c][n]
    BY <1>2, <1>3
  <2> HIDE DEF f, rows, took
  <2>4. SumFunctionOnSet(f, rows \ imports) = SumFunctionOnSet(Charged[c], rows \ imports)
    BY <2>2, <2>3, SumOfSame
  <2>5. \A n \in Own : Charged[c][n] \in Nat
    BY <1>2, <2>1 DEF Times
  <2>6. SumFunctionOnSet(Charged[c], rows \ imports) <= SumFunctionOnSet(Charged[c], Own)
    BY <2>1, <2>5, SumOfPart
  <2>7. \A n \in rows \ imports : Charged[c][n] \in Int
    BY <2>1, <2>5
  <2>8. SumFunctionOnSet(Charged[c], rows \ imports) \in Int
    BY <2>2, <2>7, SumFacts
  <2>9. /\ SumFunctionOnSet(Charged[c], Own) \in Int /\ total.elapsed[c] \in Int
        /\ SumFunctionOnSet(Charged[c], Own) <= total.elapsed[c] + 0
    BY ChargesOf DEF RunningInv, Measured
  <2>10. SumFunctionOnSet(f, rows \ imports) <= total.elapsed[c]
    BY <2>4, <2>6, <2>8, <2>9
  <2> QED BY <2>10 DEF f
<1>5. ASSUME NEW n \in rows, NEW c \in Clocks
      PROVE  /\ took[n][c] = elapsed[c][n] /\ elapsed[c][n] \in Nat
             /\ last[c][n] \in Nat /\ first[c][n] \in Nat
             /\ elapsed[c][n] <= last[c][n] - first[c][n]
  <2>1. n \in Names /\ took[n][c] = elapsed[c][n]
    BY <1>2
  <2> HIDE DEF rows, took
  <2>2. Charged[c][n] <= Until(c, n) - first[c][n] /\ Charged[c][n] = elapsed[c][n] /\ Until(c, n) = last[c][n]
    BY <1>3, <2>1 DEF RunningInv
  <2> QED BY <2>1, <2>2 DEF TimerInv, RunningInv, Times
<1>6. ASSUME NEW n \in rows
      PROVE  /\ took[n][Wall] # 0 => n \in DOMAIN cumulated
             /\ n \in DOMAIN cumulated => \A c \in Clocks : took[n][c] <= cumulated[n][c]
  <2>1. n \in known /\ (n \in DOMAIN cumulated <=> Lasted(n))
    OBVIOUS
  <2>2. Lasted(n) => \A c \in Clocks : cumulated[n][c] = last[c][n] - first[c][n]
    BY <2>1
  <2>3. took[n][Wall] # 0 => Lasted(n)
    <3>1. /\ took[n][Wall] = elapsed[Wall][n] /\ elapsed[Wall][n] \in Nat
          /\ last[Wall][n] \in Nat /\ first[Wall][n] \in Nat
          /\ elapsed[Wall][n] <= last[Wall][n] - first[Wall][n]
      BY <1>5, ClocksAssumption
    <3> HIDE DEF took, rows, cumulated
    <3> QED BY <3>1 DEF Lasted
  <2> HIDE DEF took, rows, cumulated
  <2> QED BY <1>5, <2>1, <2>2, <2>3
<1>7. DOMAIN took = rows
  OBVIOUS
<1> HIDE DEF took, rows, cumulated
<1> QED BY <1>1, <1>4, <1>6, <1>7 DEF ReportAddsUp

\* What the timer dumps adds up on each clock when all tasks ran within the total:
\* the tasks of this timer took no more than the total, and none took longer than
\* from its first start to its last stop.
THEOREM ReportIsSound == Spec => []ReportAddsUp
<1>1. Spec => []TimerInv
  BY InitTimerInv, NextTimerInv, PTL DEF Spec
<1>2. TimerInv /\ RunningInv => ReportAddsUp
  BY ReportFollows DEF ReportAddsUp
<1> QED
  BY <1>1, <1>2, InitReport, NextReport, PTL DEF Spec
=============================================================================
