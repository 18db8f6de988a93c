----------------------------- MODULE BinderProofs -----------------------------
(***************************************************************************)
(* Proofs that the binder keeps what BinderProps says, for any program:    *)
(* any names, any number of nodes, and batches of any length.              *)
(***************************************************************************)
EXTENDS BinderProps, Induction

-----------------------------------------------------------------------------
(* Trees.                                                                  *)

\* f leads from each of the first n nodes to those above it.
Lineage(n, parent, f) ==
  f = [i \in 0..n |-> IF i = 0 THEN {0} ELSE {i} \cup f[parent[i]]]

LEMMA LineageValues ==
  ASSUME NEW n, NEW parent, NEW f
  PROVE  Lineage(n, parent, f) <=>
           /\ f = [i \in 0..n |-> f[i]]
           /\ \A i \in 0..n : f[i] = IF i = 0 THEN {0} ELSE {i} \cup f[parent[i]]
BY DEF Lineage

\* The lineage of one node more.
LEMMA LineageGrows ==
  ASSUME NEW m \in Nat, NEW parent, \A i \in 1..(m + 1) : parent[i] \in 0..(i - 1),
         NEW f, Lineage(m, parent, f)
  PROVE  \E g : Lineage(m + 1, parent, g)
<1> DEFINE top == {m + 1} \cup f[parent[m + 1]]
           g == [i \in 0..(m + 1) |-> IF i = m + 1 THEN top ELSE f[i]]
<1>1. \A i \in 0..m : g[i] = f[i]
  OBVIOUS
<1>2. g[m + 1] = {m + 1} \cup g[parent[m + 1]]
  <2>1. parent[m + 1] \in 0..m
    OBVIOUS
  <2> QED BY <1>1, <2>1
<1>3. \A i \in 0..m : g[i] = IF i = 0 THEN {0} ELSE {i} \cup g[parent[i]]
  <2>1. SUFFICES ASSUME NEW i \in 0..m
                 PROVE  f[i] = IF i = 0 THEN {0} ELSE {i} \cup g[parent[i]]
    BY <1>1
  <2>2. i # 0 => parent[i] \in 0..m
    OBVIOUS
  <2> HIDE DEF g
  <2> QED BY <1>1, <2>2, LineageValues
<1>4. g = [i \in 0..(m + 1) |-> g[i]]
  OBVIOUS
<1> HIDE DEF g, top
<1>5. \A i \in 0..(m + 1) : g[i] = IF i = 0 THEN {0} ELSE {i} \cup g[parent[i]]
  <2>1. SUFFICES ASSUME NEW i \in 0..(m + 1)
                 PROVE  g[i] = IF i = 0 THEN {0} ELSE {i} \cup g[parent[i]]
    OBVIOUS
  <2>2. CASE i \in 0..m
    BY <1>3, <2>2
  <2>3. CASE i = m + 1
    <3>1. i # 0
      BY <2>3
    <3>2. g[i] = {i} \cup g[parent[i]]
      BY <1>2, <2>3
    <3> QED BY <3>1, <3>2
  <2> QED BY <2>2, <2>3
<1>6. Lineage(m + 1, parent, g)
  BY <1>4, <1>5, LineageValues
<1> QED BY <1>6

LEMMA LineageExists ==
  ASSUME NEW n \in Nat, NEW parent, \A i \in 1..n : parent[i] \in 0..(i - 1)
  PROVE  \E f : Lineage(n, parent, f)
<1> DEFINE S == {m \in 0..n : \E f : Lineage(m, parent, f)}
<1>1. 0 \in S
  <2> DEFINE f == [i \in 0..0 |-> {0}]
  <2>1. Lineage(0, parent, f)
    BY DEF Lineage
  <2> QED BY <2>1
<1>2. \A m \in 0..(n - 1) : m \in S => m + 1 \in S
  BY LineageGrows
<1>3. 0..n \subseteq S
  <2> HIDE DEF S
  <2> QED BY <1>1, <1>2, InductionUpTo
<1>4. n \in S
  BY <1>3
<1> QED BY <1>4

LEMMA TheLineage ==
  ASSUME NEW ns, Len(ns) \in Nat, \A i \in 1..Len(ns) : ns[i].in \in 0..(i - 1),
         NEW f,
         f = CHOOSE g : g = [i \in 0..Len(ns) |-> IF i = 0 THEN {0} ELSE {i} \cup g[ns[i].in]]
  PROVE  \A i \in 0..Len(ns) : f[i] = IF i = 0 THEN {0} ELSE {i} \cup f[ns[i].in]
<1> DEFINE parent == [i \in 1..Len(ns) |-> ns[i].in]
           Is(g) == g = [i \in 0..Len(ns) |-> IF i = 0 THEN {0} ELSE {i} \cup g[ns[i].in]]
<1>1. \A i \in 1..Len(ns) : parent[i] \in 0..(i - 1) /\ parent[i] = ns[i].in
  OBVIOUS
<1>2. PICK g : Lineage(Len(ns), parent, g)
  <2> HIDE DEF parent
  <2> QED BY <1>1, LineageExists
<1>3. \A i \in 0..Len(ns) : g[i] = IF i = 0 THEN {0} ELSE {i} \cup g[ns[i].in]
  <2> HIDE DEF parent
  <2> QED BY <1>1, <1>2, LineageValues
<1>4. Is(g)
  <2>1. g = [i \in 0..Len(ns) |-> g[i]]
    BY <1>2, LineageValues
  <2> QED BY <1>3, <2>1
<1>5. Is(f)
  <2> HIDE DEF Is
  <2>1. f = CHOOSE h : Is(h)
    BY DEF Is
  <2> QED BY <1>4, <2>1
<1> QED BY <1>5

\* Parents come first.
Rooted == /\ Len(nodes) \in Nat
          /\ \A i \in 1..Len(nodes) : nodes[i].in \in 0..(i - 1)

LEMMA AncestorsDef ==
  ASSUME Rooted
  PROVE  \A i \in 0..Len(nodes) :
           Ancestors[i] = IF i = 0 THEN {0} ELSE {i} \cup Ancestors[nodes[i].in]
BY TheLineage DEF Ancestors, Rooted

LEMMA AncestorsDefNext ==
  ASSUME Rooted'
  PROVE  \A i \in 0..Len(nodes') :
           Ancestors'[i] = IF i = 0 THEN {0} ELSE {i} \cup Ancestors'[nodes'[i].in]
BY TheLineage DEF Ancestors, Rooted

LEMMA AncestorsBounded ==
  ASSUME Rooted
  PROVE  \A i \in 0..Len(nodes) : Ancestors[i] \subseteq 0..i /\ i \in Ancestors[i] /\ 0 \in Ancestors[i]
<1> DEFINE Bounded(i) == Ancestors[i] \subseteq 0..i /\ i \in Ancestors[i] /\ 0 \in Ancestors[i]
           T == {i \in 0..Len(nodes) : ~Bounded(i)}
<1>1. SUFFICES ASSUME T # {} PROVE FALSE
  OBVIOUS
<1>2. PICK i \in T : \A m \in T : i <= m
  <2>1. T \subseteq Nat
    BY DEF Rooted
  <2> HIDE DEF T
  <2> QED BY <1>1, <2>1, LeastElement
<1>3. i \in 0..Len(nodes) /\ ~Bounded(i) /\ \A m \in 0..Len(nodes) : m < i => Bounded(m)
  <2>1. \A m \in 0..Len(nodes) : Bounded(m) \/ m \in T
    OBVIOUS
  <2>2. i \in 0..Len(nodes) /\ ~Bounded(i)
    BY <1>2
  <2> HIDE DEF T, Bounded
  <2> QED BY <1>2, <2>1, <2>2 DEF Rooted
<1> HIDE DEF T
<1>4. Ancestors[i] = IF i = 0 THEN {0} ELSE {i} \cup Ancestors[nodes[i].in]
  BY <1>3, AncestorsDef
<1>5. CASE i = 0
  BY <1>3, <1>4, <1>5
<1>6. CASE i # 0
  <2>1. nodes[i].in \in 0..(i - 1) /\ nodes[i].in \in 0..Len(nodes)
    BY <1>3, <1>6 DEF Rooted
  <2>2. Bounded(nodes[i].in)
    <3> HIDE DEF Bounded
    <3> QED BY <1>3, <2>1
  <2> QED BY <1>3, <1>4, <1>6, <2>1, <2>2
<1> QED BY <1>5, <1>6

\* The tree has grown: its nodes are as they were.
Extended ==
  /\ Rooted /\ Rooted'
  /\ Len(nodes) <= Len(nodes')
  /\ \A i \in 1..Len(nodes) : nodes'[i] = nodes[i]

LEMMA SameAncestors ==
  ASSUME Extended
  PROVE  \A i \in 0..Len(nodes) : Ancestors'[i] = Ancestors[i]
<1> DEFINE T == {i \in 0..Len(nodes) : Ancestors'[i] # Ancestors[i]}
<1>1. SUFFICES ASSUME T # {} PROVE FALSE
  OBVIOUS
<1>2. PICK i \in T : \A m \in T : i <= m
  <2>1. T \subseteq Nat
    BY DEF Extended, Rooted
  <2> HIDE DEF T
  <2> QED BY <1>1, <2>1, LeastElement
<1>3. /\ i \in 0..Len(nodes) /\ Ancestors'[i] # Ancestors[i] /\ i \in 0..Len(nodes')
      /\ \A m \in 0..Len(nodes) : m < i => Ancestors'[m] = Ancestors[m]
  <2>1. \A m \in 0..Len(nodes) : Ancestors'[m] = Ancestors[m] \/ m \in T
    OBVIOUS
  <2>2. i \in 0..Len(nodes) /\ Ancestors'[i] # Ancestors[i]
    BY <1>2
  <2> HIDE DEF T
  <2> QED BY <1>2, <2>1, <2>2 DEF Extended, Rooted
<1> HIDE DEF T
<1>4. Ancestors'[i] = IF i = 0 THEN {0} ELSE {i} \cup Ancestors'[nodes'[i].in]
  BY <1>3, AncestorsDefNext DEF Extended
<1>5. Ancestors[i] = IF i = 0 THEN {0} ELSE {i} \cup Ancestors[nodes[i].in]
  BY <1>3, AncestorsDef DEF Extended
<1>6. i # 0
  BY <1>3, <1>4, <1>5
<1>7. nodes'[i].in = nodes[i].in /\ nodes[i].in \in 0..(i - 1)
  BY <1>3, <1>6 DEF Extended, Rooted
<1>8. Ancestors'[nodes[i].in] = Ancestors[nodes[i].in]
  <2>1. nodes[i].in \in 0..Len(nodes) /\ nodes[i].in < i
    BY <1>3, <1>7 DEF Extended, Rooted
  <2> QED BY <1>3, <2>1
<1> QED BY <1>3, <1>4, <1>5, <1>7, <1>8

-----------------------------------------------------------------------------
(* Stacks of calls.                                                        *)

PickAt(s, kinds, m, rest) ==
  IF s[Len(s) + 1 - m].do \in kinds THEN <<s[Len(s) + 1 - m]>> \o rest ELSE rest

Picking(n, s, kinds, f) ==
  f = [m \in 0..n |-> IF m = 0 THEN <<>> ELSE PickAt(s, kinds, m, f[m - 1])]

LEMMA PickingValues ==
  ASSUME NEW n, NEW s, NEW kinds, NEW f
  PROVE  Picking(n, s, kinds, f) <=>
           /\ f = [m \in 0..n |-> f[m]]
           /\ \A m \in 0..n : f[m] = IF m = 0 THEN <<>> ELSE PickAt(s, kinds, m, f[m - 1])
BY DEF Picking

LEMMA PickingGrows ==
  ASSUME NEW n \in Nat, NEW s, NEW kinds, NEW f, Picking(n, s, kinds, f)
  PROVE  \E g : Picking(n + 1, s, kinds, g)
<1> DEFINE top == PickAt(s, kinds, n + 1, f[n])
           g == [m \in 0..(n + 1) |-> IF m = n + 1 THEN top ELSE f[m]]
<1>1. \A m \in 0..n : g[m] = f[m]
  OBVIOUS
<1>2. g[n + 1] = top /\ g[n] = f[n]
  OBVIOUS
<1>3. g = [m \in 0..(n + 1) |-> g[m]]
  OBVIOUS
<1> HIDE DEF g
<1>4. \A m \in 0..(n + 1) : g[m] = IF m = 0 THEN <<>> ELSE PickAt(s, kinds, m, g[m - 1])
  <2>1. SUFFICES ASSUME NEW m \in 0..(n + 1)
                 PROVE  g[m] = IF m = 0 THEN <<>> ELSE PickAt(s, kinds, m, g[m - 1])
    OBVIOUS
  <2>2. CASE m = n + 1
    <3>1. m # 0 /\ m - 1 = n
      BY <2>2
    <3> QED BY <1>2, <2>2, <3>1
  <2>3. CASE m \in 0..n
    <3>1. m # 0 => m - 1 \in 0..n
      BY <2>3
    <3> QED BY <1>1, <2>3, <3>1, PickingValues
  <2> QED BY <2>2, <2>3
<1>5. Picking(n + 1, s, kinds, g)
  BY <1>3, <1>4, PickingValues
<1> QED BY <1>5

LEMMA PickingExists ==
  ASSUME NEW n \in Nat, NEW s, NEW kinds
  PROVE  \E f : Picking(n, s, kinds, f)
<1> DEFINE S == {m \in 0..n : \E f : Picking(m, s, kinds, f)}
<1>1. 0 \in S
  <2> DEFINE f == [m \in 0..0 |-> <<>>]
  <2>1. Picking(0, s, kinds, f)
    BY DEF Picking
  <2> QED BY <2>1
<1>2. \A m \in 0..(n - 1) : m \in S => m + 1 \in S
  BY PickingGrows
<1>3. 0..n \subseteq S
  <2> HIDE DEF S
  <2> QED BY <1>1, <1>2, InductionUpTo
<1>4. n \in S
  BY <1>3
<1> QED BY <1>4

\* What Picks is, call by call from the bottom.
LEMMA PicksDef ==
  ASSUME NEW s, Len(s) \in Nat, NEW kinds
  PROVE  /\ Picks(s, kinds)[0] = <<>>
         /\ \A m \in 1..Len(s) :
              Picks(s, kinds)[m] = PickAt(s, kinds, m, Picks(s, kinds)[m - 1])
<1>1. Picks(s, kinds) = CHOOSE f : Picking(Len(s), s, kinds, f)
  BY DEF Picks, Picking, PickAt
<1>2. Picking(Len(s), s, kinds, Picks(s, kinds))
  BY <1>1, PickingExists
<1>3. \A m \in 0..Len(s) :
        Picks(s, kinds)[m] = IF m = 0 THEN <<>> ELSE PickAt(s, kinds, m, Picks(s, kinds)[m - 1])
  BY <1>2, PickingValues
<1> QED BY <1>3

\* What is picked of a stack does not depend on what lies on it.
LEMMA PicksBelow ==
  ASSUME NEW S, NEW c \in S, NEW t \in Seq(S), NEW kinds
  PROVE  \A m \in 0..Len(t) : Picks(<<c>> \o t, kinds)[m] = Picks(t, kinds)[m]
<1> DEFINE s == <<c>> \o t
           p == Picks(s, kinds)
           q == Picks(t, kinds)
           T == {m \in 0..Len(t) : p[m] = q[m]}
<1>1. /\ Len(t) \in Nat /\ Len(s) = Len(t) + 1
      /\ \A m \in 1..Len(t) : s[Len(s) + 1 - m] = t[Len(t) + 1 - m]
  OBVIOUS
<1> HIDE DEF s
<1>2. /\ p[0] = <<>> /\ q[0] = <<>>
      /\ \A m \in 1..Len(t) : p[m] = PickAt(s, kinds, m, p[m - 1]) /\ q[m] = PickAt(t, kinds, m, q[m - 1])
  BY <1>1, PicksDef
<1> HIDE DEF p, q
<1>3. 0 \in T
  BY <1>1, <1>2
<1>4. \A m \in 0..(Len(t) - 1) : m \in T => m + 1 \in T
  <2>1. SUFFICES ASSUME NEW m \in 0..(Len(t) - 1), p[m] = q[m]
                 PROVE  p[m + 1] = q[m + 1]
    BY <1>1
  <2>2. m + 1 \in 1..Len(t) /\ (m + 1) - 1 = m
    BY <1>1
  <2>3. p[m + 1] = PickAt(s, kinds, m + 1, p[m]) /\ q[m + 1] = PickAt(t, kinds, m + 1, q[m])
    BY <1>2, <2>2
  <2>4. s[Len(s) + 1 - (m + 1)] = t[Len(t) + 1 - (m + 1)]
    BY <1>1, <2>2
  <2> QED BY <2>1, <2>3, <2>4 DEF PickAt
<1>5. 0..Len(t) \subseteq T
  <2> HIDE DEF T
  <2> QED BY <1>1, <1>3, <1>4, InductionUpTo
<1> QED BY <1>5 DEF p, q, s

\* A call on top is picked if it is of these kinds.
LEMMA PickedCons ==
  ASSUME NEW S, NEW c \in S, NEW t \in Seq(S), NEW kinds
  PROVE  Picked(<<c>> \o t, kinds) =
           IF c.do \in kinds THEN <<c>> \o Picked(t, kinds) ELSE Picked(t, kinds)
<1> DEFINE s == <<c>> \o t
<1>1. /\ Len(t) \in Nat /\ Len(s) = Len(t) + 1 /\ s[1] = c
      /\ Len(s) + 1 - Len(s) = 1 /\ Len(s) - 1 = Len(t) /\ Len(s) \in 1..Len(s)
  OBVIOUS
<1>2. Picks(s, kinds)[Len(t)] = Picked(t, kinds)
  BY <1>1, PicksBelow DEF Picked
<1> HIDE DEF s
<1>3. Picks(s, kinds)[Len(s)] = PickAt(s, kinds, Len(s), Picks(s, kinds)[Len(s) - 1])
  BY <1>1, PicksDef
<1>4. Picked(s, kinds) = PickAt(s, kinds, Len(s), Picked(t, kinds))
  BY <1>1, <1>2, <1>3 DEF Picked
<1> QED BY <1>1, <1>4 DEF PickAt, s

LEMMA PickedNone ==
  ASSUME NEW kinds
  PROVE  Picked(<<>>, kinds) = <<>>
BY PicksDef DEF Picked

\* What is picked are calls of the stack, all of these kinds.
LEMMA PickedFrom ==
  ASSUME NEW S, NEW kinds
  PROVE  \A s \in Seq(S) :
           /\ Picked(s, kinds) \in Seq(S)
           /\ \A l \in 1..Len(Picked(s, kinds)) :
                Picked(s, kinds)[l].do \in kinds /\ \E j \in 1..Len(s) : Picked(s, kinds)[l] = s[j]
<1> DEFINE P(s) == /\ Picked(s, kinds) \in Seq(S)
                   /\ \A l \in 1..Len(Picked(s, kinds)) :
                        Picked(s, kinds)[l].do \in kinds /\ \E j \in 1..Len(s) : Picked(s, kinds)[l] = s[j]
           T == {s \in Seq(S) : P(s)}
<1>1. <<>> \in T
  <2>1. Picked(<<>>, kinds) = <<>> /\ <<>> \in Seq(S) /\ 1..Len(<<>>) = {}
    BY PickedNone
  <2>2. P(<<>>)
    <3>1. Picked(<<>>, kinds) \in Seq(S)
      BY <2>1
    <3>2. 1..Len(Picked(<<>>, kinds)) = {}
      BY <2>1
    <3> QED BY <3>1, <3>2
  <2> HIDE DEF P
  <2> QED BY <2>1, <2>2
<1>2. \A t \in Seq(S), c \in S : t \in T => <<c>> \o t \in T
  <2>1. SUFFICES ASSUME NEW t \in Seq(S), NEW c \in S, P(t) PROVE P(<<c>> \o t)
    <3>1. \A t \in Seq(S), c \in S : <<c>> \o t \in Seq(S)
      OBVIOUS
    <3> HIDE DEF P
    <3> QED BY <3>1
  <2> DEFINE p == Picked(t, kinds)
             q == Picked(<<c>> \o t, kinds)
  <2>2. q = IF c.do \in kinds THEN <<c>> \o p ELSE p
    BY PickedCons
  <2>3. p \in Seq(S) /\ \A l \in 1..Len(p) : p[l].do \in kinds /\ \E j \in 1..Len(t) : p[l] = t[j]
    BY <2>1
  <2> HIDE DEF p, q
  <2>4. q \in Seq(S)
    BY <2>2, <2>3
  <2>5. /\ (<<c>> \o t)[1] = c /\ Len(<<c>> \o t) = Len(t) + 1 /\ Len(t) \in Nat
        /\ \A j \in 1..Len(t) : (<<c>> \o t)[j + 1] = t[j]
    OBVIOUS
  <2>6. ASSUME NEW l \in 1..Len(q)
        PROVE  q[l].do \in kinds /\ \E j \in 1..Len(<<c>> \o t) : q[l] = (<<c>> \o t)[j]
    <3>1. \A i \in 1..Len(p) : p[i].do \in kinds /\ \E j \in 1..Len(<<c>> \o t) : p[i] = (<<c>> \o t)[j]
      <4>1. SUFFICES ASSUME NEW i \in 1..Len(p)
                     PROVE  \E j \in 1..Len(<<c>> \o t) : p[i] = (<<c>> \o t)[j]
        BY <2>3
      <4>2. PICK j \in 1..Len(t) : p[i] = t[j]
        BY <2>3
      <4>3. j + 1 \in 1..Len(<<c>> \o t)
        BY <2>5
      <4> QED BY <2>5, <4>2, <4>3
    <3>2. CASE c.do \notin kinds
      BY <2>2, <3>1, <3>2
    <3>3. CASE c.do \in kinds
      <4>1. q = <<c>> \o p
        BY <2>2, <3>3
      <4>2. CASE l = 1
        <5>1. q[l] = c
          BY <2>3, <4>1, <4>2
        <5>2. 1 \in 1..Len(<<c>> \o t)
          BY <2>5
        <5> QED BY <2>5, <3>3, <5>1, <5>2
      <4>3. CASE l # 1
        <5>1. l - 1 \in 1..Len(p) /\ q[l] = p[l - 1]
          BY <2>3, <4>1, <4>3
        <5> QED BY <3>1, <5>1
      <4> QED BY <4>2, <4>3
    <3> QED BY <3>2, <3>3
  <2> QED BY <2>4, <2>6 DEF q
<1>3. Seq(S) \subseteq T
  <2> HIDE DEF T
  <2> QED BY <1>1, <1>2, SequenceInduction
<1> QED BY <1>3

\* Every call of these kinds is picked, the first one in front.
LEMMA PickedAll ==
  ASSUME NEW S, NEW kinds
  PROVE  \A s \in Seq(S) :
           /\ \A j \in 1..Len(s) : s[j].do \in kinds =>
                \E l \in 1..Len(Picked(s, kinds)) : Picked(s, kinds)[l] = s[j]
           /\ Picked(s, kinds) # <<>> =>
                \E j \in 1..Len(s) : /\ s[j].do \in kinds /\ Picked(s, kinds)[1] = s[j]
                                     /\ \A m \in 1..(j - 1) : s[m].do \notin kinds
<1> DEFINE P(s) == /\ \A j \in 1..Len(s) : s[j].do \in kinds =>
                        \E l \in 1..Len(Picked(s, kinds)) : Picked(s, kinds)[l] = s[j]
                   /\ Picked(s, kinds) # <<>> =>
                        \E j \in 1..Len(s) : /\ s[j].do \in kinds /\ Picked(s, kinds)[1] = s[j]
                                             /\ \A m \in 1..(j - 1) : s[m].do \notin kinds
           T == {s \in Seq(S) : P(s)}
<1>1. <<>> \in T
  BY PickedNone
<1>2. \A t \in Seq(S), c \in S : t \in T => <<c>> \o t \in T
  <2>1. SUFFICES ASSUME NEW t \in Seq(S), NEW c \in S, P(t) PROVE P(<<c>> \o t)
    <3>1. \A t \in Seq(S), c \in S : <<c>> \o t \in Seq(S)
      OBVIOUS
    <3> HIDE DEF P
    <3> QED BY <3>1
  <2> DEFINE s == <<c>> \o t
             p == Picked(t, kinds)
             q == Picked(s, kinds)
  <2>2. q = IF c.do \in kinds THEN <<c>> \o p ELSE p
    BY PickedCons
  <2>3. p \in Seq(S) /\ Len(p) \in Nat /\ Len(t) \in Nat
    BY PickedFrom
  <2>4. /\ \A j \in 1..Len(t) : t[j].do \in kinds => \E l \in 1..Len(p) : p[l] = t[j]
        /\ p # <<>> => \E j \in 1..Len(t) : /\ t[j].do \in kinds /\ p[1] = t[j]
                                            /\ \A m \in 1..(j - 1) : t[m].do \notin kinds
    BY <2>1
  <2>5. /\ s[1] = c /\ Len(s) = Len(t) + 1
        /\ \A j \in 1..Len(t) : s[j + 1] = t[j]
    OBVIOUS
  <2> HIDE DEF p, q, s
  <2>6. CASE c.do \in kinds
    <3>1. q = <<c>> \o p
      BY <2>2, <2>6
    <3>2. Len(q) = Len(p) + 1 /\ q[1] = c /\ \A l \in 1..Len(p) : q[l + 1] = p[l]
      BY <2>3, <3>1
    <3>3. ASSUME NEW j \in 1..Len(s), s[j].do \in kinds
          PROVE  \E l \in 1..Len(q) : q[l] = s[j]
      <4>1. CASE j = 1
        <5>1. 1 \in 1..Len(q)
          BY <2>3, <3>2
        <5> QED BY <2>5, <3>2, <4>1, <5>1
      <4>2. CASE j # 1
        <5>1. j - 1 \in 1..Len(t) /\ s[j] = t[j - 1]
          <6>1. j - 1 \in 1..Len(t) /\ (j - 1) + 1 = j
            BY <2>3, <2>5, <4>2
          <6> QED BY <2>5, <6>1
        <5>2. PICK l \in 1..Len(p) : p[l] = t[j - 1]
          BY <2>4, <3>3, <5>1
        <5>3. l + 1 \in 1..Len(q)
          BY <2>3, <3>2
        <5> QED BY <3>2, <5>1, <5>2, <5>3
      <4> QED BY <4>1, <4>2
    <3>4. \E j \in 1..Len(s) : s[j].do \in kinds /\ q[1] = s[j] /\ \A m \in 1..(j - 1) : s[m].do \notin kinds
      <4>1. 1 \in 1..Len(s) /\ 1..(1 - 1) = {}
        BY <2>3, <2>5
      <4> QED BY <2>5, <2>6, <3>2, <4>1
    <3> QED BY <3>3, <3>4 DEF s, q
  <2>7. CASE c.do \notin kinds
    <3>1. q = p
      BY <2>2, <2>7
    <3>2. ASSUME NEW j \in 1..Len(s), s[j].do \in kinds
          PROVE  \E l \in 1..Len(q) : q[l] = s[j]
      <4>1. j - 1 \in 1..Len(t) /\ (j - 1) + 1 = j
        BY <2>3, <2>5, <2>7, <3>2
      <4>2. s[j] = t[j - 1]
        BY <2>5, <4>1
      <4> QED BY <2>4, <3>1, <3>2, <4>1, <4>2
    <3>3. ASSUME q # <<>>
          PROVE  \E j \in 1..Len(s) : s[j].do \in kinds /\ q[1] = s[j] /\ \A m \in 1..(j - 1) : s[m].do \notin kinds
      <4>1. PICK j \in 1..Len(t) : t[j].do \in kinds /\ p[1] = t[j] /\ \A m \in 1..(j - 1) : t[m].do \notin kinds
        BY <2>4, <3>1, <3>3
      <4>2. j + 1 \in 1..Len(s) /\ s[j + 1].do \in kinds /\ q[1] = s[j + 1]
        BY <2>3, <2>5, <3>1, <4>1
      <4>3. ASSUME NEW m \in 1..((j + 1) - 1) PROVE s[m].do \notin kinds
        <5>1. CASE m = 1
          BY <2>5, <2>7, <5>1
        <5>2. CASE m # 1
          <6>1. m - 1 \in 1..(j - 1) /\ m - 1 \in 1..Len(t) /\ (m - 1) + 1 = m
            BY <2>3, <5>2
          <6> QED BY <2>5, <4>1, <6>1
        <5> QED BY <5>1, <5>2
      <4> QED BY <4>2, <4>3
    <3> QED BY <3>2, <3>3 DEF s, q
  <2> QED BY <2>6, <2>7
<1>3. Seq(S) \subseteq T
  <2> HIDE DEF T
  <2> QED BY <1>1, <1>2, SequenceInduction
<1> QED BY <1>3

\* Calls of other kinds that are put on a stack are passed over.
LEMMA PickedOver ==
  ASSUME NEW S, NEW kinds, NEW t \in Seq(S)
  PROVE  \A s \in Seq(S) : (\A j \in 1..Len(s) : s[j].do \notin kinds) =>
           Picked(s \o t, kinds) = Picked(t, kinds)
<1> DEFINE P(s) == (\A j \in 1..Len(s) : s[j].do \notin kinds) => Picked(s \o t, kinds) = Picked(t, kinds)
           T == {s \in Seq(S) : P(s)}
<1>1. <<>> \in T
  BY ConcatEmptySeq
<1>2. \A s \in Seq(S), c \in S : s \in T => <<c>> \o s \in T
  <2>1. SUFFICES ASSUME NEW s \in Seq(S), NEW c \in S, P(s),
                        \A j \in 1..Len(<<c>> \o s) : (<<c>> \o s)[j].do \notin kinds
                 PROVE  Picked((<<c>> \o s) \o t, kinds) = Picked(t, kinds)
    <3>1. \A s \in Seq(S), c \in S : <<c>> \o s \in Seq(S)
      OBVIOUS
    <3>2. SUFFICES ASSUME NEW s \in Seq(S), NEW c \in S, P(s) PROVE P(<<c>> \o s)
      <4> HIDE DEF P
      <4> QED BY <3>1
    <3> QED BY <3>2
  <2>2. /\ (<<c>> \o s)[1] = c /\ Len(<<c>> \o s) = Len(s) + 1 /\ Len(s) \in Nat
        /\ \A j \in 1..Len(s) : (<<c>> \o s)[j + 1] = s[j]
    OBVIOUS
  <2>3. c.do \notin kinds /\ \A j \in 1..Len(s) : s[j].do \notin kinds
    <3>1. 1 \in 1..Len(<<c>> \o s) /\ \A j \in 1..Len(s) : j + 1 \in 1..Len(<<c>> \o s)
      BY <2>2
    <3> QED BY <2>1, <2>2, <3>1
  <2>4. Picked(s \o t, kinds) = Picked(t, kinds)
    BY <2>1, <2>3
  <2>5. (<<c>> \o s) \o t = <<c>> \o (s \o t) /\ s \o t \in Seq(S)
    OBVIOUS
  <2>6. Picked(<<c>> \o (s \o t), kinds) = Picked(s \o t, kinds)
    <3> DEFINE u == s \o t
    <3>1. u \in Seq(S)
      OBVIOUS
    <3> HIDE DEF u
    <3>2. Picked(<<c>> \o u, kinds) = Picked(u, kinds)
      BY <2>3, <3>1, PickedCons
    <3> QED BY <3>2 DEF u
  <2>7. Picked((<<c>> \o s) \o t, kinds) = Picked(s \o t, kinds)
    BY <2>5, <2>6
  <2> QED BY <2>4, <2>7
<1>3. Seq(S) \subseteq T
  <2> HIDE DEF T
  <2> QED BY <1>1, <1>2, SequenceInduction
<1> QED BY <1>3

-----------------------------------------------------------------------------
(* A handler replaces its call by others.                                  *)

Pushed(calls) ==
  /\ todo \in Seq(Calling) /\ Len(todo) \in Nat \ {0}
  /\ calls \in Seq(Calling) /\ Len(calls) \in Nat
  /\ todo' \in Seq(Calling) /\ Len(todo') = Len(calls) + Len(todo) - 1
  /\ \A i \in 1..Len(calls) : todo'[i] = calls[i]
  /\ \A j \in 2..Len(todo) : todo'[j + Len(calls) - 1] = todo[j]
  /\ todo = <<todo[1]>> \o Tail(todo) /\ todo' = calls \o Tail(todo)
  /\ Tail(todo) \in Seq(Calling) /\ todo[1] \in Calling

LEMMA GoesPushes ==
  ASSUME TodoInv, todo # <<>>, NEW calls, calls \in Seq(Calling), Goes(calls)
  PROVE  Pushed(calls)
<1>1. todo \in Seq(Calling)
  BY DEF TodoInv
<1>2. /\ Tail(todo) \in Seq(Calling) /\ Len(Tail(todo)) = Len(todo) - 1 /\ Len(todo) \in Nat \ {0}
      /\ \A i \in 1..(Len(todo) - 1) : Tail(todo)[i] = todo[i + 1]
      /\ todo[1] \in Calling
  BY <1>1
<1>3. todo = <<todo[1]>> \o Tail(todo)
  BY <1>1
<1> DEFINE t == Tail(todo)
<1>4. todo' = calls \o t
  BY DEF Goes
<1>5. \A j \in 2..Len(todo) : j - 1 \in 1..Len(t) /\ t[j - 1] = todo[j]
  BY <1>2
<1> HIDE DEF t
<1>6. /\ todo' \in Seq(Calling) /\ Len(todo') = Len(calls) + Len(t) /\ Len(calls) \in Nat
      /\ \A i \in 1..Len(calls) : todo'[i] = calls[i]
      /\ \A i \in 1..Len(t) : todo'[i + Len(calls)] = t[i]
  BY <1>2, <1>4 DEF t
<1>7. \A j \in 2..Len(todo) : todo'[j + Len(calls) - 1] = todo[j]
  <2>1. SUFFICES ASSUME NEW j \in 2..Len(todo) PROVE todo'[j + Len(calls) - 1] = todo[j]
    OBVIOUS
  <2>2. (j - 1) + Len(calls) = j + Len(calls) - 1
    BY <1>2, <1>6
  <2> QED BY <1>5, <1>6, <2>2
<1> QED BY <1>1, <1>2, <1>3, <1>4, <1>6, <1>7 DEF Pushed, t

\* A call of the new stack is one of the pushed ones or has moved.
LEMMA OnStack ==
  ASSUME NEW calls, Pushed(calls)
  PROVE  /\ Len(todo) \in Nat /\ Len(calls) \in Nat /\ Len(todo') \in Nat
         /\ \A n \in 1..Len(todo') :
              \/ n \in 1..Len(calls)
              \/ \E j \in 2..Len(todo) : n = j + Len(calls) - 1
         /\ \A j \in 2..Len(todo) : j + Len(calls) - 1 \in 1..Len(todo')
         /\ \A n \in 1..Len(calls) : n \in 1..Len(todo')
<1>1. /\ Len(todo) \in Nat \ {0} /\ Len(calls) \in Nat
      /\ Len(todo') = Len(calls) + Len(todo) - 1
  BY DEF Pushed
<1>2. ASSUME NEW n \in 1..Len(todo'), n \notin 1..Len(calls)
      PROVE  \E j \in 2..Len(todo) : n = j + Len(calls) - 1
  <2>1. n - Len(calls) + 1 \in 2..Len(todo) /\ n = (n - Len(calls) + 1) + Len(calls) - 1
    BY <1>1, <1>2
  <2> QED BY <2>1
<1> QED BY <1>1, <1>2

\* The first end after a call below is the one it was.
LEMMA NextEndMoves ==
  ASSUME NEW calls, Pushed(calls), NEW ends, NEW j \in 1..Len(todo), NEW k \in 2..Len(todo)
  PROVE  NextEnd(ends, j + Len(calls) - 1, k + Len(calls) - 1)' <=> NextEnd(ends, j, k)
<1> DEFINE n == Len(calls) - 1
<1>1. /\ n \in Int /\ Len(todo) \in Nat /\ Len(todo') = Len(todo) + n
      /\ \A m \in 2..Len(todo) : todo'[m + n] = todo[m]
  BY DEF Pushed
<1>2. j + Len(calls) - 1 = j + n /\ k + Len(calls) - 1 = k + n
  BY DEF Pushed
<1> HIDE DEF n
<1>3. k + n \in ((j + n) + 1)..Len(todo') <=> k \in (j + 1)..Len(todo)
  BY <1>1
<1>4. todo'[k + n].do \in ends <=> todo[k].do \in ends
  BY <1>1
<1>5. ASSUME k \in (j + 1)..Len(todo), \A m \in (j + 1)..(k - 1) : todo[m].do \notin ends,
             NEW m \in ((j + n) + 1)..((k + n) - 1)
      PROVE  todo'[m].do \notin ends
  <2>1. m - n \in (j + 1)..(k - 1) /\ m - n \in 2..Len(todo) /\ (m - n) + n = m
    BY <1>1, <1>5
  <2> QED BY <1>1, <1>5, <2>1
<1>6. ASSUME k \in (j + 1)..Len(todo), \A m \in ((j + n) + 1)..((k + n) - 1) : todo'[m].do \notin ends,
             NEW m \in (j + 1)..(k - 1)
      PROVE  todo[m].do \notin ends
  <2>1. m + n \in ((j + n) + 1)..((k + n) - 1) /\ m \in 2..Len(todo)
    BY <1>1, <1>6
  <2> QED BY <1>1, <1>6, <2>1
<1> QED BY <1>2, <1>3, <1>4, <1>5, <1>6 DEF NextEnd

\* So is the first end after a pushed call, if no pushed call is one.
LEMMA NextEndOver ==
  ASSUME NEW calls, Pushed(calls), NEW ends, NEW i \in 0..Len(calls),
         \A m \in (i + 1)..Len(calls) : calls[m].do \notin ends
  PROVE  /\ \A k \in 2..Len(todo) : NextEnd(ends, i, k + Len(calls) - 1)' <=> NextEnd(ends, 1, k)
         /\ \A l \in (i + 1)..Len(todo') : NextEnd(ends, i, l)' =>
              \E k \in 2..Len(todo) : l = k + Len(calls) - 1
<1> DEFINE n == Len(calls) - 1
<1>1. /\ n \in Int /\ Len(calls) = n + 1 /\ Len(todo) \in Nat /\ Len(todo') = Len(todo) + n
      /\ \A m \in 2..Len(todo) : todo'[m + n] = todo[m]
      /\ \A m \in 1..Len(calls) : todo'[m] = calls[m]
      /\ \A k \in 2..Len(todo) : k + Len(calls) - 1 = k + n
  BY DEF Pushed
<1> HIDE DEF n
<1>2. \A m \in (i + 1)..(n + 1) : todo'[m].do \notin ends
  <2>1. \A m \in (i + 1)..(n + 1) : m \in 1..Len(calls) /\ m \in (i + 1)..Len(calls)
    BY <1>1
  <2> QED BY <1>1, <2>1
<1>3. ASSUME NEW k \in 2..Len(todo), NextEnd(ends, 1, k)
      PROVE  NextEnd(ends, i, k + n)'
  <2>1. k + n \in (i + 1)..Len(todo') /\ todo'[k + n].do \in ends
    BY <1>1, <1>3 DEF NextEnd
  <2>2. ASSUME NEW m \in (i + 1)..((k + n) - 1) PROVE todo'[m].do \notin ends
    <3>1. CASE m \in (i + 1)..(n + 1)
      BY <1>2, <3>1
    <3>2. CASE m \notin (i + 1)..(n + 1)
      <4>1. m - n \in (1 + 1)..(k - 1) /\ m - n \in 2..Len(todo) /\ (m - n) + n = m
        BY <1>1, <3>2
      <4> QED BY <1>1, <1>3, <4>1 DEF NextEnd
    <3> QED BY <3>1, <3>2
  <2> QED BY <2>1, <2>2 DEF NextEnd
<1>4. ASSUME NEW k \in 2..Len(todo), NextEnd(ends, i, k + n)'
      PROVE  NextEnd(ends, 1, k)
  <2>1. k \in (1 + 1)..Len(todo) /\ todo[k].do \in ends
    BY <1>1, <1>4 DEF NextEnd
  <2>2. ASSUME NEW m \in (1 + 1)..(k - 1) PROVE todo[m].do \notin ends
    <3>1. m + n \in (i + 1)..((k + n) - 1) /\ m \in 2..Len(todo)
      BY <1>1
    <3> QED BY <1>1, <1>4, <3>1 DEF NextEnd
  <2> QED BY <2>1, <2>2 DEF NextEnd
<1>5. ASSUME NEW l \in (i + 1)..Len(todo'), NextEnd(ends, i, l)'
      PROVE  \E k \in 2..Len(todo) : l = k + Len(calls) - 1
  <2>1. l \notin (i + 1)..(n + 1)
    BY <1>2, <1>5 DEF NextEnd
  <2>2. l - n \in 2..Len(todo) /\ l = (l - n) + n
    BY <1>1, <2>1
  <2> QED BY <1>1, <2>2
<1> QED BY <1>1, <1>3, <1>4, <1>5

\* If the last pushed call is the only end, it is the first one after the others.
LEMMA NextEndPushed ==
  ASSUME NEW calls, Pushed(calls), NEW ends, NEW i \in 0..(Len(calls) - 1),
         calls[Len(calls)].do \in ends,
         \A m \in 1..(Len(calls) - 1) : calls[m].do \notin ends
  PROVE  \A l \in (i + 1)..Len(todo') : NextEnd(ends, i, l)' <=> l = Len(calls)
<1>1. /\ Len(calls) \in Nat \ {0} /\ Len(todo) \in Nat \ {0} /\ Len(todo') = Len(calls) + Len(todo) - 1
      /\ \A m \in 1..Len(calls) : todo'[m] = calls[m]
  BY DEF Pushed
<1>2. todo'[Len(calls)].do \in ends /\ \A m \in 1..(Len(calls) - 1) : todo'[m].do \notin ends
  BY <1>1
<1>3. ASSUME NEW l \in (i + 1)..Len(todo'), NextEnd(ends, i, l)' PROVE l = Len(calls)
  <2>1. ~ (l > Len(calls))
    <3>1. SUFFICES ASSUME l > Len(calls) PROVE FALSE
      OBVIOUS
    <3>2. Len(calls) \in (i + 1)..(l - 1)
      BY <1>1, <3>1
    <3> QED BY <1>2, <1>3, <3>2 DEF NextEnd
  <2>2. ~ (l < Len(calls))
    BY <1>1, <1>2, <1>3 DEF NextEnd
  <2> QED BY <1>1, <2>1, <2>2
<1>4. NextEnd(ends, i, Len(calls))'
  <2>1. Len(calls) \in (i + 1)..Len(todo') /\ \A m \in (i + 1)..(Len(calls) - 1) : m \in 1..(Len(calls) - 1)
    BY <1>1
  <2> QED BY <1>2, <2>1 DEF NextEnd
<1> QED BY <1>3, <1>4

LEMMA HousesMoves ==
  ASSUME NEW calls, Pushed(calls), NEW o, NEW j \in 1..Len(todo)
  PROVE  Houses(j + Len(calls) - 1, o)' <=> Houses(j, o)
<1> DEFINE n == Len(calls) - 1
<1>1. /\ n \in Int /\ Len(calls) = n + 1 /\ Len(todo) \in Nat /\ Len(todo') \in Int /\ Len(todo') = Len(todo) + n
      /\ \A m \in 2..Len(todo) : todo'[m + n] = todo[m]
      /\ \A k \in 1..Len(todo) : k + Len(calls) - 1 = k + n
  BY DEF Pushed
<1>2. \A k \in 2..Len(todo) : NextEnd(ScopeEnds, j + n, k + n)' <=> NextEnd(ScopeEnds, j, k)
  BY <1>1, NextEndMoves
<1> HIDE DEF n
<1>3. \A l \in ((j + n) + 1)..Len(todo') : l - n \in (j + 1)..Len(todo) /\ l - n \in 2..Len(todo) /\ (l - n) + n = l
  BY <1>1
<1>4. \A k \in (j + 1)..Len(todo) : k + n \in ((j + n) + 1)..Len(todo') /\ k \in 2..Len(todo)
  <2>1. n \in Int /\ Len(todo) \in Nat /\ Len(todo') \in Int /\ Len(todo') = Len(todo) + n /\ j \in Nat \ {0}
    BY <1>1
  <2>2. SUFFICES ASSUME NEW k \in Int, j + 1 <= k, k <= Len(todo)
                 PROVE  k + n \in ((j + n) + 1)..Len(todo') /\ k \in 2..Len(todo)
    BY <2>1
  <2> QED BY <2>1, <2>2
<1>5. (\A m \in ((j + n) + 1)..Len(todo') : todo'[m].do \notin ScopeEnds)
        <=> (\A m \in (j + 1)..Len(todo) : todo[m].do \notin ScopeEnds)
  BY <1>1, <1>3, <1>4
<1>6. (\E l \in ((j + n) + 1)..Len(todo') :
         NextEnd(ScopeEnds, j + n, l)' /\ todo'[l].do # "leave exp" /\ todo'[l].at = o)
        <=> (\E k \in (j + 1)..Len(todo) :
               NextEnd(ScopeEnds, j, k) /\ todo[k].do # "leave exp" /\ todo[k].at = o)
  <2>1. ASSUME NEW l \in ((j + n) + 1)..Len(todo'),
               NextEnd(ScopeEnds, j + n, l)', todo'[l].do # "leave exp", todo'[l].at = o
        PROVE  \E k \in (j + 1)..Len(todo) :
                 NextEnd(ScopeEnds, j, k) /\ todo[k].do # "leave exp" /\ todo[k].at = o
    <3> DEFINE k == l - n
    <3>1. k \in (j + 1)..Len(todo) /\ k \in 2..Len(todo) /\ k + n = l
      BY <1>3
    <3> HIDE DEF k
    <3> QED BY <1>1, <1>2, <2>1, <3>1
  <2>2. ASSUME NEW k \in (j + 1)..Len(todo),
               NextEnd(ScopeEnds, j, k), todo[k].do # "leave exp", todo[k].at = o
        PROVE  \E l \in ((j + n) + 1)..Len(todo') :
                 NextEnd(ScopeEnds, j + n, l)' /\ todo'[l].do # "leave exp" /\ todo'[l].at = o
    <3>1. k + n \in ((j + n) + 1)..Len(todo') /\ k \in 2..Len(todo)
      BY <1>4
    <3>2. todo'[k + n] = todo[k] /\ NextEnd(ScopeEnds, j + n, k + n)'
      BY <1>1, <1>2, <2>2, <3>1
    <3> QED BY <2>2, <3>1, <3>2
  <2> QED BY <2>1, <2>2
<1> QED BY <1>1, <1>5, <1>6 DEF Houses

LEMMA BreakableMoves ==
  ASSUME NEW calls, Pushed(calls), NEW j \in 1..Len(todo)
  PROVE  Breakable(j + Len(calls) - 1)' <=> Breakable(j)
<1> DEFINE n == Len(calls) - 1
<1>1. /\ n \in Int /\ Len(calls) = n + 1 /\ Len(todo) \in Nat /\ Len(todo') \in Int /\ Len(todo') = Len(todo) + n
      /\ \A m \in 2..Len(todo) : todo'[m + n] = todo[m]
      /\ \A k \in 1..Len(todo) : k + Len(calls) - 1 = k + n
  BY DEF Pushed
<1>2. \A k \in 2..Len(todo) : NextEnd(BarrierEnds, j + n, k + n)' <=> NextEnd(BarrierEnds, j, k)
  BY <1>1, NextEndMoves
<1> HIDE DEF n
<1>3. \A l \in ((j + n) + 1)..Len(todo') : l - n \in (j + 1)..Len(todo) /\ l - n \in 2..Len(todo) /\ (l - n) + n = l
  BY <1>1
<1>4. \A k \in (j + 1)..Len(todo) : k + n \in ((j + n) + 1)..Len(todo') /\ k \in 2..Len(todo)
  <2>1. n \in Int /\ Len(todo) \in Nat /\ Len(todo') \in Int /\ Len(todo') = Len(todo) + n /\ j \in Nat \ {0}
    BY <1>1
  <2>2. SUFFICES ASSUME NEW k \in Int, j + 1 <= k, k <= Len(todo)
                 PROVE  k + n \in ((j + n) + 1)..Len(todo') /\ k \in 2..Len(todo)
    BY <2>1
  <2> QED BY <2>1, <2>2
<1>5. ASSUME NEW l \in ((j + n) + 1)..Len(todo'), NextEnd(BarrierEnds, j + n, l)', todo'[l].do \in LoopEnds
      PROVE  \E k \in (j + 1)..Len(todo) : NextEnd(BarrierEnds, j, k) /\ todo[k].do \in LoopEnds
  <2> DEFINE k == l - n
  <2>1. k \in (j + 1)..Len(todo) /\ k \in 2..Len(todo) /\ k + n = l
    BY <1>3
  <2> HIDE DEF k
  <2> QED BY <1>1, <1>2, <1>5, <2>1
<1>6. ASSUME NEW k \in (j + 1)..Len(todo), NextEnd(BarrierEnds, j, k), todo[k].do \in LoopEnds
      PROVE  \E l \in ((j + n) + 1)..Len(todo') : NextEnd(BarrierEnds, j + n, l)' /\ todo'[l].do \in LoopEnds
  <2>1. k + n \in ((j + n) + 1)..Len(todo') /\ k \in 2..Len(todo)
    BY <1>4
  <2>2. NextEnd(BarrierEnds, j + n, k + n)' /\ todo'[k + n].do \in LoopEnds
    BY <1>1, <1>2, <1>6, <2>1
  <2> QED BY <2>1, <2>2
<1> QED BY <1>1, <1>5, <1>6 DEF Breakable, LoopEnds

LEMMA EndersMove ==
  ASSUME NEW calls, Pushed(calls), NEW j \in 2..(Len(todo) + 1)
  PROVE  Enders(j + Len(calls) - 1)' = Enders(j)
<1> DEFINE n == Len(calls) - 1
<1>1. /\ n \in Int /\ Len(calls) = n + 1 /\ Len(todo) \in Nat /\ Len(todo') \in Int /\ Len(todo') = Len(todo) + n
      /\ \A m \in 2..Len(todo) : todo'[m + n] = todo[m]
      /\ \A k \in 1..(Len(todo) + 1) : k + Len(calls) - 1 = k + n
  BY DEF Pushed
<1> HIDE DEF n
<1>2. ASSUME NEW l \in (j + n)..Len(todo'), todo'[l].do \in BarrierEnds
      PROVE  \E k \in j..Len(todo) : todo[k].do \in BarrierEnds /\ todo[k].at = todo'[l].at
  <2> DEFINE k == l - n
  <2>1. k \in j..Len(todo) /\ k \in 2..Len(todo) /\ k + n = l
    BY <1>1
  <2> HIDE DEF k
  <2> QED BY <1>1, <1>2, <2>1
<1>3. ASSUME NEW k \in j..Len(todo), todo[k].do \in BarrierEnds
      PROVE  \E l \in (j + n)..Len(todo') : todo'[l].do \in BarrierEnds /\ todo'[l].at = todo[k].at
  <2>1. k + n \in (j + n)..Len(todo') /\ k \in 2..Len(todo)
    BY <1>1
  <2> QED BY <1>1, <1>3, <2>1
<1>4. j + Len(calls) - 1 = j + n
  BY <1>1
<1>5. Enders(j + n)' = {todo'[l].at : l \in {m \in (j + n)..Len(todo') : todo'[m].do \in BarrierEnds}}
  BY DEF Enders, BarrierEnds
<1>6. Enders(j + n)' = Enders(j)
  BY <1>2, <1>3, <1>5 DEF Enders
<1> QED BY <1>4, <1>6

-----------------------------------------------------------------------------
(* The tree grows.                                                         *)

LEMMA TreeRooted ==
  TreeInv => Rooted
<1> SUFFICES ASSUME TreeInv PROVE Rooted
  OBVIOUS
<1>1. nodes \in Seq(Planting) /\ Len(nodes) \in Nat /\ \A i \in 1..Len(nodes) : nodes[i] \in Planting
  BY DEF TreeInv
<1>2. \A i \in 1..Len(nodes) : nodes[i].in < i /\ nodes[i].in \in Nat
  BY <1>1 DEF TreeInv, Planting
<1> QED BY <1>1, <1>2 DEF Rooted

\* What the nodes of a tree are.
LEMMA TreeNodes ==
  ASSUME TreeInv
  PROVE  /\ Len(nodes) \in Nat
         /\ \A i \in 1..Len(nodes) :
              /\ nodes[i] \in Planting
              /\ nodes[i].in \in 0..(i - 1) /\ nodes[i].def \in 0..(i - 1)
              /\ Kind(i) \in Declarations => nodes[i].name \in Key
              /\ Kind(i) \in Variables => Owner(i) = nodes[i].in
              /\ Kind(i) \in {"function", "type"} =>
                   /\ Owner(i) = nodes[nodes[i].in].in /\ nodes[i].in \in 1..Len(nodes)
                   /\ Kind(nodes[i].in) = "chunk"
              /\ Kind(i) \in Declarations => Owner(i) \in 0..(i - 1)
<1>1. Len(nodes) \in Nat /\ \A i \in 1..Len(nodes) : nodes[i] \in Planting
  BY DEF TreeInv
<1>2. ASSUME NEW i \in 1..Len(nodes)
      PROVE  /\ nodes[i].in \in 0..(i - 1) /\ nodes[i].def \in 0..(i - 1)
             /\ Kind(i) \in Declarations => nodes[i].name \in Key
             /\ Kind(i) \in {"function", "type"} => nodes[i].in > 0 /\ Kind(nodes[i].in) = "chunk"
  <2>1. nodes[i].in \in Nat /\ nodes[i].def \in Nat
    BY <1>1 DEF Planting
  <2>2. /\ nodes[i].in < i /\ nodes[i].def < i
        /\ Kind(i) \in Declarations => nodes[i].name \in Key
        /\ Kind(i) \in {"function", "type"} => nodes[i].in > 0 /\ Kind(nodes[i].in) = "chunk"
    BY <1>2 DEF TreeInv
  <2> QED BY <1>1, <2>1, <2>2
<1>3. ASSUME NEW i \in 1..Len(nodes), Kind(i) \in {"function", "type"}
      PROVE  /\ Owner(i) = nodes[nodes[i].in].in /\ nodes[i].in \in 1..Len(nodes)
             /\ Owner(i) \in 0..(i - 1)
  <2>1. Owner(i) = nodes[nodes[i].in].in
    BY <1>3 DEF Owner
  <2>2. nodes[i].in \in 1..Len(nodes) /\ nodes[i].in <= i - 1
    BY <1>1, <1>2, <1>3
  <2>3. nodes[nodes[i].in].in \in 0..(nodes[i].in - 1)
    BY <1>2, <2>2
  <2> QED BY <1>1, <2>1, <2>2, <2>3
<1>4. ASSUME NEW i \in 1..Len(nodes), Kind(i) \in Variables
      PROVE  Owner(i) = nodes[i].in /\ Owner(i) \in 0..(i - 1)
  BY <1>2, <1>4 DEF Owner, Variables
<1> QED BY <1>1, <1>2, <1>3, <1>4 DEF Declarations, Variables

\* Scopes come before what is declared in them.
Owned == \A i \in 1..Len(nodes) : Kind(i) \in Declarations => Owner(i) \in 0..(i - 1)

LEMMA OwnedNext ==
  TreeInv' => Owned'
<1>1. TreeInv => Owned
  BY TreeNodes DEF Owned
<1> QED BY <1>1, PTL

\* The nodes of the tree before, in the tree after.
LEMMA TreeKept ==
  ASSUME TreeInv, Extended
  PROVE  /\ Len(nodes) \in Nat /\ Len(nodes') \in Nat /\ Len(nodes) <= Len(nodes')
         /\ \A i \in 1..Len(nodes) : /\ nodes'[i] = nodes[i] /\ Kind(i)' = Kind(i)
                                     /\ Kind(i) \in Declarations => Owner(i)' = Owner(i)
         /\ \A i \in 0..Len(nodes) : Barriers(i)' = Barriers(i)
<1>1. /\ Len(nodes) \in Nat /\ Len(nodes') \in Nat /\ Len(nodes) <= Len(nodes')
      /\ \A i \in 1..Len(nodes) : nodes'[i] = nodes[i] /\ Kind(i)' = Kind(i)
  BY DEF Extended, Rooted, Kind
<1>2. ASSUME NEW i \in 1..Len(nodes), Kind(i) \in Declarations
      PROVE  Owner(i)' = Owner(i)
  <2>1. CASE Kind(i) \in Variables
    BY <1>1, <2>1 DEF Owner, Variables
  <2>2. CASE Kind(i) \in {"function", "type"}
    <3>1. nodes[i].in \in 1..Len(nodes) /\ nodes'[i] = nodes[i] /\ Kind(i)' = Kind(i)
      BY <1>1, <2>2, TreeNodes
    <3>2. nodes'[nodes'[i].in] = nodes[nodes[i].in]
      BY <1>1, <3>1
    <3> QED BY <2>2, <3>1, <3>2 DEF Owner
  <2> QED BY <1>2, <2>1, <2>2 DEF Declarations, Variables
<1>3. ASSUME NEW i \in 0..Len(nodes)
      PROVE  Barriers(i)' = Barriers(i)
  <2>1. Ancestors'[i] = Ancestors[i]
    BY SameAncestors
  <2>2. Ancestors[i] \subseteq 0..i
    BY AncestorsBounded DEF Extended
  <2>3. \A a \in Ancestors[i] \ {0} : Kind(a)' = Kind(a)
    <3>1. SUFFICES ASSUME NEW a \in Ancestors[i], a # 0 PROVE a \in 1..Len(nodes)
      BY <1>1
    <3>2. a \in 0..i
      BY <2>2
    <3> QED BY <1>1, <3>1, <3>2
  <2> HIDE DEF Barrier
  <2>4. Barriers(i)' = {a \in Ancestors'[i] \ {0} : Kind(a)' \in Barrier}
    BY DEF Barriers, Barrier
  <2> QED BY <2>1, <2>3, <2>4 DEF Barriers
<1> QED BY <1>1, <1>2, <1>3

\* What is declared in a scope, if the nodes that are new declare nothing of these kinds.
LEMMA DeclaredKept ==
  ASSUME TreeInv, Extended, NEW kinds, kinds \subseteq Declarations,
         \A d \in (Len(nodes) + 1)..Len(nodes') : Kind(d)' \notin kinds
  PROVE  \A o : DeclaredIn(kinds, o)' = DeclaredIn(kinds, o)
<1>1. /\ Len(nodes) \in Nat /\ Len(nodes') \in Nat /\ Len(nodes) <= Len(nodes')
      /\ \A i \in 1..Len(nodes) : /\ Kind(i)' = Kind(i)
                                  /\ Kind(i) \in Declarations => Owner(i)' = Owner(i)
  BY TreeKept
<1>2. SUFFICES ASSUME NEW o PROVE DeclaredIn(kinds, o)' = DeclaredIn(kinds, o)
  OBVIOUS
<1>3. DeclaredIn(kinds, o)' = {d \in 1..Len(nodes') : Kind(d)' \in kinds /\ Owner(d)' = o}
  BY DEF DeclaredIn
<1>4. \A d \in 1..Len(nodes') : d \in 1..Len(nodes) \/ d \in (Len(nodes) + 1)..Len(nodes')
  BY <1>1
<1>5. \A d \in 1..Len(nodes) : d \in 1..Len(nodes')
  BY <1>1
<1> QED BY <1>1, <1>3, <1>4, <1>5 DEF DeclaredIn

\* What is declared in a scope, with one declaration more.
LEMMA DeclaredMore ==
  ASSUME TreeInv, Extended, NEW new, new = Len(nodes'), new = This, NEW kinds, kinds \subseteq Declarations,
         Kind(new)' \in kinds
  PROVE  \A o : DeclaredIn(kinds, o)' =
                  DeclaredIn(kinds, o) \cup (IF Owner(new)' = o THEN {new} ELSE {})
<1>1. /\ Len(nodes) \in Nat /\ Len(nodes') = Len(nodes) + 1 /\ new = Len(nodes) + 1
      /\ \A i \in 1..Len(nodes) : /\ Kind(i)' = Kind(i)
                                  /\ Kind(i) \in Declarations => Owner(i)' = Owner(i)
  BY TreeKept DEF This
<1>2. SUFFICES ASSUME NEW o
               PROVE  DeclaredIn(kinds, o)' = DeclaredIn(kinds, o) \cup (IF Owner(new)' = o THEN {new} ELSE {})
  OBVIOUS
<1>3. DeclaredIn(kinds, o)' = {d \in 1..Len(nodes') : Kind(d)' \in kinds /\ Owner(d)' = o}
  BY DEF DeclaredIn
<1>4. 1..Len(nodes') = 1..Len(nodes) \cup {new} /\ new \notin 1..Len(nodes)
  BY <1>1
<1> DEFINE w == Owner(new)'
           k == Kind(new)'
<1> HIDE DEF w, k
<1>5. \A d \in 1..Len(nodes') : d \in DeclaredIn(kinds, o)' <=> d \in DeclaredIn(kinds, o) \/ (d = new /\ w = o)
  <2>1. SUFFICES ASSUME NEW d \in 1..Len(nodes')
                 PROVE  d \in DeclaredIn(kinds, o)' <=> d \in DeclaredIn(kinds, o) \/ (d = new /\ w = o)
    OBVIOUS
  <2>2. CASE d \in 1..Len(nodes)
    BY <1>1, <1>3, <1>4, <2>2 DEF DeclaredIn
  <2>3. CASE d = new
    BY <1>3, <1>4, <2>3 DEF DeclaredIn, w, k
  <2> QED BY <1>4, <2>2, <2>3
<1>6. DeclaredIn(kinds, o)' \subseteq 1..Len(nodes') /\ DeclaredIn(kinds, o) \subseteq 1..Len(nodes')
  BY <1>3, <1>4 DEF DeclaredIn
<1> QED BY <1>4, <1>5, <1>6 DEF w

-----------------------------------------------------------------------------
(* The calls below the one at hand.                                        *)

\* What a pending call is.
LEMMA Pendings ==
  ASSUME TodoInv
  PROVE  /\ Len(todo) \in Nat
         /\ \A j \in 1..Len(todo) :
              todo[j] \in Calling /\ todo[j].at \in Nat /\ todo[j].copy \in BOOLEAN /\ Placed(j)
<1>1. Len(todo) \in Nat /\ \A j \in 1..Len(todo) : todo[j] \in Calling /\ Placed(j)
  BY DEF TodoInv
<1>2. \A c \in Calling : c.at \in Nat /\ c.copy \in BOOLEAN
  BY DEF Calling
<1> QED BY <1>1, <1>2

\* Functions without node wait for declarations on the top.
LEMMA WaitForDeclarations ==
  ASSUME TodoInv, Len(nodes) \in Nat, NEW j \in 1..Len(todo),
         \/ todo[j].do = "declare"
         \/ todo[j].do = "fundec" /\ todo[j].at > Len(nodes)
  PROVE  todo[1].do = "declare"
<1>1. ASSUME NEW i \in 1..Len(todo), todo[i].do = "declare" PROVE todo[1].do = "declare"
  <2>1. Placed(i) /\ 1 \in 1..i
    BY Pendings
  <2> QED BY <1>1, <2>1 DEF Placed
<1>2. CASE todo[j].do = "fundec" /\ todo[j].at > Len(nodes)
  <2> DEFINE i == todo[j].at - Len(nodes)
  <2>1. Placed(j) /\ todo[j].at \in Nat
    BY Pendings
  <2>2. i \in 1..Len(todo) /\ todo[i].do = "declare"
    BY <1>2, <2>1, Pendings DEF Placed
  <2> HIDE DEF i
  <2> QED BY <1>1, <2>2
<1> QED BY <1>1, <1>2

LEMMA PlacedBelow ==
  ASSUME TreeInv, TodoInv, Extended, NEW calls, Pushed(calls), todo[1].do # "declare",
         NEW j \in 2..Len(todo)
  PROVE  /\ Placed(j + Len(calls) - 1)'
         /\ Around(j + Len(calls) - 1)' = Around(j)
         /\ Around(j) \in 0..Len(nodes)
<1> DEFINE n == j + Len(calls) - 1
<1>1. todo'[n] = todo[j]
  BY DEF Pushed
<1>2. /\ Len(nodes) \in Nat /\ Len(nodes') \in Nat /\ Len(nodes) <= Len(nodes')
      /\ \A i \in 1..Len(nodes) : nodes'[i] = nodes[i] /\ Kind(i)' = Kind(i)
  BY TreeKept
<1>3. j \in 1..Len(todo)
  BY Pendings
<1>4. Placed(j) /\ todo[j].at \in Nat
  BY <1>3, Pendings
<1>5. todo[j].do # "declare" /\ (todo[j].do = "fundec" => todo[j].at <= Len(nodes))
  BY <1>2, <1>3, <1>4, WaitForDeclarations
<1>6. /\ todo[j].at \in 0..Len(nodes)
      /\ todo[j].do \in {"index", "formal", "typedec", "fundec"} \cup BarrierEnds => todo[j].at \in 1..Len(nodes)
  BY <1>2, <1>4, <1>5 DEF Placed
<1> HIDE DEF n
<1>7. Placed(n)'
  <2>1. PICK do, at : do = todo[j].do /\ at = todo[j].at
    OBVIOUS
  <2>2. /\ do # "declare" /\ at <= Len(nodes') /\ ~(at > Len(nodes'))
        /\ do \in {"index", "formal", "typedec", "fundec"} \cup BarrierEnds => at > 0 /\ Kind(at)' = Kind(at)
    <3>1. at \in 0..Len(nodes) /\ (at # 0 => at > 0 /\ at \in 1..Len(nodes))
      BY <1>6, <2>1
    <3> QED BY <1>2, <1>5, <1>6, <2>1, <3>1
  <2>3. /\ do \in LoopEnds => Kind(at) = "loop"
        /\ do \in BarrierEnds \ LoopEnds => Kind(at) \in {"let", "function"}
        /\ do \in {"typedec", "declare"} => Kind(at) = "chunk"
        /\ do = "fundec" => Kind(at) = "function"
    BY <1>4, <1>5, <2>1 DEF Placed
  <2>4. LoopEnds \subseteq BarrierEnds
    BY DEF LoopEnds, BarrierEnds
  <2>5. /\ do \in LoopEnds => Kind(at)' = "loop"
        /\ do \in BarrierEnds \ LoopEnds => Kind(at)' \in {"let", "function"}
        /\ do \in {"typedec", "declare"} => Kind(at)' = "chunk"
        /\ do = "fundec" => Kind(at)' = "function"
    BY <2>2, <2>3, <2>4
  <2>6. todo'[n].do = do /\ todo'[n].at = at
    BY <1>1, <2>1
  <2> QED BY <2>2, <2>5, <2>6 DEF Placed, LoopEnds, BarrierEnds, Kind
<1>8. Around(n)' = Around(j) /\ Around(j) \in 0..Len(nodes)
  <2>1. CASE todo[j].do = "fundec"
    <3>1. /\ todo[j].at \in 1..Len(nodes) /\ nodes'[todo[j].at] = nodes[todo[j].at]
          /\ todo[j].at <= Len(nodes) /\ todo[j].at <= Len(nodes')
      BY <1>2, <1>6, <2>1
    <3>2. nodes[todo[j].at].in \in 0..Len(nodes)
      BY <1>2, <3>1, TreeNodes
    <3> QED BY <1>1, <2>1, <3>1, <3>2 DEF Around
  <2>2. CASE todo[j].do # "fundec"
    BY <1>1, <1>6, <2>2 DEF Around
  <2> QED BY <2>1, <2>2
<1> QED BY <1>7, <1>8 DEF n

LEMMA EnclosedBelow ==
  ASSUME TreeInv, Extended, NEW calls, Pushed(calls), NEW j \in 2..Len(todo), Enclosed(j),
         Around(j + Len(calls) - 1)' = Around(j), Around(j) \in 0..Len(nodes)
  PROVE  Enclosed(j + Len(calls) - 1)'
<1>1. PICK n, x : n = j + Len(calls) - 1 /\ x = Around(j)
  OBVIOUS
<1>2. Around(n)' = x /\ Barriers(x)' = Barriers(x)
  BY <1>1, TreeKept
<1>3. Enders(n)' = Enders(j)
  <2>1. j \in 2..(Len(todo) + 1)
    BY DEF Pushed
  <2> QED BY <1>1, <2>1, EndersMove
<1>4. Barriers(x) = Enders(j)
  BY <1>1 DEF Enclosed
<1>5. (Barriers(Around(n)))' = Barriers(x)'
  BY <1>2
<1> QED BY <1>1, <1>2, <1>3, <1>4, <1>5 DEF Enclosed

LEMMA HousedBelow ==
  ASSUME TreeInv, TodoInv, Extended, NEW calls, Pushed(calls), NEW j \in 2..Len(todo), Housed(j)
  PROVE  Housed(j + Len(calls) - 1)'
<1>1. PICK n, o : n = j + Len(calls) - 1 /\ o = Holder(j)
  OBVIOUS
<1>2. todo'[n] = todo[j] /\ j \in 1..Len(todo)
  BY <1>1 DEF Pushed
<1>3. Houses(n, o)' <=> Houses(j, o)
  BY <1>1, <1>2, HousesMoves
<1>4. ASSUME todo[j].do \in {"typedec", "declare"}
      PROVE  Holder(n)' = o
  <2>1. Placed(j) /\ todo[j].at \in Nat
    BY <1>2, Pendings
  <2>2. todo[j].at \in 1..Len(nodes)
    BY <1>4, <2>1 DEF Placed, Extended, Rooted
  <2>3. nodes'[todo[j].at] = nodes[todo[j].at]
    BY <2>2 DEF Extended
  <2> QED BY <1>1, <1>2, <1>4, <2>3 DEF Holder
<1>5. ASSUME todo[j].do \notin {"typedec", "declare"}
      PROVE  Holder(n)' = o
  BY <1>1, <1>2, <1>5 DEF Holder
<1>6. Holder(n)' = o
  BY <1>4, <1>5
<1>7. (Houses(n, Holder(n)))' <=> Houses(n, o)'
  BY <1>6
<1> QED BY <1>1, <1>2, <1>3, <1>7 DEF Housed

LEMMA OnceBelow ==
  ASSUME NEW calls, Pushed(calls), NEW j \in 2..Len(todo), Once(j)
  PROVE  Once(j + Len(calls) - 1)'
<1> DEFINE n == j + Len(calls) - 1
<1>1. /\ todo'[n] = todo[j]
      /\ \A k \in 2..Len(todo) : todo'[k + Len(calls) - 1] = todo[k]
      /\ Len(todo) \in Nat /\ Len(calls) \in Nat /\ Len(todo') = Len(calls) + Len(todo) - 1
  BY DEF Pushed
<1>2. ASSUME NEW l \in (n + 1)..Len(todo')
      PROVE  \E k \in (j + 1)..Len(todo) : todo'[l] = todo[k]
  <2> DEFINE k == l - Len(calls) + 1
  <2>1. k \in (j + 1)..Len(todo) /\ k \in 2..Len(todo) /\ k + Len(calls) - 1 = l
    BY <1>1
  <2> HIDE DEF k
  <2> QED BY <1>1, <2>1
<1> HIDE DEF n
<1> QED BY <1>1, <1>2 DEF Once, BarrierEnds, n

LEMMA RestoresBelow ==
  ASSUME NEW calls, Pushed(calls), NEW j \in 2..Len(todo), Restores(j)
  PROVE  Restores(j + Len(calls) - 1)'
<1>1. PICK n : n = j + Len(calls) - 1
  OBVIOUS
<1>2. todo'[n] = todo[j] /\ j \in 1..Len(todo)
  BY <1>1 DEF Pushed
<1>3. Breakable(n)' <=> Breakable(j)
  BY <1>1, <1>2, BreakableMoves
<1>4. todo'[n].do \in BarrierEnds => todo'[n].copy = Breakable(j)
  BY <1>2 DEF Restores
<1>5. Breakable(n) \in BOOLEAN /\ Breakable(j) \in BOOLEAN
  BY DEF Breakable
<1>6. Breakable(n)' \in BOOLEAN
  BY DEF Breakable
<1>7. Breakable(n)' = Breakable(j)
  BY <1>3, <1>5, <1>6
<1> QED BY <1>1, <1>4, <1>7 DEF Restores, BarrierEnds

\* What is new in the tree is a declaration of the call at hand, if it is one.
DeclaresHere ==
  \A d \in (Len(nodes) + 1)..Len(nodes') : Kind(d)' \in Declarations =>
    /\ todo[1].do \in {"index", "formal", "vardec", "typedec", "declare"}
    /\ Owner(d)' = Holder(1)

LEMMA EmptyBelow ==
  ASSUME TreeInv, TodoInv, Extended, NEW calls, Pushed(calls), DeclaresHere,
         \A j \in 1..Len(todo) : Housed(j) /\ Once(j) /\ Empty(j),
         NEW j \in 2..Len(todo)
  PROVE  Empty(j + Len(calls) - 1)'
<1>1. PICK n, at : n = j + Len(calls) - 1 /\ at = todo[j].at
  OBVIOUS
<1>2. todo'[n] = todo[j] /\ j \in 1..Len(todo) /\ 1 \in 1..Len(todo)
  BY <1>1 DEF Pushed
<1>3. SUFFICES ASSUME todo[j].do \in {"fundec", "leave while"} PROVE DeclaredIn(Declarations, at)' = {}
  BY <1>1, <1>2 DEF Empty, Declarations, DeclaredIn
<1>4. DeclaredIn(Declarations, at) = {} /\ at > 0
  BY <1>1, <1>2, <1>3, Pendings DEF Empty, Placed, BarrierEnds
<1>5. SUFFICES ASSUME NEW d \in DeclaredIn(Declarations, at)' PROVE FALSE
  OBVIOUS
<1>6. d \in 1..Len(nodes') /\ Kind(d)' \in Declarations /\ Owner(d)' = at
  BY <1>5 DEF DeclaredIn, Declarations
<1>7. CASE d \in 1..Len(nodes)
  <2>1. Kind(d)' = Kind(d) /\ (Kind(d) \in Declarations => Owner(d)' = Owner(d))
    BY <1>7, TreeKept
  <2> QED BY <1>4, <1>6, <1>7, <2>1 DEF DeclaredIn
<1>8. CASE d \notin 1..Len(nodes)
  <2>1. d \in (Len(nodes) + 1)..Len(nodes')
    BY <1>6, <1>8 DEF Extended, Rooted
  <2>2. todo[1].do \in {"index", "formal", "vardec", "typedec", "declare"} /\ Holder(1) = at
    BY <1>6, <2>1 DEF DeclaresHere
  <2>3. Houses(1, at)
    BY <1>2, <2>2 DEF Housed
  <2>4. PICK k \in 2..Len(todo) : todo[k].do \in ScopeEnds /\ todo[k].do # "leave exp" /\ todo[k].at = at
    <3>1. at # 0 /\ 1 + 1 = 2
      BY <1>4
    <3>2. PICK k \in (1 + 1)..Len(todo) :
            NextEnd(ScopeEnds, 1, k) /\ todo[k].do # "leave exp" /\ todo[k].at = at
      BY <2>3, <3>1 DEF Houses
    <3>3. todo[k].do \in ScopeEnds
      BY <3>2 DEF NextEnd
    <3> QED BY <3>1, <3>2, <3>3
  <2>5. Len(todo) \in Nat /\ k \in 1..Len(todo)
    BY Pendings
  <2>6. /\ todo[k].do \in BarrierEnds \cup {"fundec"} /\ todo[j].do \in BarrierEnds \cup {"fundec"}
        /\ k # j
    BY <1>3, <2>4 DEF BarrierEnds, ScopeEnds
  <2>7. k \in (j + 1)..Len(todo) \/ j \in (k + 1)..Len(todo)
    BY <2>5, <2>6
  <2>8. Once(k) /\ Once(j)
    BY <1>2, <2>5
  <2> QED BY <1>1, <2>4, <2>6, <2>7, <2>8 DEF Once
<1> QED BY <1>7, <1>8

\* What is said of one pending call.
Fits(j) == Placed(j) /\ Enclosed(j) /\ Housed(j) /\ Once(j) /\ Empty(j) /\ Restores(j)

LEMMA AllFit ==
  TodoInv /\ CallsInv <=> /\ todo \in Seq(Calling)
                          /\ in_loop_ = Breakable(0)
                          /\ \A j \in 1..Len(todo) : Fits(j)
BY DEF TodoInv, CallsInv, Fits

LEMMA AllFitNext ==
  (TodoInv /\ CallsInv)' <=> /\ todo' \in Seq(Calling)
                             /\ in_loop_' = Breakable(0)'
                             /\ \A j \in 1..Len(todo') : Fits(j)'
BY DEF TodoInv, CallsInv, Fits, Calling

LEMMA FitBelow ==
  ASSUME TreeInv, TodoInv, CallsInv, Extended, NEW calls, Pushed(calls), DeclaresHere,
         todo[1].do # "declare"
  PROVE  \A j \in 2..Len(todo) : Fits(j + Len(calls) - 1)'
<1>1. SUFFICES ASSUME NEW j \in 2..Len(todo) PROVE Fits(j + Len(calls) - 1)'
  OBVIOUS
<1>2. PICK n : n = j + Len(calls) - 1
  OBVIOUS
<1>3. /\ \A i \in 1..Len(todo) : Placed(i) /\ Enclosed(i) /\ Housed(i) /\ Once(i) /\ Empty(i) /\ Restores(i)
      /\ j \in 1..Len(todo)
  BY AllFit, Pendings DEF Fits
<1>4. Placed(n)' /\ Around(n)' = Around(j) /\ Around(j) \in 0..Len(nodes)
  BY <1>2, PlacedBelow
<1>5. Enclosed(n)'
  BY <1>2, <1>3, <1>4, EnclosedBelow
<1>6. Housed(n)'
  BY <1>2, <1>3, HousedBelow
<1>7. Once(n)'
  BY <1>2, <1>3, OnceBelow
<1>8. Empty(n)'
  BY <1>2, <1>3, EmptyBelow
<1>9. Restores(n)'
  BY <1>2, <1>3, RestoresBelow
<1>10. Fits(n)'
  BY <1>4, <1>5, <1>6, <1>7, <1>8, <1>9 DEF Fits
<1> QED BY <1>2, <1>10

-----------------------------------------------------------------------------
(* The calls that are pushed.                                              *)

\* A call that is no end is not seen by those below.
LEMMA TopEndsNothing ==
  ASSUME Len(todo) \in Nat \ {0}, todo[1].do \notin BarrierEnds
  PROVE  Enders(2) = Enders(1) /\ (Breakable(0) <=> Breakable(1))
<1>1. Enders(2) = Enders(1)
  <2>1. \A k \in 1..Len(todo) : todo[k].do \in BarrierEnds => k \in 2..Len(todo)
    OBVIOUS
  <2>2. \A k \in 2..Len(todo) : k \in 1..Len(todo)
    OBVIOUS
  <2> QED BY <2>1, <2>2 DEF Enders
<1>2. Breakable(0) <=> Breakable(1)
  <2>1. \A k \in 1..Len(todo) : NextEnd(BarrierEnds, 0, k) <=> k \in 2..Len(todo) /\ NextEnd(BarrierEnds, 1, k)
    <3>1. SUFFICES ASSUME NEW k \in 1..Len(todo)
                   PROVE  NextEnd(BarrierEnds, 0, k) <=> k \in 2..Len(todo) /\ NextEnd(BarrierEnds, 1, k)
      OBVIOUS
    <3>2. \A m \in 1..(k - 1) : m = 1 \/ m \in 2..(k - 1)
      OBVIOUS
    <3>3. \A m \in 2..(k - 1) : m \in 1..(k - 1)
      OBVIOUS
    <3>4. NextEnd(BarrierEnds, 0, k) <=>
            todo[k].do \in BarrierEnds /\ \A m \in 1..(k - 1) : todo[m].do \notin BarrierEnds
      BY DEF NextEnd
    <3>5. NextEnd(BarrierEnds, 1, k) <=>
            k \in 2..Len(todo) /\ todo[k].do \in BarrierEnds /\ \A m \in 2..(k - 1) : todo[m].do \notin BarrierEnds
      BY DEF NextEnd
    <3>6. k \in 2..Len(todo) \/ k = 1
      OBVIOUS
    <3> QED BY <3>2, <3>3, <3>4, <3>5, <3>6
  <2>2. \A k \in 2..Len(todo) : k \in 1..Len(todo)
    OBVIOUS
  <2>3. Breakable(0) <=> \E k \in 1..Len(todo) : NextEnd(BarrierEnds, 0, k) /\ todo[k].do \in LoopEnds
    BY DEF Breakable
  <2>4. Breakable(1) <=> \E k \in 2..Len(todo) : NextEnd(BarrierEnds, 1, k) /\ todo[k].do \in LoopEnds
    BY DEF Breakable
  <2> QED BY <2>1, <2>2, <2>3, <2>4
<1> QED BY <1>1, <1>2

\* The ends a call sees, and whether it may break, with no end on the top.
LEMMA NothingEnds ==
  ASSUME NEW calls, Pushed(calls), todo[1].do \notin BarrierEnds,
         \A i \in 1..Len(calls) : calls[i].do \notin BarrierEnds
  PROVE  /\ \A i \in 1..Len(calls) : Enders(i)' = Enders(1)
         /\ Breakable(0)' <=> Breakable(0)
<1>1. /\ Len(calls) \in Nat /\ Len(todo) \in Nat \ {0} /\ Len(todo') = Len(calls) + Len(todo) - 1
      /\ \A i \in 1..Len(calls) : todo'[i] = calls[i]
      /\ \A j \in 2..Len(todo) : todo'[j + Len(calls) - 1] = todo[j]
  BY DEF Pushed
<1>2. Enders(2) = Enders(1) /\ (Breakable(0) <=> Breakable(1))
  BY <1>1, TopEndsNothing
<1>3. \E n : n = Len(calls) + 1 /\ Enders(n)' = Enders(2)
  <2>1. PICK n : n = 2 + Len(calls) - 1
    OBVIOUS
  <2>2. n = Len(calls) + 1 /\ 2 \in 2..(Len(todo) + 1)
    BY <1>1, <2>1
  <2> QED BY <2>1, <2>2, EndersMove
<1>4. PICK n : n = Len(calls) + 1 /\ Enders(n)' = Enders(2)
  BY <1>3
<1>5. ASSUME NEW i \in 1..Len(calls) PROVE Enders(i)' = Enders(n)'
  <2>1. \A k \in i..Len(todo') : todo'[k].do \in BarrierEnds => k \in n..Len(todo')
    <3>1. SUFFICES ASSUME NEW k \in i..Len(todo'), todo'[k].do \in BarrierEnds, ~(k >= n) PROVE FALSE
      BY <1>1, <1>4
    <3>2. k \in 1..Len(calls)
      BY <1>1, <1>4, <3>1
    <3> QED BY <1>1, <3>1, <3>2
  <2>2. \A k \in n..Len(todo') : k \in i..Len(todo')
    BY <1>1, <1>4
  <2>3. /\ Enders(i)' = {todo'[k].at : k \in {m \in i..Len(todo') : todo'[m].do \in BarrierEnds}}
        /\ Enders(n)' = {todo'[k].at : k \in {m \in n..Len(todo') : todo'[m].do \in BarrierEnds}}
    BY DEF Enders, BarrierEnds
  <2> QED BY <2>1, <2>2, <2>3
<1>6. Breakable(0)' <=> Breakable(1)
  <2>1. /\ \A k \in 2..Len(todo) : NextEnd(BarrierEnds, 0, k + Len(calls) - 1)' <=> NextEnd(BarrierEnds, 1, k)
        /\ \A l \in 1..Len(todo') : NextEnd(BarrierEnds, 0, l)' => \E k \in 2..Len(todo) : l = k + Len(calls) - 1
    <3>1. PICK i : i = 0
      OBVIOUS
    <3>2. i \in 0..Len(calls) /\ i + 1 = 1 /\ \A m \in (i + 1)..Len(calls) : calls[m].do \notin BarrierEnds
      BY <1>1, <3>1
    <3>3. /\ \A k \in 2..Len(todo) : NextEnd(BarrierEnds, i, k + Len(calls) - 1)' <=> NextEnd(BarrierEnds, 1, k)
          /\ \A l \in (i + 1)..Len(todo') : NextEnd(BarrierEnds, i, l)' =>
               \E k \in 2..Len(todo) : l = k + Len(calls) - 1
      BY <3>2, NextEndOver
    <3> QED BY <3>1, <3>2, <3>3
  <2>2. ASSUME NEW l \in 1..Len(todo'), NextEnd(BarrierEnds, 0, l)', todo'[l].do \in LoopEnds
        PROVE  \E k \in 2..Len(todo) : NextEnd(BarrierEnds, 1, k) /\ todo[k].do \in LoopEnds
    <3>1. PICK k \in 2..Len(todo) : l = k + Len(calls) - 1
      BY <2>1, <2>2
    <3> QED BY <1>1, <2>1, <2>2, <3>1
  <2>3. ASSUME NEW k \in 2..Len(todo), NextEnd(BarrierEnds, 1, k), todo[k].do \in LoopEnds
        PROVE  \E l \in 1..Len(todo') : NextEnd(BarrierEnds, 0, l)' /\ todo'[l].do \in LoopEnds
    <3>1. PICK l : l = k + Len(calls) - 1
      OBVIOUS
    <3>2. l \in 1..Len(todo')
      BY <1>1, <3>1
    <3> QED BY <1>1, <2>1, <2>3, <3>1, <3>2
  <2>4. Breakable(0)' <=> \E l \in 1..Len(todo') : NextEnd(BarrierEnds, 0, l)' /\ todo'[l].do \in LoopEnds
    BY DEF Breakable, LoopEnds
  <2>5. Breakable(1) <=> \E k \in 2..Len(todo) : NextEnd(BarrierEnds, 1, k) /\ todo[k].do \in LoopEnds
    BY DEF Breakable
  <2> QED BY <2>2, <2>3, <2>4, <2>5
<1> QED BY <1>2, <1>4, <1>5, <1>6

\* The same when the last of the pushed calls is an end.
LEMMA LastEnds ==
  ASSUME NEW calls, Pushed(calls), Len(calls) > 0, todo[1].do \notin BarrierEnds,
         calls[Len(calls)].do \in BarrierEnds,
         \A i \in 1..(Len(calls) - 1) : calls[i].do \notin BarrierEnds
  PROVE  /\ \A i \in 1..Len(calls) : Enders(i)' = {calls[Len(calls)].at} \cup Enders(1)
         /\ Breakable(0)' <=> calls[Len(calls)].do \in LoopEnds
         /\ \E n : n = Len(calls) /\ (Breakable(n)' <=> Breakable(0))
<1>1. /\ Len(calls) \in Nat \ {0} /\ Len(todo) \in Nat \ {0} /\ Len(todo') = Len(calls) + Len(todo) - 1
      /\ \A i \in 1..Len(calls) : todo'[i] = calls[i]
      /\ \A j \in 2..Len(todo) : todo'[j + Len(calls) - 1] = todo[j]
  BY DEF Pushed
<1>2. Enders(2) = Enders(1) /\ (Breakable(0) <=> Breakable(1))
  BY <1>1, TopEndsNothing
<1>3. PICK last : last = Len(calls)
  OBVIOUS
<1>4. PICK n : n = last + 1
  OBVIOUS
<1>5. Enders(n)' = Enders(2)
  <2>1. n = 2 + Len(calls) - 1 /\ 2 \in 2..(Len(todo) + 1)
    BY <1>1, <1>3, <1>4
  <2> QED BY <2>1, EndersMove
<1>6. ASSUME NEW i \in 1..Len(calls) PROVE Enders(i)' = {calls[last].at} \cup Enders(n)'
  <2>1. \A k \in i..Len(todo') : todo'[k].do \in BarrierEnds => k = last \/ k \in n..Len(todo')
    <3>1. SUFFICES ASSUME NEW k \in i..Len(todo'), todo'[k].do \in BarrierEnds, k # last, ~(k >= n) PROVE FALSE
      BY <1>1, <1>3, <1>4
    <3>2. k \in 1..(Len(calls) - 1) /\ k \in 1..Len(calls)
      BY <1>1, <1>3, <1>4, <3>1
    <3> QED BY <1>1, <3>1, <3>2
  <2>2. /\ \A k \in n..Len(todo') : k \in i..Len(todo')
        /\ last \in i..Len(todo') /\ last \in 1..Len(calls)
    BY <1>1, <1>3, <1>4
  <2>3. /\ Enders(i)' = {todo'[k].at : k \in {m \in i..Len(todo') : todo'[m].do \in BarrierEnds}}
        /\ Enders(n)' = {todo'[k].at : k \in {m \in n..Len(todo') : todo'[m].do \in BarrierEnds}}
    BY DEF Enders, BarrierEnds
  <2>4. todo'[last].do \in BarrierEnds /\ todo'[last].at = calls[last].at
    BY <1>1, <1>3, <2>2
  <2> QED BY <2>1, <2>2, <2>3, <2>4
<1>7. Breakable(0)' <=> calls[last].do \in LoopEnds
  <2>1. PICK i : i = 0
    OBVIOUS
  <2>2. i \in 0..(Len(calls) - 1) /\ i + 1 = 1
    BY <1>1, <2>1
  <2>3. \A l \in (i + 1)..Len(todo') : NextEnd(BarrierEnds, i, l)' <=> l = Len(calls)
    BY <2>2, NextEndPushed
  <2>4. Breakable(0)' <=> \E l \in 1..Len(todo') : NextEnd(BarrierEnds, 0, l)' /\ todo'[l].do \in LoopEnds
    BY DEF Breakable, LoopEnds
  <2>5. last \in 1..Len(todo') /\ todo'[last] = calls[last]
    BY <1>1, <1>3
  <2> QED BY <1>3, <2>1, <2>2, <2>3, <2>4, <2>5
<1>8. Breakable(last)' <=> Breakable(0)
  <2>1. PICK j : j = 1
    OBVIOUS
  <2>2. last = j + Len(calls) - 1 /\ j \in 1..Len(todo)
    BY <1>1, <1>3, <2>1
  <2> QED BY <1>2, <2>1, <2>2, BreakableMoves
<1> QED BY <1>2, <1>3, <1>5, <1>6, <1>7, <1>8

LEMMA HousesOver ==
  ASSUME NEW calls, Pushed(calls), NEW i \in 0..Len(calls), NEW o,
         \A m \in (i + 1)..Len(calls) : calls[m].do \notin ScopeEnds
  PROVE  Houses(i, o)' <=> Houses(1, o)
<1>1. /\ Len(calls) \in Nat /\ Len(todo) \in Nat \ {0} /\ Len(todo') = Len(calls) + Len(todo) - 1
      /\ \A m \in 1..Len(calls) : todo'[m] = calls[m]
      /\ \A j \in 2..Len(todo) : todo'[j + Len(calls) - 1] = todo[j]
  BY DEF Pushed
<1>2. /\ \A k \in 2..Len(todo) : NextEnd(ScopeEnds, i, k + Len(calls) - 1)' <=> NextEnd(ScopeEnds, 1, k)
      /\ \A l \in (i + 1)..Len(todo') : NextEnd(ScopeEnds, i, l)' =>
           \E k \in 2..Len(todo) : l = k + Len(calls) - 1
  BY NextEndOver
<1> DEFINE None == \A m \in (i + 1)..Len(todo') : todo'[m].do \notin ScopeEnds
           Some(l) == NextEnd(ScopeEnds, i, l)' /\ todo'[l].do # "leave exp" /\ todo'[l].at = o
<1>3. None <=> \A m \in 2..Len(todo) : todo[m].do \notin ScopeEnds
  <2>1. ASSUME None, NEW m \in 2..Len(todo) PROVE todo[m].do \notin ScopeEnds
    <3>1. m + Len(calls) - 1 \in (i + 1)..Len(todo')
      BY <1>1
    <3> QED BY <1>1, <2>1, <3>1
  <2>2. ASSUME \A m \in 2..Len(todo) : todo[m].do \notin ScopeEnds, NEW m \in (i + 1)..Len(todo')
        PROVE  todo'[m].do \notin ScopeEnds
    <3>1. CASE m <= Len(calls)
      <4>1. m \in (i + 1)..Len(calls) /\ m \in 1..Len(calls)
        BY <1>1, <3>1
      <4> QED BY <1>1, <4>1
    <3>2. CASE ~(m <= Len(calls))
      <4> DEFINE j == m - Len(calls) + 1
      <4>1. j \in 2..Len(todo) /\ j + Len(calls) - 1 = m
        BY <1>1, <3>2
      <4> HIDE DEF j
      <4> QED BY <1>1, <2>2, <4>1
    <3> QED BY <3>1, <3>2
  <2> QED BY <2>1, <2>2
<1>4. (\E l \in (i + 1)..Len(todo') : Some(l)) <=>
        \E k \in 2..Len(todo) : NextEnd(ScopeEnds, 1, k) /\ todo[k].do # "leave exp" /\ todo[k].at = o
  <2>1. ASSUME NEW l \in (i + 1)..Len(todo'), Some(l)
        PROVE  \E k \in 2..Len(todo) : NextEnd(ScopeEnds, 1, k) /\ todo[k].do # "leave exp" /\ todo[k].at = o
    <3>1. PICK k \in 2..Len(todo) : l = k + Len(calls) - 1
      BY <1>2, <2>1
    <3> QED BY <1>1, <1>2, <2>1, <3>1
  <2>2. ASSUME NEW k \in 2..Len(todo), NextEnd(ScopeEnds, 1, k), todo[k].do # "leave exp", todo[k].at = o
        PROVE  \E l \in (i + 1)..Len(todo') : Some(l)
    <3>1. PICK l : l = k + Len(calls) - 1
      OBVIOUS
    <3>2. l \in (i + 1)..Len(todo')
      BY <1>1, <3>1
    <3>3. todo'[l] = todo[k] /\ NextEnd(ScopeEnds, i, l)'
      BY <1>1, <1>2, <2>2, <3>1
    <3> QED BY <2>2, <3>2, <3>3
  <2> QED BY <2>1, <2>2
<1>5. Houses(i, o)' <=> (o = 0 /\ None) \/ \E l \in (i + 1)..Len(todo') : Some(l)
  BY DEF Houses, ScopeEnds
<1>6. Houses(1, o) <=>
        \/ o = 0 /\ \A m \in 2..Len(todo) : todo[m].do \notin ScopeEnds
        \/ \E k \in 2..Len(todo) : NextEnd(ScopeEnds, 1, k) /\ todo[k].do # "leave exp" /\ todo[k].at = o
  BY DEF Houses
<1> HIDE DEF None, Some
<1> QED BY <1>3, <1>4, <1>5, <1>6

LEMMA HousesEnded ==
  ASSUME NEW calls, Pushed(calls), NEW i \in 0..(Len(calls) - 1),
         calls[Len(calls)].do \in ScopeEnds, calls[Len(calls)].do \in BarrierEnds,
         \A m \in 1..(Len(calls) - 1) : calls[m].do \notin ScopeEnds
  PROVE  Houses(i, calls[Len(calls)].at)'
<1>1. /\ Len(calls) \in Nat \ {0} /\ Len(todo) \in Nat \ {0} /\ Len(todo') = Len(calls) + Len(todo) - 1
      /\ \A m \in 1..Len(calls) : todo'[m] = calls[m]
  BY DEF Pushed
<1>2. PICK l : l = Len(calls)
  OBVIOUS
<1>3. l \in (i + 1)..Len(todo') /\ todo'[l] = calls[l]
  <2>1. l \in 1..Len(calls)
    BY <1>1, <1>2
  <2>2. Len(todo') \in Nat /\ l <= Len(todo')
    BY <1>1, <1>2
  <2> QED BY <1>1, <1>2, <2>1, <2>2
<1>4. NextEnd(ScopeEnds, i, l)'
  BY <1>2, <1>3, NextEndPushed
<1>5. todo'[l].do # "leave exp" /\ todo'[l].at = calls[Len(calls)].at
  BY <1>2, <1>3 DEF BarrierEnds
<1> QED BY <1>3, <1>4, <1>5 DEF Houses

Plain == {"exp", "type", "scoped exp", "vardec", "chunks", "typedec", "leave exp"}

\* Calls that end nothing are pushed, for nodes with the same barriers around them.
LEMMA PlainCalls ==
  ASSUME TreeInv, TodoInv, CallsInv, Extended, NEW calls, Pushed(calls), DeclaresHere,
         todo[1].do \notin BarrierEnds, todo[1].do \notin {"declare", "fundec"},
         in_loop_' = in_loop_,
         \A i \in 1..Len(calls) :
           /\ calls[i].do \in Plain
           /\ calls[i].at \in 0..Len(nodes')
           /\ Barriers(calls[i].at)' = Barriers(todo[1].at)
           /\ calls[i].do = "typedec" => calls[i].at > 0 /\ Kind(calls[i].at)' = "chunk"
           /\ Housed(i)'
  PROVE  TodoInv' /\ CallsInv'
<1>1. /\ Len(calls) \in Nat /\ 1 \in 1..Len(todo) /\ Len(nodes') \in Nat
      /\ \A i \in 1..Len(calls) : todo'[i] = calls[i]
  BY DEF Pushed, Extended, Rooted
<1>2. \A c \in Plain : c \notin BarrierEnds
  BY DEF Plain, BarrierEnds
<1>3. /\ \A i \in 1..Len(calls) : Enders(i)' = Enders(1)
      /\ Breakable(0)' <=> Breakable(0)
  <2>1. \A i \in 1..Len(calls) : calls[i].do \notin BarrierEnds
    BY <1>2
  <2> QED BY <2>1, NothingEnds
<1>4. Barriers(todo[1].at) = Enders(1)
  <2>1. Enclosed(1)
    BY <1>1, AllFit DEF Fits
  <2> QED BY <2>1 DEF Enclosed, Around
<1>5. ASSUME NEW i \in 1..Len(calls) PROVE Fits(i)'
  <2>1. PICK do, at : do = calls[i].do /\ at = calls[i].at
    OBVIOUS
  <2>2. todo'[i].do = do /\ todo'[i].at = at /\ do \in Plain /\ at \in 0..Len(nodes')
    BY <1>1, <2>1
  <2>3. do \notin BarrierEnds /\ do \notin LoopEnds /\ do # "fundec" /\ do # "declare" /\ do # "leave while"
        /\ do \notin {"index", "formal"}
    BY <2>2 DEF Plain, BarrierEnds, LoopEnds
  <2>4. Placed(i)'
    <3>1. at <= Len(nodes') /\ (do = "typedec" => at > 0 /\ Kind(at)' = "chunk")
      BY <1>1, <2>1, <2>2
    <3> QED BY <2>2, <2>3, <3>1 DEF Placed, BarrierEnds, LoopEnds, Kind
  <2>5. Enclosed(i)'
    <3>1. Around(i)' = at
      BY <2>2, <2>3 DEF Around
    <3>2. Barriers(at)' = Enders(i)'
      BY <1>3, <1>4, <2>1
    <3>3. (Barriers(Around(i)))' = Barriers(at)'
      BY <3>1
    <3> QED BY <3>2, <3>3 DEF Enclosed
  <2>6. Once(i)'
    BY <2>2, <2>3 DEF Once, BarrierEnds
  <2>7. Empty(i)'
    BY <2>2, <2>3 DEF Empty
  <2>8. Restores(i)'
    BY <2>2, <2>3 DEF Restores, BarrierEnds
  <2> QED BY <2>4, <2>5, <2>6, <2>7, <2>8 DEF Fits
<1>6. \A j \in 2..Len(todo) : Fits(j + Len(calls) - 1)'
  BY FitBelow
<1>7. \A n \in 1..Len(todo') : Fits(n)'
  BY <1>5, <1>6, OnStack
<1>8. in_loop_' = Breakable(0)'
  <2>1. in_loop_ = Breakable(0)
    BY AllFit
  <2>2. Breakable(0) \in BOOLEAN
    BY DEF Breakable
  <2>3. Breakable(0)' \in BOOLEAN
    BY DEF Breakable
  <2> QED BY <1>3, <2>1, <2>2, <2>3
<1>9. todo' \in Seq(Calling)
  BY DEF Pushed
<1>10. todo' \in Seq(Calling) /\ in_loop_' = Breakable(0)' /\ \A n \in 1..Len(todo') : Fits(n)'
  BY <1>7, <1>8, <1>9
<1> QED BY <1>10, AllFitNext

\* The calls of a loop, a let or a function are pushed, its end the last of them.
LEMMA EndingCalls ==
  ASSUME TreeInv, TodoInv, CallsInv, Extended, NEW calls, Pushed(calls), DeclaresHere, NEW o,
         todo[1].do \notin BarrierEnds, todo[1].do # "declare",
         Len(calls) > 0, calls[Len(calls)].do \in BarrierEnds,
         calls[Len(calls)].at = o, calls[Len(calls)].copy = in_loop_,
         in_loop_' = (calls[Len(calls)].do \in LoopEnds),
         o \in 1..Len(nodes'),
         calls[Len(calls)].do \in LoopEnds => Kind(o)' = "loop",
         calls[Len(calls)].do \notin LoopEnds => Kind(o)' \in {"let", "function"},
         calls[Len(calls)].do \notin ScopeEnds => DeclaredIn(Declarations, o)' = {},
         \A i \in 1..(Len(calls) - 1) :
           /\ calls[i].at = o
           /\ calls[i].do \in {"index", "formal", "chunks", "exp"}
           /\ calls[i].do # "exp" => calls[Len(calls)].do \in ScopeEnds,
         Barriers(o)' = {o} \cup Enders(1),
         \A k \in 2..Len(todo) : todo[k].do \in BarrierEnds \cup {"fundec"} => todo[k].at # o
  PROVE  TodoInv' /\ CallsInv'
<1>1. /\ Len(calls) \in Nat \ {0} /\ 1 \in 1..Len(todo) /\ Len(todo) \in Nat \ {0} /\ Len(nodes') \in Nat
      /\ Len(todo') = Len(calls) + Len(todo) - 1
      /\ \A i \in 1..Len(calls) : todo'[i] = calls[i]
      /\ \A j \in 2..Len(todo) : todo'[j + Len(calls) - 1] = todo[j]
  BY DEF Pushed, Extended, Rooted
<1>2. /\ \A c \in {"index", "formal", "chunks", "exp"} : c \notin BarrierEnds /\ c \notin ScopeEnds
      /\ LoopEnds \subseteq BarrierEnds /\ ScopeEnds \subseteq BarrierEnds \cup {"leave exp"}
  BY DEF BarrierEnds, LoopEnds, ScopeEnds
<1>3. /\ \A i \in 1..Len(calls) : Enders(i)' = {o} \cup Enders(1)
      /\ Breakable(0)' <=> calls[Len(calls)].do \in LoopEnds
      /\ \E n : n = Len(calls) /\ (Breakable(n)' <=> Breakable(0))
  <2>1. \A i \in 1..(Len(calls) - 1) : calls[i].do \notin BarrierEnds
    BY <1>2
  <2> QED BY <2>1, LastEnds
<1>4. ASSUME NEW i \in 1..(Len(calls) - 1) PROVE Fits(i)'
  <2>1. PICK do : do = calls[i].do
    OBVIOUS
  <2>2. i \in 1..Len(calls)
    BY <1>1
  <2>3. /\ todo'[i].do = do /\ todo'[i].at = o /\ do \in {"index", "formal", "chunks", "exp"}
        /\ do # "exp" => calls[Len(calls)].do \in ScopeEnds
    BY <1>1, <2>1, <2>2
  <2>4. do \notin BarrierEnds /\ do \notin LoopEnds /\ do # "fundec" /\ do # "declare" /\ do # "leave while"
        /\ do # "typedec"
    BY <2>3 DEF BarrierEnds, LoopEnds
  <2>5. Placed(i)'
    <3>1. o <= Len(nodes') /\ o > 0
      BY <1>1
    <3> QED BY <2>3, <2>4, <3>1 DEF Placed, BarrierEnds, LoopEnds, Kind
  <2>6. Enclosed(i)'
    <3>1. Around(i)' = o
      BY <2>3, <2>4 DEF Around
    <3>2. (Barriers(Around(i)))' = Barriers(o)'
      BY <3>1
    <3> QED BY <1>3, <2>2, <3>2 DEF Enclosed
  <2>7. Housed(i)'
    <3>1. SUFFICES ASSUME do # "exp" PROVE Housed(i)'
      BY <2>3 DEF Housed
    <3>2. calls[Len(calls)].do \in ScopeEnds
      BY <2>3, <3>1
    <3>3. Houses(i, o)'
      <4>1. i \in 0..(Len(calls) - 1)
        BY <1>1
      <4>2. \A m \in 1..(Len(calls) - 1) : calls[m].do \notin ScopeEnds
        BY <1>2
      <4> QED BY <3>2, <4>1, <4>2, HousesEnded
    <3>4. Holder(i)' = o
      BY <2>3, <2>4 DEF Holder
    <3>5. (Houses(i, Holder(i)))' <=> Houses(i, o)'
      BY <3>4
    <3> QED BY <3>3, <3>5 DEF Housed
  <2>8. Once(i)'
    BY <2>3, <2>4 DEF Once, BarrierEnds
  <2>9. Empty(i)'
    BY <2>3, <2>4 DEF Empty
  <2>10. Restores(i)'
    BY <2>3, <2>4 DEF Restores, BarrierEnds
  <2> QED BY <2>5, <2>6, <2>7, <2>8, <2>9, <2>10 DEF Fits
<1>5. ASSUME NEW i, i = Len(calls) PROVE Fits(i)'
  <2>1. PICK do : do = calls[i].do
    OBVIOUS
  <2>2. i \in 1..Len(calls) /\ i \in Nat \ {0}
    BY <1>1, <1>5
  <2>3. todo'[i].do = do /\ todo'[i].at = o /\ todo'[i].copy = in_loop_ /\ do \in BarrierEnds
    BY <1>1, <1>5, <2>1, <2>2
  <2>4. do # "fundec" /\ do \notin {"index", "formal", "vardec", "chunks", "typedec", "declare"}
    BY <2>3 DEF BarrierEnds
  <2>5. Placed(i)'
    <3>1. /\ o <= Len(nodes') /\ o > 0
          /\ do \in LoopEnds => Kind(o)' = "loop"
          /\ do \notin LoopEnds => Kind(o)' \in {"let", "function"}
      BY <1>1, <1>5, <2>1
    <3> QED BY <2>3, <2>4, <3>1 DEF Placed, BarrierEnds, LoopEnds, Kind
  <2>6. Enclosed(i)'
    <3>1. Around(i)' = o
      BY <2>3, <2>4 DEF Around
    <3>2. (Barriers(Around(i)))' = Barriers(o)'
      BY <3>1
    <3> QED BY <1>3, <2>2, <3>2 DEF Enclosed
  <2>7. Housed(i)'
    BY <2>3, <2>4 DEF Housed
  <2>8. Once(i)'
    <3>1. ASSUME NEW l \in (i + 1)..Len(todo'), todo'[l].do \in BarrierEnds \cup {"fundec"}
          PROVE  todo'[l].at # o
      <4> DEFINE k == l - Len(calls) + 1
      <4>1. k \in 2..Len(todo) /\ k + Len(calls) - 1 = l
        BY <1>1, <1>5, <2>2
      <4> HIDE DEF k
      <4> QED BY <1>1, <3>1, <4>1
    <3> QED BY <2>3, <3>1 DEF Once, BarrierEnds
  <2>9. Empty(i)'
    <3>1. do \in ScopeEnds => do # "leave while"
      BY DEF ScopeEnds
    <3>2. do = "leave while" => DeclaredIn(Declarations, o)' = {}
      BY <1>5, <2>1, <3>1
    <3>3. (DeclaredIn(Declarations, todo[i].at))' = DeclaredIn(Declarations, o)'
      BY <2>3
    <3> QED BY <2>3, <2>4, <3>2, <3>3 DEF Empty
  <2>10. Restores(i)'
    <3>1. Breakable(i)' <=> Breakable(0)
      BY <1>3, <1>5
    <3>2. in_loop_ = Breakable(0)
      BY AllFit
    <3>3. Breakable(0) \in BOOLEAN
      BY DEF Breakable
    <3>4. Breakable(i)' \in BOOLEAN
      BY DEF Breakable
    <3>5. todo'[i].copy = Breakable(i)'
      BY <2>3, <3>1, <3>2, <3>3, <3>4
    <3> QED BY <3>5 DEF Restores
  <2> QED BY <2>5, <2>6, <2>7, <2>8, <2>9, <2>10 DEF Fits
<1>6. \A i \in 1..Len(calls) : Fits(i)'
  <2>1. \A i \in 1..Len(calls) : i = Len(calls) \/ i \in 1..(Len(calls) - 1)
    BY <1>1
  <2> QED BY <1>4, <1>5, <2>1
<1>7. \A j \in 2..Len(todo) : Fits(j + Len(calls) - 1)'
  BY FitBelow
<1>8. \A n \in 1..Len(todo') : Fits(n)'
  BY <1>6, <1>7, OnStack
<1>9. in_loop_' = Breakable(0)'
  <2>1. Breakable(0)' \in BOOLEAN
    BY DEF Breakable
  <2> QED BY <1>3, <2>1
<1>10. todo' \in Seq(Calling) /\ in_loop_' = Breakable(0)' /\ \A n \in 1..Len(todo') : Fits(n)'
  BY <1>8, <1>9 DEF Pushed
<1> QED BY <1>10, AllFitNext

\* An end returns to the calls below it.
LEMMA EndCalls ==
  ASSUME TreeInv, TodoInv, CallsInv, Extended, NEW calls, calls = <<>>, Pushed(calls), DeclaresHere,
         todo[1].do \in BarrierEnds, in_loop_' = todo[1].copy
  PROVE  TodoInv' /\ CallsInv'
<1>1. Len(calls) = 0 /\ 1 \in 1..Len(todo)
  BY DEF Pushed
<1>2. \A j \in 2..Len(todo) : Fits(j + Len(calls) - 1)'
  <2>1. todo[1].do # "declare"
    BY DEF BarrierEnds
  <2> QED BY <2>1, FitBelow
<1>3. \A n \in 1..Len(todo') : Fits(n)'
  BY <1>1, <1>2, OnStack
<1>4. in_loop_' = Breakable(0)'
  <2>1. in_loop_' = Breakable(1)
    BY <1>1, AllFit DEF Fits, Restores
  <2>2. PICK i, j : i = 1 /\ j = 0
    OBVIOUS
  <2>3. Breakable(j)' <=> Breakable(i)
    <3>1. j = i + Len(calls) - 1 /\ i \in 1..Len(todo)
      BY <1>1, <2>2
    <3> QED BY <3>1, BreakableMoves
  <2>4. Breakable(i) \in BOOLEAN
    BY DEF Breakable
  <2>5. Breakable(j)' \in BOOLEAN
    BY DEF Breakable
  <2> QED BY <2>1, <2>2, <2>3, <2>4, <2>5
<1>5. todo' \in Seq(Calling) /\ in_loop_' = Breakable(0)' /\ \A n \in 1..Len(todo') : Fits(n)'
  BY <1>3, <1>4 DEF Pushed
<1> QED BY <1>5, AllFitNext

\* The next function of a chunk is declared: the one that waited longest has a node.
LEMMA PlacedBelowDeclaration ==
  ASSUME TreeInv, TodoInv, Extended, NEW calls, calls = <<>>, Pushed(calls), todo[1].do = "declare",
         NEW new, new = Len(nodes'), new = This, Kind(new)' = "function", nodes'[new].in = todo[1].at,
         NEW j \in 2..Len(todo)
  PROVE  /\ Placed(j + Len(calls) - 1)'
         /\ Around(j + Len(calls) - 1)' = Around(j)
         /\ Around(j) \in 0..Len(nodes)
<1>1. PICK n, do, at : n = j + Len(calls) - 1 /\ do = todo[j].do /\ at = todo[j].at
  OBVIOUS
<1>2. /\ Len(nodes) \in Nat /\ Len(nodes') \in Nat /\ Len(nodes') = Len(nodes) + 1 /\ new = Len(nodes) + 1
      /\ \A i \in 1..Len(nodes) : nodes'[i] = nodes[i] /\ Kind(i)' = Kind(i)
  BY TreeKept DEF This
<1>3. /\ Len(calls) = 0 /\ n = j - 1 /\ Len(todo) \in Nat \ {0} /\ Len(todo') = Len(todo) - 1 /\ todo'[n] = todo[j]
      /\ \A i \in 2..Len(todo) : todo'[i - 1] = todo[i]
      /\ 1 \in 1..Len(todo) /\ j \in 1..Len(todo) /\ j \in Nat /\ Len(todo') \in Nat
  BY <1>1 DEF Pushed
<1>4. Placed(j) /\ at \in Nat /\ Placed(1) /\ todo[1].at \in Nat /\ Len(todo) \in Nat
  BY <1>1, <1>3, Pendings
<1>5. todo[1].at \in 1..Len(nodes)
  BY <1>2, <1>4 DEF Placed
<1>6. todo'[n].do = do /\ todo'[n].at = at
  BY <1>1, <1>3
<1>7. CASE do = "fundec" /\ at > Len(nodes)
  <2>1. PICK i : i = at - Len(nodes)
    OBVIOUS
  <2>2. i \in 1..Len(todo) /\ todo[i].do = "declare"
    BY <1>1, <1>2, <1>4, <1>7, <2>1 DEF Placed
  <2>3. Around(j) = todo[1].at
    BY <1>1, <1>2, <1>4, <1>7 DEF Around
  <2>4. CASE i = 1
    <3>1. at = new /\ at <= Len(nodes') /\ ~(at > Len(nodes')) /\ at > 0
      BY <1>2, <1>4, <2>1, <2>4
    <3>2. Placed(n)'
      BY <1>6, <1>7, <3>1 DEF Placed, BarrierEnds, LoopEnds, Kind
    <3>3. Around(n)' = todo[1].at
      BY <1>6, <1>7, <3>1 DEF Around
    <3> QED BY <1>1, <1>2, <1>5, <2>3, <3>2, <3>3
  <2>5. CASE i # 1
    <3>1. PICK m : m = i - 1
      OBVIOUS
    <3>2. /\ at > Len(nodes') /\ ~(at <= Len(nodes')) /\ at > 0 /\ at - Len(nodes') = m
          /\ m \in 1..Len(todo') /\ i \in 2..Len(todo)
      BY <1>2, <1>3, <1>4, <2>1, <2>2, <2>5, <3>1
    <3>3. todo'[m].do = "declare" /\ m <= Len(todo')
      BY <1>3, <2>2, <3>1, <3>2
    <3>4. Placed(n)'
      BY <1>6, <1>7, <3>2, <3>3 DEF Placed, BarrierEnds, LoopEnds, Kind
    <3>5. todo[1].at = todo[2].at
      <4>1. Placed(i) /\ 1 \in 1..i /\ 2 \in 1..i
        BY <2>2, <3>2, Pendings
      <4> QED BY <2>2, <4>1 DEF Placed
    <3>6. todo'[1] = todo[2]
      <4>1. 2 \in 2..Len(todo) /\ 2 - 1 = 1
        BY <3>2
      <4> QED BY <1>3, <4>1
    <3>7. Around(n)' = todo'[1].at
      BY <1>6, <1>7, <3>2 DEF Around
    <3> QED BY <1>1, <1>2, <1>5, <2>3, <3>4, <3>5, <3>6, <3>7
  <2> QED BY <2>4, <2>5
<1>8. CASE do = "fundec" /\ at <= Len(nodes)
  <2>1. at \in 1..Len(nodes) /\ at <= Len(nodes') /\ ~(at > Len(nodes')) /\ at > 0 /\ Kind(at) = "function"
    BY <1>1, <1>2, <1>4, <1>8 DEF Placed
  <2>2. Kind(at)' = "function" /\ nodes'[at] = nodes[at] /\ nodes[at].in \in 0..(at - 1)
    BY <1>2, <2>1, TreeNodes
  <2>3. Placed(n)'
    BY <1>6, <1>8, <2>1, <2>2 DEF Placed, BarrierEnds, LoopEnds, Kind
  <2>4. Around(n)' = nodes[at].in /\ Around(j) = nodes[at].in
    BY <1>1, <1>6, <1>8, <2>1, <2>2 DEF Around
  <2> QED BY <1>1, <1>2, <2>1, <2>2, <2>3, <2>4
<1>9. CASE do = "declare"
  <2>1. /\ at \in 1..Len(nodes) /\ at <= Len(nodes') /\ at > 0 /\ Kind(at) = "chunk"
        /\ j <= MaxBatch /\ \A i \in 1..j : todo[i].do = "declare" /\ todo[i].at = at
    BY <1>1, <1>2, <1>4, <1>9 DEF Placed
  <2>2. Kind(at)' = "chunk"
    BY <1>2, <2>1
  <2>3. n <= MaxBatch /\ \A i \in 1..n : todo'[i].do = "declare" /\ todo'[i].at = at
    <3>1. n <= MaxBatch
      BY <1>3, <2>1, BinderAssumption
    <3>2. ASSUME NEW i \in 1..n PROVE todo'[i].do = "declare" /\ todo'[i].at = at
      <4>1. i + 1 \in 1..j /\ i + 1 \in 2..Len(todo) /\ (i + 1) - 1 = i
        BY <1>3
      <4> QED BY <1>3, <2>1, <4>1
    <3> QED BY <3>1, <3>2
  <2>4. Placed(n)'
    BY <1>6, <1>9, <2>1, <2>2, <2>3 DEF Placed, BarrierEnds, LoopEnds, Kind
  <2>5. Around(n)' = at /\ Around(j) = at
    BY <1>1, <1>6, <1>9 DEF Around
  <2> QED BY <1>1, <1>2, <2>1, <2>4, <2>5
<1>10. CASE do # "fundec" /\ do # "declare"
  <2>1. /\ at \in 0..Len(nodes) /\ at <= Len(nodes')
        /\ do \in {"index", "formal", "typedec", "declare", "fundec"} \cup BarrierEnds => at > 0
        /\ do \in LoopEnds => Kind(at) = "loop"
        /\ do \in BarrierEnds \ LoopEnds => Kind(at) \in {"let", "function"}
        /\ do \in {"typedec", "declare"} => Kind(at) = "chunk"
    BY <1>1, <1>2, <1>4, <1>10 DEF Placed
  <2>2. at # 0 => Kind(at)' = Kind(at)
    BY <1>2, <2>1
  <2>3. LoopEnds \subseteq BarrierEnds
    BY DEF LoopEnds, BarrierEnds
  <2>4. /\ do \in LoopEnds => Kind(at)' = "loop"
        /\ do \in BarrierEnds \ LoopEnds => Kind(at)' \in {"let", "function"}
        /\ do \in {"typedec", "declare"} => Kind(at)' = "chunk"
    BY <2>1, <2>2, <2>3
  <2>5. Placed(n)'
    BY <1>6, <1>10, <2>1, <2>4 DEF Placed, BarrierEnds, LoopEnds, Kind
  <2>6. Around(n)' = at /\ Around(j) = at
    BY <1>1, <1>6, <1>10 DEF Around
  <2> QED BY <1>1, <2>1, <2>5, <2>6
<1> QED
  <2>1. do = "fundec" => at > Len(nodes) \/ at <= Len(nodes)
    BY <1>2, <1>4
  <2> QED BY <1>7, <1>8, <1>9, <1>10, <2>1

LEMMA DeclareCalls ==
  ASSUME TreeInv, TodoInv, CallsInv, Extended, NEW calls, calls = <<>>, Pushed(calls), DeclaresHere,
         todo[1].do = "declare", in_loop_' = in_loop_,
         NEW new, new = Len(nodes'), new = This, Kind(new)' = "function", nodes'[new].in = todo[1].at
  PROVE  TodoInv' /\ CallsInv'
<1>1. Len(calls) = 0 /\ 1 \in 1..Len(todo)
  BY DEF Pushed
<1>2. /\ \A i \in 1..Len(todo) : Placed(i) /\ Enclosed(i) /\ Housed(i) /\ Once(i) /\ Empty(i) /\ Restores(i)
      /\ \A j \in 2..Len(todo) : j \in 1..Len(todo)
  BY AllFit, Pendings DEF Fits
<1>3. ASSUME NEW j \in 2..Len(todo) PROVE Fits(j + Len(calls) - 1)'
  <2>1. PICK n : n = j + Len(calls) - 1
    OBVIOUS
  <2>2. Placed(n)' /\ Around(n)' = Around(j) /\ Around(j) \in 0..Len(nodes)
    BY <2>1, PlacedBelowDeclaration
  <2>3. Enclosed(n)'
    BY <1>2, <2>1, <2>2, EnclosedBelow
  <2>4. Housed(n)'
    BY <1>2, <2>1, HousedBelow
  <2>5. Once(n)'
    BY <1>2, <2>1, OnceBelow
  <2>6. Empty(n)'
    BY <1>2, <2>1, EmptyBelow
  <2>7. Restores(n)'
    BY <1>2, <2>1, RestoresBelow
  <2>8. Fits(n)'
    BY <2>2, <2>3, <2>4, <2>5, <2>6, <2>7 DEF Fits
  <2> QED BY <2>1, <2>8
<1>4. \A n \in 1..Len(todo') : Fits(n)'
  BY <1>1, <1>3, OnStack
<1>5. in_loop_' = Breakable(0)'
  <2>1. todo[1].do \notin BarrierEnds
    BY DEF BarrierEnds
  <2>2. Breakable(0)' <=> Breakable(0)
    BY <1>1, <2>1, NothingEnds
  <2>3. in_loop_ = Breakable(0)
    BY AllFit
  <2>4. Breakable(0) \in BOOLEAN
    BY DEF Breakable
  <2>5. Breakable(0)' \in BOOLEAN
    BY DEF Breakable
  <2> QED BY <2>2, <2>3, <2>4, <2>5
<1>6. todo' \in Seq(Calling) /\ in_loop_' = Breakable(0)' /\ \A n \in 1..Len(todo') : Fits(n)'
  BY <1>4, <1>5 DEF Pushed
<1> QED BY <1>6, AllFitNext

\* Calls for n functions, and one for the chunks that follow.
Functions(calls, new, n, d) ==
  /\ Len(calls) = 2 * n + 1
  /\ \A i \in 1..n : calls[i].do = "declare" /\ calls[i].at = new
  /\ \A i \in 1..n : calls[n + i].do = "fundec" /\ calls[n + i].at = new + i
  /\ calls[2 * n + 1] = d

\* A chunk of functions: their declarations, their bodies, and the chunks that follow.
LEMMA ChunkCalls ==
  ASSUME TreeInv, TreeInv', TodoInv, CallsInv, Extended, NEW calls, Pushed(calls),
         todo[1].do = "chunks", in_loop_' = in_loop_,
         NEW new, new = Len(nodes'), new = This, Kind(new)' = "chunk", nodes'[new].in = todo[1].at,
         Barriers(new)' = Barriers(todo[1].at),
         NEW N \in 1..MaxBatch, Functions(calls, new, N, todo[1])
  PROVE  TodoInv' /\ CallsInv'
<1>0. /\ Len(calls) = 2 * N + 1
      /\ \A i \in 1..N : calls[i].do = "declare" /\ calls[i].at = new
      /\ \A i \in 1..N : calls[N + i].do = "fundec" /\ calls[N + i].at = new + i
      /\ calls[2 * N + 1] = todo[1]
  BY DEF Functions
<1> USE <1>0
<1>1. /\ Len(calls) \in Nat /\ 1 \in 1..Len(todo) /\ N \in Nat \ {0} /\ N <= MaxBatch
      /\ Len(todo) \in Nat \ {0} /\ Len(todo') = Len(calls) + Len(todo) - 1 /\ Len(todo') \in Nat
      /\ \A i \in 1..Len(calls) : todo'[i] = calls[i]
      /\ \A j \in 2..Len(todo) : todo'[j + Len(calls) - 1] = todo[j]
  BY BinderAssumption DEF Pushed
<1>2. /\ Len(nodes) \in Nat /\ Len(nodes') = Len(nodes) + 1 /\ new = Len(nodes) + 1
      /\ \A i \in 1..Len(nodes) : nodes'[i] = nodes[i] /\ Kind(i)' = Kind(i)
  BY TreeKept DEF This
<1>3. PICK at : at = todo[1].at
  OBVIOUS
<1>4. /\ \A i \in 1..N : todo'[i].do = "declare" /\ todo'[i].at = new
      /\ \A i \in 1..N : todo'[N + i].do = "fundec" /\ todo'[N + i].at = new + i
      /\ todo'[2 * N + 1].do = "chunks" /\ todo'[2 * N + 1].at = at
      /\ \A i \in 1..Len(calls) :
           i \in 1..N \/ (\E l \in 1..N : i = N + l) \/ i = 2 * N + 1
  <2>1. \A i \in 1..N : i \in 1..Len(calls) /\ N + i \in 1..Len(calls)
    BY <1>1
  <2>2. 2 * N + 1 \in 1..Len(calls)
    BY <1>1
  <2>3. ASSUME NEW i \in 1..Len(calls), i \notin 1..N, i # 2 * N + 1 PROVE \E l \in 1..N : i = N + l
    <3>1. i - N \in 1..N /\ i = N + (i - N)
      BY <1>1, <2>3
    <3> QED BY <3>1
  <2> QED BY <1>1, <1>3, <2>1, <2>2, <2>3
<1>5. /\ "declare" \notin BarrierEnds /\ "fundec" \notin BarrierEnds /\ "chunks" \notin BarrierEnds
      /\ "declare" \notin ScopeEnds /\ "fundec" \notin ScopeEnds /\ "chunks" \notin ScopeEnds
  BY DEF BarrierEnds, ScopeEnds
<1>6. \A i \in 1..Len(calls) : calls[i].do \notin BarrierEnds /\ calls[i].do \notin ScopeEnds
  <2>1. SUFFICES ASSUME NEW i \in 1..Len(calls)
                 PROVE  calls[i].do \in {"declare", "fundec", "chunks"}
    BY <1>5
  <2>2. i \in 1..N => calls[i].do = "declare"
    OBVIOUS
  <2>3. (\E l \in 1..N : i = N + l) => calls[i].do = "fundec"
    OBVIOUS
  <2>4. i = 2 * N + 1 => calls[i].do = "chunks"
    OBVIOUS
  <2> QED BY <1>4, <2>2, <2>3, <2>4
<1>7. /\ \A i \in 1..Len(calls) : Enders(i)' = Enders(1)
      /\ Breakable(0)' <=> Breakable(0)
  BY <1>5, <1>6, NothingEnds
<1>8. Placed(1) /\ Enclosed(1) /\ Housed(1) /\ at \in 0..Len(nodes)
  <2>1. Placed(1) /\ Enclosed(1) /\ Housed(1) /\ at \in Nat
    BY <1>1, <1>3, AllFit, Pendings DEF Fits
  <2>2. at <= Len(nodes)
    BY <1>3, <2>1 DEF Placed
  <2> QED BY <1>2, <2>1, <2>2
<1>9. Barriers(at) = Enders(1) /\ Barriers(at)' = Enders(1) /\ Barriers(new)' = Enders(1)
  <2>1. Barriers(at) = Enders(1)
    BY <1>3, <1>8 DEF Enclosed, Around
  <2> QED BY <1>3, <1>8, <2>1, TreeKept
<1>10. \A i \in 1..Len(calls) : Houses(i, at)'
  <2>1. SUFFICES ASSUME NEW i \in 1..Len(calls) PROVE Houses(i, at)'
    OBVIOUS
  <2>2. Houses(1, at)
    BY <1>3, <1>8 DEF Housed, Holder
  <2>3. i \in 0..Len(calls) /\ \A m \in (i + 1)..Len(calls) : calls[m].do \notin ScopeEnds
    <3>1. \A m \in (i + 1)..Len(calls) : m \in 1..Len(calls)
      BY <1>1
    <3> QED BY <1>1, <1>6, <3>1
  <2> QED BY <2>2, <2>3, HousesOver
<1>11. DeclaresHere
  <2>1. \A d \in (Len(nodes) + 1)..Len(nodes') : d = new
    BY <1>2
  <2>2. Kind(new)' \notin Declarations
    BY DEF Declarations
  <2> QED BY <2>1, <2>2 DEF DeclaresHere
<1>12. todo'[1].at = new
  BY <1>1, <1>4
<1>13. ASSUME NEW i \in 1..N PROVE Fits(i)'
  <2>1. todo'[i].do = "declare" /\ todo'[i].at = new /\ i \in 1..Len(calls)
    BY <1>1, <1>4
  <2>2. Placed(i)'
    <3>1. i <= MaxBatch /\ \A m \in 1..i : m \in 1..N
      BY <1>1, BinderAssumption
    <3>2. \A m \in 1..i : todo'[m].do = "declare" /\ todo'[m].at = new
      BY <1>4, <3>1
    <3>3. new <= Len(nodes') /\ new > 0 /\ Kind(new)' = "chunk"
      BY <1>2
    <3> QED BY <2>1, <3>1, <3>2, <3>3 DEF Placed, BarrierEnds, LoopEnds, Kind
  <2>3. Enclosed(i)'
    <3>1. Around(i)' = new
      BY <2>1 DEF Around
    <3>2. (Barriers(Around(i)))' = Barriers(new)'
      BY <3>1
    <3> QED BY <1>7, <1>9, <2>1, <3>2 DEF Enclosed
  <2>4. Housed(i)'
    <3>1. Holder(i)' = at
      BY <1>3, <2>1 DEF Holder
    <3>2. (Houses(i, Holder(i)))' <=> Houses(i, at)'
      BY <3>1
    <3> QED BY <1>10, <2>1, <3>2 DEF Housed
  <2>5. Once(i)'
    BY <2>1 DEF Once, BarrierEnds
  <2>6. Empty(i)'
    BY <2>1 DEF Empty
  <2>7. Restores(i)'
    BY <2>1 DEF Restores, BarrierEnds
  <2> QED BY <2>2, <2>3, <2>4, <2>5, <2>6, <2>7 DEF Fits
<1>14. ASSUME NEW l \in 1..N PROVE \E i : i = N + l /\ Fits(i)'
  <2>1. PICK i, f : i = N + l /\ f = new + l
    OBVIOUS
  <2>2. todo'[i].do = "fundec" /\ todo'[i].at = f /\ i \in 1..Len(calls) /\ i \in Nat
    BY <1>1, <1>4, <2>1
  <2>3. f > Len(nodes') /\ ~(f <= Len(nodes')) /\ f > 0 /\ f - Len(nodes') = l /\ l <= Len(todo') /\ f \in Nat
    BY <1>1, <1>2, <2>1
  <2>4. Placed(i)'
    <3>1. todo'[l].do = "declare"
      BY <1>4
    <3> QED BY <2>2, <2>3, <3>1 DEF Placed, BarrierEnds, LoopEnds, Kind
  <2>5. Enclosed(i)'
    <3>1. Around(i)' = new
      BY <1>12, <2>2, <2>3 DEF Around
    <3>2. (Barriers(Around(i)))' = Barriers(new)'
      BY <3>1
    <3> QED BY <1>7, <1>9, <2>2, <3>2 DEF Enclosed
  <2>6. Housed(i)'
    BY <2>2 DEF Housed
  <2>7. Once(i)'
    <3>1. ASSUME NEW k \in (i + 1)..Len(todo'), todo'[k].do \in BarrierEnds \cup {"fundec"}
          PROVE  todo'[k].at # f
      <4>1. CASE k \in 1..Len(calls)
        <5>1. \E m \in 1..N : k = N + m
          <6>1. k \notin 1..N
            BY <1>1, <2>1, <3>1
          <6>2. k # 2 * N + 1
            BY <1>4, <1>5, <3>1
          <6> QED BY <1>4, <4>1, <6>1, <6>2
        <5>2. PICK m \in 1..N : k = N + m
          BY <5>1
        <5>3. todo'[k].at = new + m
          BY <1>4, <5>2
        <5>4. m # l
          BY <1>1, <2>1, <3>1, <5>2
        <5> QED BY <1>2, <2>1, <5>3, <5>4
      <4>2. CASE k \notin 1..Len(calls)
        <5>1. k \in 1..Len(todo')
          BY <1>1, <2>2, <3>1
        <5>2. PICK j \in 2..Len(todo) : k = j + Len(calls) - 1
          BY <4>2, <5>1, OnStack
        <5>3. todo'[k] = todo[j] /\ j \in 1..Len(todo)
          BY <1>1, <5>2
        <5>4. Placed(j) /\ todo[j].at \in Nat
          BY <5>3, Pendings
        <5>5. todo[j].at <= Len(nodes)
          <6>1. CASE todo[j].do = "fundec"
            <7>1. ~(todo[j].at > Len(nodes))
              BY <1>2, <5>3, <6>1, WaitForDeclarations
            <7> QED BY <1>2, <5>4, <7>1
          <6>2. CASE todo[j].do # "fundec"
            BY <5>4, <6>2 DEF Placed
          <6> QED BY <6>1, <6>2
        <5> QED BY <1>2, <2>3, <5>3, <5>4, <5>5
      <4> QED BY <4>1, <4>2
    <3> QED BY <2>2, <3>1 DEF Once, BarrierEnds
  <2>8. Empty(i)'
    <3>1. SUFFICES ASSUME NEW d \in DeclaredIn(Declarations, f)' PROVE FALSE
      <4>1. (DeclaredIn(Declarations, todo[i].at))' = DeclaredIn(Declarations, f)'
        BY <2>2
      <4> QED BY <4>1 DEF Empty
    <3>2. d \in 1..Len(nodes') /\ Kind(d)' \in Declarations /\ Owner(d)' = f
      BY <3>1 DEF DeclaredIn, Declarations
    <3>3. d # new
      BY <3>2 DEF Declarations
    <3>4. d \in 1..Len(nodes)
      BY <1>2, <3>2, <3>3
    <3>5. Kind(d) \in Declarations /\ Owner(d) = f
      BY <3>2, <3>4, TreeKept
    <3>6. Owner(d) \in 0..(d - 1)
      BY <3>4, <3>5, TreeNodes
    <3> QED BY <1>2, <2>3, <3>4, <3>5, <3>6
  <2>9. Restores(i)'
    BY <2>2 DEF Restores, BarrierEnds
  <2>10. Fits(i)'
    BY <2>4, <2>5, <2>6, <2>7, <2>8, <2>9 DEF Fits
  <2> QED BY <2>1, <2>10
<1>15. ASSUME NEW i, i = 2 * N + 1 PROVE Fits(i)'
  <2>1. todo'[i].do = "chunks" /\ todo'[i].at = at /\ i \in 1..Len(calls)
    BY <1>1, <1>4, <1>15
  <2>2. Placed(i)'
    <3>1. at <= Len(nodes')
      BY <1>2, <1>8
    <3> QED BY <2>1, <3>1 DEF Placed, BarrierEnds, LoopEnds, Kind
  <2>3. Enclosed(i)'
    <3>1. Around(i)' = at
      BY <2>1 DEF Around
    <3>2. (Barriers(Around(i)))' = Barriers(at)'
      BY <3>1
    <3> QED BY <1>7, <1>9, <2>1, <3>2 DEF Enclosed
  <2>4. Housed(i)'
    <3>1. Holder(i)' = at
      BY <2>1 DEF Holder
    <3>2. (Houses(i, Holder(i)))' <=> Houses(i, at)'
      BY <3>1
    <3> QED BY <1>10, <2>1, <3>2 DEF Housed
  <2>5. Once(i)'
    BY <2>1 DEF Once, BarrierEnds
  <2>6. Empty(i)'
    BY <2>1 DEF Empty
  <2>7. Restores(i)'
    BY <2>1 DEF Restores, BarrierEnds
  <2> QED BY <2>2, <2>3, <2>4, <2>5, <2>6, <2>7 DEF Fits
<1>16. \A i \in 1..Len(calls) : Fits(i)'
  <2>1. \A l \in 1..N : \A i : i = N + l => Fits(i)'
    BY <1>14
  <2> QED BY <1>4, <1>13, <1>15, <2>1
<1>17. \A j \in 2..Len(todo) : Fits(j + Len(calls) - 1)'
  <2>1. todo[1].do # "declare"
    OBVIOUS
  <2> QED BY <1>11, <2>1, FitBelow
<1>18. \A n \in 1..Len(todo') : Fits(n)'
  BY <1>16, <1>17, OnStack
<1>19. in_loop_' = Breakable(0)'
  <2>1. in_loop_ = Breakable(0)
    BY AllFit
  <2>2. Breakable(0) \in BOOLEAN
    BY DEF Breakable
  <2>3. Breakable(0)' \in BOOLEAN
    BY DEF Breakable
  <2> QED BY <1>7, <2>1, <2>2, <2>3
<1>20. todo' \in Seq(Calling) /\ in_loop_' = Breakable(0)' /\ \A n \in 1..Len(todo') : Fits(n)'
  BY <1>18, <1>19 DEF Pushed
<1> QED BY <1>20, AllFitNext

-----------------------------------------------------------------------------
(* What is pending.                                                        *)

LEMMA PendingKept ==
  ASSUME NEW calls, Pushed(calls), NEW kinds, todo[1].do \notin kinds,
         \A i \in 1..Len(calls) : calls[i].do \notin kinds
  PROVE  Picked(todo', kinds) = Picked(todo, kinds)
<1>1. PICK t : t = Tail(todo)
  OBVIOUS
<1>2. t \in Seq(Calling) /\ todo = <<todo[1]>> \o t /\ todo' = calls \o t /\ calls \in Seq(Calling) /\ todo[1] \in Calling
  BY <1>1 DEF Pushed
<1>3. Picked(calls \o t, kinds) = Picked(t, kinds)
  BY <1>2, PickedOver
<1>4. PICK c : c = todo[1]
  OBVIOUS
<1>5. Picked(<<c>> \o t, kinds) = Picked(t, kinds)
  BY <1>2, <1>4, PickedCons
<1> QED BY <1>2, <1>3, <1>4, <1>5

LEMMA PendingMore ==
  ASSUME NEW calls, Pushed(calls), NEW kinds, todo[1].do \notin kinds, Len(calls) > 0,
         calls[Len(calls)].do \in kinds,
         \A i \in 1..(Len(calls) - 1) : calls[i].do \notin kinds
  PROVE  Picked(todo', kinds) = <<calls[Len(calls)]>> \o Picked(todo, kinds)
<1>1. PICK t, c, e : t = Tail(todo) /\ c = todo[1] /\ e = calls[Len(calls)]
  OBVIOUS
<1>2. /\ t \in Seq(Calling) /\ todo = <<c>> \o t /\ todo' = calls \o t /\ calls \in Seq(Calling) /\ c \in Calling
      /\ Len(calls) \in Nat \ {0}
  BY <1>1 DEF Pushed
<1>3. PICK front : front = SubSeq(calls, 1, Len(calls) - 1)
  OBVIOUS
<1>4. front \in Seq(Calling) /\ Len(front) = Len(calls) - 1 /\ \A i \in 1..Len(front) : front[i] = calls[i]
  <2>1. PICK n : n = Len(calls) - 1
    OBVIOUS
  <2>2. n \in Nat /\ 1 \in Int /\ \A i \in 1..n : calls[i] \in Calling
    BY <1>2, <2>1
  <2>3. front = SubSeq(calls, 1, n)
    BY <1>3, <2>1
  <2>4. /\ front \in Seq(Calling) /\ Len(front) = IF 1 <= n THEN n - 1 + 1 ELSE 0
        /\ \A i \in 1..(n - 1 + 1) : front[i] = calls[1 + i - 1]
    BY <2>2, <2>3, SubSeqProperties
  <2>5. Len(front) = n
    BY <2>2, <2>4
  <2>6. \A i \in 1..n : i \in 1..(n - 1 + 1) /\ 1 + i - 1 = i
    BY <2>2
  <2> QED BY <2>1, <2>4, <2>5, <2>6
<1>5. e \in Calling
  BY <1>1, <1>2
<1>6. calls = front \o <<e>>
  <2>1. Len(front \o <<e>>) = Len(calls) /\ front \o <<e>> \in Seq(Calling)
    BY <1>2, <1>4, <1>5
  <2>2. \A i \in 1..Len(calls) : calls[i] = (front \o <<e>>)[i]
    BY <1>1, <1>2, <1>4, <1>5
  <2> QED BY <1>2, <2>1, <2>2, SeqEqual
<1>7. PICK u : u = <<e>> \o t
  OBVIOUS
<1>8. u \in Seq(Calling) /\ todo' = front \o u
  BY <1>2, <1>4, <1>5, <1>6, <1>7
<1>9. Picked(front \o u, kinds) = Picked(u, kinds)
  <2>1. \A i \in 1..Len(front) : front[i].do \notin kinds
    BY <1>4
  <2> QED BY <1>4, <1>8, <2>1, PickedOver
<1>10. Picked(<<e>> \o t, kinds) = <<e>> \o Picked(t, kinds)
  BY <1>1, <1>2, <1>5, PickedCons
<1>11. Picked(<<c>> \o t, kinds) = Picked(t, kinds)
  <2>1. c.do \notin kinds
    BY <1>1
  <2> QED BY <1>2, <2>1, PickedCons
<1> QED BY <1>1, <1>2, <1>7, <1>8, <1>9, <1>10, <1>11

LEMMA PendingLess ==
  ASSUME NEW calls, calls = <<>>, Pushed(calls), NEW kinds, todo[1].do \in kinds
  PROVE  Picked(todo, kinds) = <<todo[1]>> \o Picked(todo', kinds)
<1>1. PICK t, c : t = Tail(todo) /\ c = todo[1]
  OBVIOUS
<1>2. t \in Seq(Calling) /\ todo = <<c>> \o t /\ todo' = t /\ c \in Calling
  BY <1>1 DEF Pushed
<1>3. Picked(<<c>> \o t, kinds) = <<c>> \o Picked(t, kinds)
  BY <1>1, <1>2, PickedCons
<1> QED BY <1>1, <1>2, <1>3

\* The openers of the scopes that stay open.
LEMMA OpenersKept ==
  ASSUME Picked(todo', ScopeEnds) = Picked(todo, ScopeEnds)
  PROVE  \A l : Opener(l)' = Opener(l)
BY DEF Opener, Pending, ScopeEnds

LEMMA OpenersMore ==
  ASSUME todo \in Seq(Calling), NEW c \in Calling,
         Picked(todo', ScopeEnds) = <<c>> \o Picked(todo, ScopeEnds)
  PROVE  /\ Len(Picked(todo, ScopeEnds)) \in Nat
         /\ Len(Picked(todo', ScopeEnds)) = 1 + Len(Picked(todo, ScopeEnds))
         /\ \A l \in 1..(1 + Len(Picked(todo, ScopeEnds))) : Opener(l)' = Opener(l)
         /\ \A l : l = 2 + Len(Picked(todo, ScopeEnds)) =>
              Opener(l)' = IF c.do = "leave exp" THEN -1 ELSE c.at
<1>1. PICK p, q : p = Picked(todo, ScopeEnds) /\ q = Picked(todo', ScopeEnds)
  OBVIOUS
<1>2. p \in Seq(Calling)
  BY <1>1, PickedFrom
<1>3. q = <<c>> \o p
  BY <1>1
<1>4. Len(p) \in Nat /\ Len(q) = 1 + Len(p) /\ q[1] = c /\ \A i \in 1..Len(p) : q[i + 1] = p[i]
  BY <1>2, <1>3
<1>5. \A l : Opener(l) = IF l = 1 THEN 0
                         ELSE IF p[Len(p) + 2 - l].do = "leave exp" THEN -1 ELSE p[Len(p) + 2 - l].at
  BY <1>1 DEF Opener, Pending
<1>6. \A l : Opener(l)' = IF l = 1 THEN 0
                          ELSE IF q[Len(q) + 2 - l].do = "leave exp" THEN -1 ELSE q[Len(q) + 2 - l].at
  BY <1>1 DEF Opener, Pending, ScopeEnds
<1>7. ASSUME NEW l \in 1..(1 + Len(p)) PROVE Opener(l)' = Opener(l)
  <2>1. CASE l = 1
    BY <1>5, <1>6, <2>1
  <2>2. CASE l # 1
    <3>1. Len(p) + 2 - l \in 1..Len(p) /\ Len(q) + 2 - l = (Len(p) + 2 - l) + 1
      BY <1>4, <2>2
    <3>2. q[Len(q) + 2 - l] = p[Len(p) + 2 - l]
      BY <1>4, <3>1
    <3> QED BY <1>5, <1>6, <2>2, <3>2
  <2> QED BY <2>1, <2>2
<1>8. ASSUME NEW l, l = 2 + Len(p) PROVE Opener(l)' = IF c.do = "leave exp" THEN -1 ELSE c.at
  <2>1. Len(q) + 2 - l = 1 /\ l # 1
    BY <1>4, <1>8
  <2> QED BY <1>4, <1>6, <2>1
<1> QED BY <1>1, <1>4, <1>7, <1>8

LEMMA OpenersLess ==
  ASSUME todo' \in Seq(Calling), NEW c \in Calling,
         Picked(todo, ScopeEnds) = <<c>> \o Picked(todo', ScopeEnds)
  PROVE  /\ Len(Picked(todo', ScopeEnds)) \in Nat
         /\ Len(Picked(todo, ScopeEnds)) = 1 + Len(Picked(todo', ScopeEnds))
         /\ \A l \in 1..(1 + Len(Picked(todo', ScopeEnds))) : Opener(l)' = Opener(l)
<1>1. PICK p, q : p = Picked(todo, ScopeEnds) /\ q = Picked(todo', ScopeEnds)
  OBVIOUS
<1>2. q \in Seq(Calling)
  BY <1>1, PickedFrom
<1>3. p = <<c>> \o q
  BY <1>1
<1>4. Len(q) \in Nat /\ Len(p) = 1 + Len(q) /\ p[1] = c /\ \A i \in 1..Len(q) : p[i + 1] = q[i]
  BY <1>2, <1>3
<1>5. \A l : Opener(l) = IF l = 1 THEN 0
                         ELSE IF p[Len(p) + 2 - l].do = "leave exp" THEN -1 ELSE p[Len(p) + 2 - l].at
  BY <1>1 DEF Opener, Pending
<1>6. \A l : Opener(l)' = IF l = 1 THEN 0
                          ELSE IF q[Len(q) + 2 - l].do = "leave exp" THEN -1 ELSE q[Len(q) + 2 - l].at
  BY <1>1 DEF Opener, Pending, ScopeEnds
<1>7. ASSUME NEW l \in 1..(1 + Len(q)) PROVE Opener(l)' = Opener(l)
  <2>1. CASE l = 1
    BY <1>5, <1>6, <2>1
  <2>2. CASE l # 1
    <3>1. Len(q) + 2 - l \in 1..Len(q) /\ Len(p) + 2 - l = (Len(q) + 2 - l) + 1
      BY <1>4, <2>2
    <3>2. p[Len(p) + 2 - l] = q[Len(q) + 2 - l]
      BY <1>4, <3>1
    <3> QED BY <1>5, <1>6, <2>2, <3>2
  <2> QED BY <2>1, <2>2
<1> QED BY <1>1, <1>4, <1>7

-----------------------------------------------------------------------------
(* Scoped maps.                                                            *)

\* A level of a map holds, for each name declared in a scope, its latest declaration.
Holds(level, kinds, o) ==
  /\ level \in [DOMAIN level -> DeclaredIn(kinds, o)]
  /\ \A name \in DOMAIN level : nodes[level[name]].name = name
  /\ \A d \in DeclaredIn(kinds, o) : nodes[d].name \in DOMAIN level /\ d <= level[nodes[d].name]

\* The scopes before the l-th one are others, with earlier declarations.
Nested(kinds, l) ==
  \A m \in 1..(l - 1) :
    /\ Opener(m) = -1 \/ Opener(m) # Opener(l)
    /\ \A c \in DeclaredIn(kinds, Opener(m)), d \in DeclaredIn(kinds, Opener(l)) : c < d

LEMMA MapLevels ==
  ASSUME NEW map, NEW kinds
  PROVE  MapInv(map, kinds) <=>
           /\ Len(map) = 1 + Len(Pending(ScopeEnds))
           /\ \A l \in 1..Len(map) : Holds(map[l], kinds, Opener(l)) /\ Nested(kinds, l)
BY DEF MapInv, Holds, Nested

LEMMA MapLevelsNext ==
  ASSUME NEW map, NEW kinds
  PROVE  MapInv(map, kinds)' <=>
           /\ Len(map) = 1 + Len(Pending(ScopeEnds)')
           /\ \A l \in 1..Len(map) : (Holds(map[l], kinds, Opener(l)) /\ Nested(kinds, l))'
BY DEF MapInv, Holds, Nested, Opener, DeclaredIn, Pending, ScopeEnds

\* Levels hold what they held while nothing is declared, ...
LEMMA HoldsKept ==
  ASSUME TreeInv, Extended, NEW kinds, kinds \subseteq Declarations, NEW level, NEW o,
         Holds(level, kinds, o), DeclaredIn(kinds, o)' = DeclaredIn(kinds, o)
  PROVE  Holds(level, kinds, o)'
<1>1. \A d \in DeclaredIn(kinds, o) : nodes'[d] = nodes[d]
  BY TreeKept DEF DeclaredIn
<1> DEFINE D == DeclaredIn(kinds, o)
<1>2. /\ level \in [DOMAIN level -> D]
      /\ \A name \in DOMAIN level : nodes[level[name]].name = name /\ level[name] \in D
      /\ \A d \in D : nodes[d].name \in DOMAIN level /\ d <= level[nodes[d].name]
  BY DEF Holds
<1> HIDE DEF D
<1>3. /\ level \in [DOMAIN level -> D]
      /\ \A name \in DOMAIN level : nodes'[level[name]].name = name
      /\ \A d \in D : nodes'[d].name \in DOMAIN level /\ d <= level[nodes'[d].name]
  BY <1>1, <1>2 DEF D
<1>4. DeclaredIn(kinds, o)' = D
  BY DEF D
<1> QED BY <1>3, <1>4 DEF Holds

\* ... in maps that keep these levels.
LEMMA MapKept ==
  ASSUME TreeInv, Extended, NEW kinds, kinds \subseteq Declarations, NEW map, NEW after,
         MapInv(map, kinds), \A o : DeclaredIn(kinds, o)' = DeclaredIn(kinds, o),
         Len(after) = 1 + Len(Picked(todo', ScopeEnds)), Len(after) \in Nat, Len(map) \in Nat,
         Len(after) <= Len(map),
         \A l \in 1..Len(after) : after[l] = map[l] /\ Opener(l)' = Opener(l)
  PROVE  MapInv(after, kinds)'
<1>1. Len(after) = 1 + Len(Pending(ScopeEnds)')
  BY DEF Pending, ScopeEnds
<1>2. ASSUME NEW l \in 1..Len(after) PROVE (Holds(after[l], kinds, Opener(l)) /\ Nested(kinds, l))'
  <2>1. PICK level, o : level = after[l] /\ o = Opener(l)
    OBVIOUS
  <2>2. l \in 1..Len(map) /\ Holds(level, kinds, o) /\ Nested(kinds, l) /\ Opener(l)' = o
    BY <2>1, MapLevels
  <2>3. Holds(level, kinds, o)'
    BY <2>2, HoldsKept
  <2>4. (Holds(after[l], kinds, Opener(l)))' <=> Holds(level, kinds, o)'
    BY <2>1, <2>2
  <2>5. Nested(kinds, l)'
    <3>1. \A m \in 1..l : m \in 1..Len(after)
      OBVIOUS
    <3>2. \A m \in 1..l : (DeclaredIn(kinds, Opener(m)))' = DeclaredIn(kinds, Opener(m)) /\ Opener(m)' = Opener(m)
      <4>1. SUFFICES ASSUME NEW m \in 1..l
                     PROVE  (DeclaredIn(kinds, Opener(m)))' = DeclaredIn(kinds, Opener(m)) /\ Opener(m)' = Opener(m)
        OBVIOUS
      <4>2. PICK x : x = Opener(m)
        OBVIOUS
      <4>3. Opener(m)' = x
        BY <3>1, <4>1, <4>2
      <4>4. (DeclaredIn(kinds, Opener(m)))' = DeclaredIn(kinds, x)'
        BY <4>3
      <4> QED BY <4>2, <4>3, <4>4
    <3>3. \A m \in 1..(l - 1) : m \in 1..l
      OBVIOUS
    <3>4. l \in 1..l
      OBVIOUS
    <3> QED BY <2>2, <3>2, <3>3, <3>4 DEF Nested
  <2> QED BY <2>3, <2>4, <2>5
<1> QED BY <1>1, <1>2, MapLevelsNext

\* A level on top of a map, for a scope that holds nothing yet.
LEMMA MapBegin ==
  ASSUME TreeInv, Extended, NEW kinds, kinds \subseteq Declarations, NEW map, NEW after,
         MapInv(map, kinds), \A o : DeclaredIn(kinds, o)' = DeclaredIn(kinds, o),
         after = scope_begin(map), map \in Seq(Range(map)), Len(map) > 0,
         Len(after) = 1 + Len(Picked(todo', ScopeEnds)),
         \A l \in 1..Len(map) : Opener(l)' = Opener(l),
         NEW x, x = Opener(Len(after))', DeclaredIn(kinds, x)' = {},
         \A l \in 1..Len(map) : Opener(l) = -1 \/ Opener(l) # x
  PROVE  MapInv(after, kinds)'
<1>1. PICK n, empty : n = Len(map) /\ empty = [k \in {} |-> NoPointer]
  OBVIOUS
<1>2. /\ n \in Nat \ {0} /\ Len(after) = n + 1 /\ after[n + 1] = empty
      /\ \A l \in 1..n : after[l] = map[l]
  <2>1. after = Append(map, empty)
    BY <1>1 DEF scope_begin
  <2> QED BY <1>1, <2>1, AppendProperties
<1>3. Len(after) = 1 + Len(Pending(ScopeEnds)')
  BY DEF Pending, ScopeEnds
<1>4. \A m \in 1..n : Opener(m)' = Opener(m) /\ (DeclaredIn(kinds, Opener(m)))' = DeclaredIn(kinds, Opener(m))
  <2>1. SUFFICES ASSUME NEW m \in 1..n
                 PROVE  Opener(m)' = Opener(m) /\ (DeclaredIn(kinds, Opener(m)))' = DeclaredIn(kinds, Opener(m))
    OBVIOUS
  <2>2. PICK o : o = Opener(m)
    OBVIOUS
  <2>3. Opener(m)' = o
    BY <1>1, <2>2
  <2>4. (DeclaredIn(kinds, Opener(m)))' = DeclaredIn(kinds, o)'
    BY <2>3
  <2> QED BY <2>2, <2>3, <2>4
<1>5. ASSUME NEW l \in 1..n PROVE (Holds(after[l], kinds, Opener(l)) /\ Nested(kinds, l))'
  <2>1. PICK level, o : level = after[l] /\ o = Opener(l)
    OBVIOUS
  <2>2. Holds(level, kinds, o) /\ Nested(kinds, l) /\ Opener(l)' = o
    BY <1>1, <1>2, <1>4, <2>1, MapLevels
  <2>3. Holds(level, kinds, o)'
    BY <2>2, HoldsKept
  <2>4. (Holds(after[l], kinds, Opener(l)))' <=> Holds(level, kinds, o)'
    BY <2>1, <2>2
  <2>5. Nested(kinds, l)'
    <3>1. \A m \in 1..(l - 1) : m \in 1..n
      BY <1>2
    <3> QED BY <1>4, <2>2, <3>1 DEF Nested
  <2> QED BY <2>3, <2>4, <2>5
<1>6. ASSUME NEW l, l = n + 1 PROVE (Holds(after[l], kinds, Opener(l)) /\ Nested(kinds, l))'
  <2>1. after[l] = empty /\ Opener(l)' = x
    BY <1>2, <1>6
  <2>2. (DeclaredIn(kinds, Opener(l)))' = {}
    <3>1. (DeclaredIn(kinds, Opener(l)))' = DeclaredIn(kinds, x)'
      BY <2>1
    <3> QED BY <3>1
  <2>3. Holds(empty, kinds, x)'
    BY <1>1 DEF Holds
  <2>4. (Holds(after[l], kinds, Opener(l)))' <=> Holds(empty, kinds, x)'
    BY <2>1
  <2>5. Nested(kinds, l)'
    <3>1. \A m \in 1..(l - 1) : m \in 1..n
      BY <1>2, <1>6
    <3> QED BY <1>1, <1>4, <2>1, <2>2, <3>1 DEF Nested
  <2> QED BY <2>3, <2>4, <2>5
<1>7. \A l \in 1..Len(after) : l \in 1..n \/ l = n + 1
  BY <1>2
<1> QED BY <1>3, <1>5, <1>6, <1>7, MapLevelsNext

\* A declaration in the scope that was opened last.
LEMMA MapPut ==
  ASSUME TreeInv, TreeInv', Extended, NEW new, new = This, new = Len(nodes'),
         NEW kinds, kinds \subseteq Declarations, Kind(new)' \in kinds,
         NEW map, NEW after, MapInv(map, kinds), map \in Seq(Range(map)), Len(map) > 0,
         after = put(map, nodes'[new].name, new),
         Picked(todo', ScopeEnds) = Picked(todo, ScopeEnds),
         Owner(new)' = Opener(Len(map))
  PROVE  MapInv(after, kinds)'
<1>1. PICK n, w, name, top : n = Len(map) /\ w = Owner(new)' /\ name = nodes'[new].name
                             /\ top = [k \in DOMAIN map[n] \cup {name} |-> IF k = name THEN new ELSE map[n][k]]
  OBVIOUS
<1>2. /\ n \in Nat \ {0} /\ Len(after) = n /\ after[n] = top
      /\ \A l \in 1..(n - 1) : after[l] = map[l]
  <2>1. after = [map EXCEPT ![n] = top]
    BY <1>1 DEF put
  <2>2. n \in Nat \ {0} /\ DOMAIN map = 1..n
    BY <1>1
  <2> QED BY <1>1, <2>1, <2>2
<1>3. Len(after) = 1 + Len(Pending(ScopeEnds)')
  BY <1>1, <1>2, MapLevels DEF Pending, ScopeEnds
<1>4. \A o : DeclaredIn(kinds, o)' = DeclaredIn(kinds, o) \cup (IF w = o THEN {new} ELSE {})
  BY <1>1, DeclaredMore
<1>5. /\ Len(nodes) \in Nat /\ new = Len(nodes) + 1
      /\ \A d \in 1..Len(nodes) : nodes'[d] = nodes[d]
      /\ w \in 0..(new - 1)
  <2>1. Owned'
    BY OwnedNext
  <2>2. new \in 1..Len(nodes') /\ Kind(new)' \in Declarations /\ Len(nodes') \in Nat
    BY TreeKept DEF This
  <2>3. Owner(new)' \in 0..(new - 1)
    BY <2>1, <2>2 DEF Owned, Declarations
  <2> QED BY <1>1, <2>3, TreeKept DEF This
<1>6. \A m \in 1..n : Opener(m)' = Opener(m)
  BY OpenersKept
<1>7. \A m \in 1..(n - 1) : Opener(m) # w
  <2>1. n \in 1..Len(map)
    BY <1>1, <1>2
  <2>2. Nested(kinds, n) /\ Opener(n) = w
    BY <1>1, <2>1, MapLevels
  <2> QED BY <1>5, <2>2 DEF Nested
<1>8. \A m \in 1..(n - 1) : (DeclaredIn(kinds, Opener(m)))' = DeclaredIn(kinds, Opener(m))
  <2>1. SUFFICES ASSUME NEW m \in 1..(n - 1)
                 PROVE  (DeclaredIn(kinds, Opener(m)))' = DeclaredIn(kinds, Opener(m))
    OBVIOUS
  <2>2. PICK o : o = Opener(m)
    OBVIOUS
  <2>3. Opener(m)' = o /\ o # w
    BY <1>2, <1>6, <1>7, <2>2
  <2>4. (DeclaredIn(kinds, Opener(m)))' = DeclaredIn(kinds, o)'
    BY <2>3
  <2> QED BY <1>4, <2>2, <2>3, <2>4
<1>9. ASSUME NEW l \in 1..(n - 1) PROVE (Holds(after[l], kinds, Opener(l)) /\ Nested(kinds, l))'
  <2>1. PICK level, o : level = after[l] /\ o = Opener(l)
    OBVIOUS
  <2>2. Holds(level, kinds, o) /\ Nested(kinds, l) /\ Opener(l)' = o
    <3>1. l \in 1..Len(map) /\ level = map[l] /\ l \in 1..n
      BY <1>1, <1>2, <2>1
    <3> QED BY <1>6, <2>1, <3>1, MapLevels
  <2>3. Holds(level, kinds, o)'
    <3>1. DeclaredIn(kinds, o)' = DeclaredIn(kinds, o)
      BY <1>4, <1>7, <2>1
    <3> QED BY <2>2, <3>1, HoldsKept
  <2>4. (Holds(after[l], kinds, Opener(l)))' <=> Holds(level, kinds, o)'
    BY <2>1, <2>2
  <2>5. Nested(kinds, l)'
    <3>1. \A m \in 1..l : m \in 1..(n - 1) /\ m \in 1..n
      BY <1>2
    <3>2. l \in 1..l /\ \A m \in 1..(l - 1) : m \in 1..l
      OBVIOUS
    <3>3. \A m \in 1..l : (DeclaredIn(kinds, Opener(m)))' = DeclaredIn(kinds, Opener(m)) /\ Opener(m)' = Opener(m)
      BY <1>6, <1>8, <3>1
    <3> QED BY <2>2, <3>2, <3>3 DEF Nested
  <2> QED BY <2>3, <2>4, <2>5
<1>10. (Holds(after[n], kinds, Opener(n)) /\ Nested(kinds, n))'
  <2>1. PICK level : level = map[n]
    OBVIOUS
  <2>2. Holds(level, kinds, w) /\ Nested(kinds, n) /\ Opener(n) = w /\ Opener(n)' = w
    <3>1. n \in 1..Len(map) /\ n \in 1..n
      BY <1>1, <1>2
    <3> QED BY <1>1, <1>6, <2>1, <3>1, MapLevels
  <2> DEFINE D == DeclaredIn(kinds, w)
  <2>3. DeclaredIn(kinds, w)' = D \cup {new} /\ D \subseteq 1..Len(nodes)
    BY <1>4 DEF DeclaredIn
  <2>4. /\ level \in [DOMAIN level -> D]
        /\ \A k \in DOMAIN level : nodes[level[k]].name = k
        /\ \A d \in D : nodes[d].name \in DOMAIN level /\ d <= level[nodes[d].name]
    BY <2>2 DEF Holds
  <2>5. /\ DOMAIN top = DOMAIN level \cup {name}
        /\ \A k \in DOMAIN level \cup {name} : top[k] = IF k = name THEN new ELSE level[k]
        /\ top \in [DOMAIN top -> D \cup {new}]
    <3> HIDE DEF D
    <3> QED BY <1>1, <2>1, <2>4
  <2> HIDE DEF D
  <2>6. \A k \in DOMAIN top : nodes'[top[k]].name = k
    <3>1. SUFFICES ASSUME NEW k \in DOMAIN level, k # name PROVE nodes'[level[k]].name = k
      BY <1>1, <2>5
    <3>2. level[k] \in 1..Len(nodes) /\ nodes[level[k]].name = k
      BY <2>3, <2>4
    <3> QED BY <1>5, <3>2
  <2>7. ASSUME NEW d \in D \cup {new}
        PROVE  nodes'[d].name \in DOMAIN top /\ d <= top[nodes'[d].name]
    <3>1. CASE d = new
      <4>1. nodes'[d].name = name
        BY <1>1, <3>1
      <4>2. top[name] = new /\ name \in DOMAIN top
        BY <2>5
      <4> QED BY <1>5, <3>1, <4>1, <4>2
    <3>2. CASE d \in D
      <4>1. d \in 1..Len(nodes) /\ nodes'[d] = nodes[d]
        BY <1>5, <2>3, <3>2
      <4>2. nodes[d].name \in DOMAIN level /\ d <= level[nodes[d].name]
        BY <2>4, <3>2
      <4>3. d <= new
        BY <1>5, <4>1
      <4> QED BY <2>5, <4>1, <4>2, <4>3
    <3> QED BY <3>1, <3>2
  <2>8. Holds(top, kinds, w)'
    BY <2>3, <2>5, <2>6, <2>7 DEF Holds
  <2>9. (Holds(after[n], kinds, Opener(n)))' <=> Holds(top, kinds, w)'
    BY <1>2, <2>2
  <2>10. (DeclaredIn(kinds, Opener(n)))' = D \cup {new}
    <3>1. (DeclaredIn(kinds, Opener(n)))' = DeclaredIn(kinds, w)'
      BY <2>2
    <3> QED BY <2>3, <3>1
  <2>11. Nested(kinds, n)'
    <3>1. ASSUME NEW m \in 1..(n - 1)
          PROVE  /\ Opener(m)' = -1 \/ Opener(m)' # Opener(n)'
                 /\ \A c \in (DeclaredIn(kinds, Opener(m)))', d \in (DeclaredIn(kinds, Opener(n)))' : c < d
      <4>1. /\ Opener(m)' = Opener(m) /\ Opener(m) # w
            /\ (DeclaredIn(kinds, Opener(m)))' = DeclaredIn(kinds, Opener(m))
        BY <1>2, <1>6, <1>7, <1>8
      <4>2. \A c \in DeclaredIn(kinds, Opener(m)), d \in D : c < d
        BY <2>2 DEF Nested, D
      <4>3. \A c \in DeclaredIn(kinds, Opener(m)) : c < new
        BY <1>5 DEF DeclaredIn
      <4> QED BY <2>2, <2>10, <4>1, <4>2, <4>3
    <3> QED BY <3>1 DEF Nested
  <2> QED BY <2>8, <2>9, <2>11
<1>11. \A l \in 1..Len(after) : l \in 1..(n - 1) \/ l = n
  BY <1>2
<1> QED BY <1>3, <1>9, <1>10, <1>11, MapLevelsNext

-----------------------------------------------------------------------------
(* Looking names up.                                                       *)

LEMMA MaxIs ==
  ASSUME NEW S, S \subseteq Int, NEW v \in S, \A x \in S : x <= v
  PROVE  Max(S) = v
<1>1. \A y \in S : v >= y
  OBVIOUS
<1>2. Max(S) \in S /\ \A y \in S : Max(S) >= y
  BY <1>1, Zenon DEF Max
<1>3. PICK m : m = Max(S)
  OBVIOUS
<1>4. m \in S /\ m >= v /\ v >= m
  BY <1>1, <1>2, <1>3, Zenon
<1>5. m \in Int /\ v \in Int
  BY <1>4
<1> QED BY <1>3, <1>4, <1>5

LEMMA MaxExists ==
  ASSUME NEW n \in Nat, NEW S, S \subseteq 1..n, S # {}
  PROVE  Max(S) \in S /\ \A x \in S : x <= Max(S)
<1> DEFINE T == {n - x : x \in S}
<1>1. T \subseteq Nat /\ T # {}
  <2>1. ASSUME NEW x \in S PROVE n - x \in Nat
    BY x \in 1..n
  <2>2. PICK x : x \in S
    OBVIOUS
  <2>3. n - x \in T
    BY <2>2
  <2>4. T \subseteq Nat
    BY <2>1, Zenon
  <2> HIDE DEF T
  <2> QED BY <2>3, <2>4
<1>2. PICK t \in T : \A m \in T : t <= m
  <2> HIDE DEF T
  <2> QED BY <1>1, LeastElement
<1>3. PICK v \in S : t = n - v
  OBVIOUS
<1>4. \A x \in S : x <= v
  <2>1. \A x \in S : n - x \in T
    OBVIOUS
  <2> HIDE DEF T
  <2> QED BY <1>2, <1>3, <2>1
<1>5. S \subseteq Int
  OBVIOUS
<1> QED BY <1>4, <1>5, MaxIs

\* The declarations of a name that the call at hand can see.
Seen(kinds, name) ==
  {d \in 1..Len(nodes) : /\ Kind(d) \in kinds
                         /\ nodes[d].name = name
                         /\ Owner(d) \in Ancestors[todo[1].at]}

\* The scopes the call at hand is in are those of the levels of the maps.
LEMMA OpenersAround ==
  ASSUME TreeInv, TodoInv, CallsInv, todo # <<>>, todo[1].do # "fundec"
  PROVE  /\ Len(Picked(todo, ScopeEnds)) \in Nat
         /\ \A l \in 1..(1 + Len(Picked(todo, ScopeEnds))) : Opener(l) = -1 \/ Opener(l) \in Ancestors[todo[1].at]
         /\ \A d \in 1..Len(nodes) : Kind(d) \in Declarations /\ Owner(d) \in Ancestors[todo[1].at] =>
              \E l \in 1..(1 + Len(Picked(todo, ScopeEnds))) : Opener(l) = Owner(d)
<1>1. PICK ends, at : ends = Picked(todo, ScopeEnds) /\ at = todo[1].at
  OBVIOUS
<1>2. todo \in Seq(Calling) /\ Len(todo) \in Nat \ {0} /\ 1 \in 1..Len(todo) /\ Len(nodes) \in Nat
  BY TreeNodes DEF TodoInv
<1>3. ends \in Seq(Calling) /\ Len(ends) \in Nat
  BY <1>1, <1>2, PickedFrom
<1>4. \A l : Opener(l) = IF l = 1 THEN 0
                         ELSE IF ends[Len(ends) + 2 - l].do = "leave exp" THEN -1 ELSE ends[Len(ends) + 2 - l].at
  BY <1>1 DEF Opener, Pending
<1>5. Placed(1) /\ at \in Nat /\ Enclosed(1)
  BY <1>1, <1>2, AllFit, Pendings DEF Fits
<1>6. at \in 0..Len(nodes) /\ Barriers(at) = Enders(1)
  BY <1>1, <1>2, <1>5 DEF Placed, Enclosed, Around
<1>7. 0 \in Ancestors[at]
  BY <1>6, TreeRooted, AncestorsBounded
<1>8. ScopeEnds \subseteq BarrierEnds \cup {"leave exp"} /\ BarrierEnds \subseteq ScopeEnds \cup {"leave while"}
  BY DEF ScopeEnds, BarrierEnds
<1>9. ASSUME NEW l \in 1..(1 + Len(ends)) PROVE Opener(l) = -1 \/ Opener(l) \in Ancestors[at]
  <2>1. CASE l = 1
    BY <1>4, <1>7, <2>1
  <2>2. CASE l # 1
    <3>1. PICK i : i = Len(ends) + 2 - l
      OBVIOUS
    <3>2. i \in 1..Len(ends)
      BY <1>3, <2>2, <3>1
    <3>3. ends[i].do \in ScopeEnds /\ \E j \in 1..Len(todo) : ends[i] = todo[j]
      BY <1>1, <1>2, <3>2, PickedFrom
    <3>4. PICK j \in 1..Len(todo) : ends[i] = todo[j]
      BY <3>3
    <3>5. CASE ends[i].do = "leave exp"
      BY <1>4, <2>2, <3>1, <3>5
    <3>6. CASE ends[i].do # "leave exp"
      <4>1. todo[j].do \in BarrierEnds
        BY <1>8, <3>3, <3>4, <3>6
      <4>2. todo[j].at \in Enders(1)
        BY <4>1 DEF Enders
      <4>3. todo[j].at \in Ancestors[at]
        BY <1>6, <4>2 DEF Barriers
      <4> QED BY <1>4, <2>2, <3>1, <3>4, <3>6, <4>3
    <3> QED BY <3>5, <3>6
  <2> QED BY <2>1, <2>2
<1>10. ASSUME NEW d \in 1..Len(nodes), Kind(d) \in Declarations, Owner(d) \in Ancestors[at]
       PROVE  \E l \in 1..(1 + Len(ends)) : Opener(l) = Owner(d)
  <2>1. CASE Owner(d) = 0
    <3>1. 1 \in 1..(1 + Len(ends))
      BY <1>3
    <3> QED BY <1>4, <2>1, <3>1
  <2>2. CASE Owner(d) # 0
    <3>1. Kind(Owner(d)) \in Barrier
      BY <1>10, <2>2 DEF TreeInv
    <3>2. Owner(d) \in Enders(1)
      BY <1>6, <1>10, <2>2, <3>1 DEF Barriers
    <3>3. PICK j \in 1..Len(todo) : todo[j].do \in BarrierEnds /\ todo[j].at = Owner(d)
      BY <3>2 DEF Enders
    <3>4. todo[j].do # "leave while"
      <4>1. d \in DeclaredIn(Declarations, todo[j].at)
        BY <1>10, <3>3 DEF DeclaredIn
      <4>2. Empty(j)
        BY AllFit DEF Fits
      <4> QED BY <4>1, <4>2 DEF Empty
    <3>5. todo[j].do \in ScopeEnds /\ todo[j].do # "leave exp"
      <4>1. "leave exp" \notin BarrierEnds
        BY DEF BarrierEnds
      <4> QED BY <1>8, <3>3, <3>4, <4>1
    <3>6. PICK i \in 1..Len(ends) : ends[i] = todo[j]
      <4>1. todo[j].do \in ScopeEnds
        BY <3>5
      <4> QED BY <1>1, <1>2, <4>1, PickedAll
    <3>7. PICK l : l = Len(ends) + 2 - i
      OBVIOUS
    <3>8. l \in 1..(1 + Len(ends)) /\ l # 1 /\ Len(ends) + 2 - l = i
      BY <1>3, <3>7
    <3> QED BY <1>4, <3>3, <3>5, <3>6, <3>8
  <2> QED BY <2>1, <2>2
<1> QED BY <1>1, <1>3, <1>9, <1>10

\* A scoped map finds the latest declaration of those that can be seen.
LEMMA LookedUp ==
  ASSUME TreeInv, TodoInv, CallsInv, todo # <<>>, todo[1].do # "fundec",
         NEW kinds, kinds \subseteq Declarations, NEW map, MapInv(map, kinds), NEW name
  PROVE  /\ get(map, name) = Innermost(Seen(kinds, name))
         /\ contains(map, name) <=> Seen(kinds, name) # {}
<1>1. PICK n, S, D : n = 1 + Len(Picked(todo, ScopeEnds)) /\ S = Seen(kinds, name) /\ D = Defining(map, name)
  OBVIOUS
<1>2. /\ n \in Nat \ {0} /\ Len(map) = n
      /\ \A l \in 1..n : Holds(map[l], kinds, Opener(l)) /\ Nested(kinds, l)
  <2>1. Len(map) = n /\ \A l \in 1..n : Holds(map[l], kinds, Opener(l)) /\ Nested(kinds, l)
    BY <1>1, MapLevels DEF Pending
  <2> QED BY <1>1, <2>1, OpenersAround
<1>3. D = {l \in 1..n : name \in DOMAIN map[l]}
  BY <1>1, <1>2 DEF Defining
<1>4. S \subseteq 1..Len(nodes) /\ Len(nodes) \in Nat
  BY <1>1, TreeNodes DEF Seen
<1>5. ASSUME NEW l \in D PROVE map[l][name] \in S /\ map[l][name] \in DeclaredIn(kinds, Opener(l))
  <2>1. l \in 1..n /\ name \in DOMAIN map[l] /\ Holds(map[l], kinds, Opener(l))
    BY <1>2, <1>3
  <2>2. map[l][name] \in DeclaredIn(kinds, Opener(l)) /\ nodes[map[l][name]].name = name
    BY <2>1 DEF Holds
  <2>3. PICK d : d = map[l][name]
    OBVIOUS
  <2>4. d \in 1..Len(nodes) /\ Kind(d) \in kinds /\ Owner(d) = Opener(l) /\ nodes[d].name = name
    BY <2>2, <2>3 DEF DeclaredIn
  <2>5. Owner(d) # -1
    BY <2>4, TreeNodes
  <2>6. Owner(d) \in Ancestors[todo[1].at]
    BY <1>1, <2>1, <2>4, <2>5, OpenersAround
  <2> QED BY <1>1, <2>2, <2>3, <2>4, <2>6 DEF Seen
<1>6. ASSUME NEW d \in S
      PROVE  \E l \in D : d \in DeclaredIn(kinds, Opener(l)) /\ d <= map[l][name]
  <2>1. d \in 1..Len(nodes) /\ Kind(d) \in kinds /\ nodes[d].name = name /\ Owner(d) \in Ancestors[todo[1].at]
    BY <1>1 DEF Seen
  <2>2. PICK l \in 1..n : Opener(l) = Owner(d)
    BY <1>1, <2>1, OpenersAround
  <2>3. d \in DeclaredIn(kinds, Opener(l))
    BY <2>1, <2>2 DEF DeclaredIn
  <2>4. name \in DOMAIN map[l] /\ d <= map[l][name]
    BY <1>2, <2>1, <2>3 DEF Holds
  <2> QED BY <1>3, <2>3, <2>4
<1>7. contains(map, name) <=> S # {}
  BY <1>1, <1>5, <1>6 DEF contains
<1>8. CASE D = {}
  <2>1. S = {}
    BY <1>6, <1>8
  <2>2. get(map, name) = NoPointer
    BY <1>1, <1>8 DEF get
  <2> QED BY <1>1, <1>7, <2>1, <2>2 DEF Innermost
<1>9. CASE D # {}
  <2>1. PICK l, v : l = Max(D) /\ v = map[l][name]
    OBVIOUS
  <2>2. l \in D /\ \A m \in D : m <= l
    <3>1. D \subseteq 1..n /\ n \in Nat
      BY <1>2, <1>3
    <3> QED BY <1>9, <2>1, <3>1, MaxExists
  <2>3. v \in S /\ v \in DeclaredIn(kinds, Opener(l))
    BY <1>5, <2>1, <2>2
  <2>4. ASSUME NEW d \in S PROVE d <= v
    <3>1. PICK m \in D : d \in DeclaredIn(kinds, Opener(m)) /\ d <= map[m][name]
      BY <1>6
    <3>2. CASE m = l
      BY <2>1, <3>1, <3>2
    <3>3. CASE m # l
      <4>1. m \in 1..(l - 1) /\ l \in 1..n
        BY <1>2, <1>3, <2>2, <3>3
      <4>2. d < v
        BY <1>2, <2>3, <3>1, <4>1 DEF Nested
      <4> QED BY <1>4, <2>3, <4>2
    <3> QED BY <3>2, <3>3
  <2>5. Max(S) = v
    <3>1. S \subseteq Int
      BY <1>4
    <3> QED BY <2>3, <2>4, <3>1, MaxIs
  <2>6. get(map, name) = v
    BY <1>1, <1>9, <2>1 DEF get
  <2> QED BY <1>1, <1>7, <2>3, <2>5, <2>6 DEF Innermost
<1> QED BY <1>8, <1>9


-----------------------------------------------------------------------------
(* The tree after a step.                                                  *)

\* These nodes are added, each below one that is there.
Grows(added) ==
  /\ added \in Seq(Planting)
  /\ nodes' = nodes \o added
  /\ \A i \in 1..Len(added) :
       /\ added[i].in < Len(nodes) + i /\ added[i].def < Len(nodes) + i
       /\ added[i].kind \in Declarations =>
            /\ added[i].name \in Key /\ added[i].in <= Len(nodes)
            /\ IF added[i].kind \in Variables
               THEN added[i].in = 0 \/ Kind(added[i].in) \in Barrier
               ELSE /\ added[i].in > 0 /\ Kind(added[i].in) = "chunk"
                    /\ nodes[added[i].in].in = 0 \/ Kind(nodes[added[i].in].in) \in Barrier

LEMMA TreeGrows ==
  ASSUME TreeInv, NEW added, Grows(added)
  PROVE  /\ TreeInv' /\ Extended
         /\ Len(nodes') = Len(nodes) + Len(added) /\ Len(added) \in Nat
         /\ \A i \in 1..Len(added) : nodes'[Len(nodes) + i] = added[i]
<1>1. PICK n : n = Len(nodes)
  OBVIOUS
<1>2. /\ nodes \in Seq(Planting) /\ n \in Nat /\ added \in Seq(Planting) /\ Len(added) \in Nat
      /\ \A i \in 1..n : nodes[i] \in Planting
      /\ \A i \in 1..Len(added) : added[i] \in Planting
  BY <1>1 DEF TreeInv, Grows
<1>3. /\ nodes' \in Seq(Planting) /\ Len(nodes') = n + Len(added)
      /\ \A i \in 1..n : nodes'[i] = nodes[i]
      /\ \A i \in 1..Len(added) : nodes'[n + i] = added[i]
  BY <1>1, <1>2 DEF Grows
<1>4. \A i \in 1..Len(nodes') : i \in 1..n \/ \E k \in 1..Len(added) : i = n + k
  <2>1. SUFFICES ASSUME NEW i \in 1..Len(nodes'), i \notin 1..n
                 PROVE  \E k \in 1..Len(added) : i = n + k
    OBVIOUS
  <2>2. i - n \in 1..Len(added) /\ i = n + (i - n)
    BY <1>2, <1>3, <2>1
  <2> QED BY <2>2
<1>5. Rooted
  BY TreeRooted
<1>6. Rooted'
  <2>1. ASSUME NEW i \in 1..Len(nodes') PROVE nodes'[i].in \in 0..(i - 1)
    <3>1. CASE i \in 1..n
      BY <1>1, <1>3, <1>5, <3>1 DEF Rooted
    <3>2. ASSUME NEW k \in 1..Len(added), i = n + k PROVE nodes'[i].in \in 0..(i - 1)
      <4>1. added[k].in \in Nat /\ added[k].in < n + k /\ nodes'[n + k] = added[k]
        BY <1>1, <1>2, <1>3 DEF Grows, Planting
      <4> QED BY <1>2, <3>2, <4>1
    <3> QED BY <1>4, <3>1, <3>2
  <2> QED BY <1>2, <1>3, <2>1 DEF Rooted
<1>7. Extended
  BY <1>1, <1>2, <1>3, <1>5, <1>6 DEF Extended
<1>8. \A i \in 1..Len(nodes) : nodes[i].in \in 0..(i - 1) /\ nodes[i].def \in 0..(i - 1)
  BY TreeNodes
<1>9. ASSUME NEW i \in 1..Len(nodes')
      PROVE  /\ nodes'[i].in < i /\ nodes'[i].def < i
             /\ Kind(i)' \in Declarations => nodes'[i].name \in Key
             /\ Kind(i)' \in {"function", "type"} =>
                  nodes'[i].in > 0 /\ nodes'[nodes'[i].in].kind = "chunk"
             /\ Kind(i)' \in Declarations =>
                  \E o : Owner(i)' = o /\ (o = 0 \/ (o \in 1..Len(nodes') /\ Kind(o)' \in Barrier))
  <2>0. /\ \A p \in 1..n : p \in 1..Len(nodes') /\ Kind(p)' = Kind(p) /\ nodes'[p] = nodes[p]
        /\ Declarations = Variables \cup {"function", "type"} /\ Variables \cap {"function", "type"} = {}
    BY <1>1, <1>2, <1>3 DEF Kind, Declarations, Variables
  <2>1. CASE i \in 1..n
    <3>1. i \in 1..Len(nodes) /\ nodes'[i] = nodes[i] /\ Kind(i)' = Kind(i)
      BY <1>1, <1>3, <2>0, <2>1
    <3>2. nodes'[i].in < i /\ nodes'[i].def < i /\ (Kind(i)' \in Declarations => nodes'[i].name \in Key)
      BY <3>1 DEF TreeInv
    <3>3. ASSUME Kind(i)' \in {"function", "type"} PROVE nodes'[i].in > 0 /\ nodes'[nodes'[i].in].kind = "chunk"
      <4>1. PICK p : p = nodes[i].in
        OBVIOUS
      <4>2. p > 0 /\ Kind(p) = "chunk" /\ p \in 1..n
        BY <1>1, <3>1, <3>3, <4>1, TreeNodes DEF TreeInv
      <4> QED BY <2>0, <3>1, <4>1, <4>2 DEF Kind
    <3>4. ASSUME Kind(i)' \in Declarations
          PROVE  \E o : Owner(i)' = o /\ (o = 0 \/ (o \in 1..Len(nodes') /\ Kind(o)' \in Barrier))
      <4>1. PICK o : o = Owner(i)
        OBVIOUS
      <4>2. o = 0 \/ (o \in 1..n /\ Kind(o) \in Barrier)
        BY <1>1, <3>1, <3>4, <4>1 DEF TreeInv
      <4>3. Owner(i)' = o
        BY <1>7, <3>1, <3>4, <4>1, TreeKept
      <4> QED BY <2>0, <4>2, <4>3
    <3> QED BY <3>2, <3>3, <3>4
  <2>2. CASE i \notin 1..n
    <3>1. PICK k \in 1..Len(added) : i = n + k
      BY <1>4, <2>2
    <3>2. nodes'[i] = added[k] /\ Kind(i)' = added[k].kind
      BY <1>3, <3>1 DEF Kind
    <3>3. PICK p : p = added[k].in
      OBVIOUS
    <3>4. /\ p < i /\ added[k].def < i /\ p \in Nat
          /\ added[k].kind \in Declarations =>
               /\ added[k].name \in Key /\ p <= n
               /\ IF added[k].kind \in Variables
                  THEN p = 0 \/ Kind(p) \in Barrier
                  ELSE /\ p > 0 /\ Kind(p) = "chunk"
                       /\ nodes[p].in = 0 \/ Kind(nodes[p].in) \in Barrier
      BY <1>1, <1>2, <3>1, <3>3 DEF Grows, Planting
    <3>5. ASSUME Kind(i)' \in {"function", "type"} PROVE p > 0 /\ nodes'[p].kind = "chunk" /\ p \in 1..n
      <4>1. p > 0 /\ p <= n /\ Kind(p) = "chunk"
        BY <2>0, <3>2, <3>4, <3>5
      <4>2. p \in 1..n
        BY <3>4, <4>1, <1>2
      <4> QED BY <2>0, <4>1, <4>2 DEF Kind
    <3>6. ASSUME Kind(i)' \in Declarations
          PROVE  \E o : Owner(i)' = o /\ (o = 0 \/ (o \in 1..Len(nodes') /\ Kind(o)' \in Barrier))
      <4>1. CASE Kind(i)' \in Variables
        <5>1. Owner(i)' = p
          BY <3>2, <3>3, <4>1 DEF Owner, Variables
        <5>2. p = 0 \/ (p \in 1..n /\ Kind(p) \in Barrier)
          BY <1>2, <3>2, <3>4, <3>6, <4>1
        <5> QED BY <2>0, <5>1, <5>2
      <4>2. CASE Kind(i)' \notin Variables
        <5>1. Kind(i)' \in {"function", "type"}
          BY <2>0, <3>6, <4>2
        <5>2. PICK q : q = nodes[p].in
          OBVIOUS
        <5>3. Owner(i)' = q
          <6>1. Owner(i)' = nodes'[p].in
            BY <3>2, <3>3, <4>2 DEF Owner, Variables
          <6> QED BY <2>0, <3>5, <5>1, <5>2, <6>1
        <5>4. q = 0 \/ Kind(q) \in Barrier
          BY <3>2, <3>4, <3>6, <4>2, <5>2
        <5>5. q \in 0..n
          BY <1>1, <1>8, <3>5, <5>1, <5>2
        <5>6. q = 0 \/ (q \in 1..n /\ Kind(q) \in Barrier)
          BY <5>4, <5>5
        <5> QED BY <2>0, <5>3, <5>6
      <4> QED BY <4>1, <4>2
    <3> QED BY <3>2, <3>3, <3>4, <3>5, <3>6
  <2> QED BY <2>1, <2>2
<1>10. \A i \in 1..Len(nodes') : Kind(i)' \in {"function", "type"} => (Kind(nodes[i].in))' = "chunk"
  BY <1>9 DEF Kind
<1>11. \A i \in 1..Len(nodes') : Kind(i)' \in Declarations =>
         Owner(i)' = 0 \/ (Owner(i)' \in 1..Len(nodes') /\ (Kind(Owner(i)))' \in Barrier)
  BY <1>9 DEF Kind
<1>12. TreeInv'
  BY <1>3, <1>9, <1>10, <1>11 DEF TreeInv, Barrier, Declarations, Planting
<1> QED BY <1>1, <1>2, <1>3, <1>7, <1>12

-----------------------------------------------------------------------------
(* What has been bound stays so.                                           *)

LEMMA VisibleKept ==
  ASSUME TreeInv, Extended, NEW kinds, kinds \subseteq Declarations, NEW i \in 1..Len(nodes)
  PROVE  Visible(i, kinds)' = Visible(i, kinds)
<1>1. /\ Len(nodes) \in Nat
      /\ \A d \in 1..Len(nodes) : /\ nodes'[d] = nodes[d] /\ Kind(d)' = Kind(d)
                                  /\ Kind(d) \in Declarations => Owner(d)' = Owner(d)
  BY TreeKept
<1>2. Ancestors'[i] = Ancestors[i]
  BY <1>1, SameAncestors
<1>3. ASSUME NEW d \in 1..(i - 1)
      PROVE  (Kind(d)' \in kinds /\ nodes'[d].name = nodes'[i].name /\ Owner(d)' \in Ancestors'[i])
               <=> (Kind(d) \in kinds /\ nodes[d].name = nodes[i].name /\ Owner(d) \in Ancestors[i])
  <2>1. d \in 1..Len(nodes)
    BY <1>1
  <2>2. CASE Kind(d) \in kinds
    <3>1. Owner(d)' = Owner(d)
      BY <1>1, <2>1, <2>2
    <3> QED BY <1>1, <1>2, <2>1, <3>1
  <2>3. CASE Kind(d) \notin kinds
    BY <1>1, <2>1, <2>3
  <2> QED BY <2>2, <2>3
<1>4. Visible(i, kinds)' = {d \in 1..(i - 1) : Kind(d)' \in kinds /\ nodes'[d].name = nodes'[i].name /\ Owner(d)' \in Ancestors'[i]}
  BY DEF Visible
<1> QED BY <1>3, <1>4 DEF Visible

\* A new node sees what the call at hand does.
LEMMA VisibleNew ==
  ASSUME TreeInv, Extended, NEW kinds, kinds \subseteq Declarations,
         NEW new, new = This, new \in 1..Len(nodes'), todo[1].at \in 0..Len(nodes),
         nodes'[new].in = todo[1].at
  PROVE  Visible(new, kinds)' = Seen(kinds, nodes'[new].name)
<1>1. /\ Len(nodes) \in Nat
      /\ \A d \in 1..Len(nodes) : /\ nodes'[d] = nodes[d] /\ Kind(d)' = Kind(d)
                                  /\ Kind(d) \in Declarations => Owner(d)' = Owner(d)
  BY TreeKept
<1>2. PICK at : at = todo[1].at
  OBVIOUS
<1>3. Ancestors'[new] = {new} \cup Ancestors[at]
  <2>1. Rooted' /\ Rooted
    BY DEF Extended
  <2>2. Ancestors'[new] = {new} \cup Ancestors'[at]
    <3>1. new \in 0..Len(nodes') /\ new # 0
      BY <1>1 DEF This
    <3> QED BY <1>2, <2>1, <3>1, AncestorsDefNext
  <2>3. Ancestors'[at] = Ancestors[at]
    BY <1>2, SameAncestors
  <2> QED BY <2>2, <2>3
<1>4. ASSUME NEW d \in 1..Len(nodes)
      PROVE  (Kind(d)' \in kinds /\ nodes'[d].name = nodes'[new].name /\ Owner(d)' \in Ancestors'[new])
               <=> (Kind(d) \in kinds /\ nodes[d].name = nodes'[new].name /\ Owner(d) \in Ancestors[at])
  <2>1. CASE Kind(d) \in kinds
    <3>1. Owner(d)' = Owner(d) /\ Owner(d) # new
      BY <1>1, <2>1, TreeNodes DEF This
    <3> QED BY <1>1, <1>3, <3>1
  <2>2. CASE Kind(d) \notin kinds
    BY <1>1, <2>2
  <2> QED BY <2>1, <2>2
<1>5. 1..(new - 1) = 1..Len(nodes)
  BY <1>1 DEF This
<1>6. Visible(new, kinds)' = {d \in 1..(new - 1) : Kind(d)' \in kinds /\ nodes'[d].name = nodes'[new].name /\ Owner(d)' \in Ancestors'[new]}
  BY DEF Visible
<1> QED BY <1>2, <1>4, <1>5, <1>6 DEF Seen

\* A node that is a use is bound as it should be, ...
Bound(i) ==
  /\ Kind(i) = "variable" => nodes[i].def = Innermost(Visible(i, Variables))
  /\ Kind(i) = "call" => nodes[i].def = Innermost(Visible(i, {"function"}))
  /\ Kind(i) = "type name" => nodes[i].def = Innermost(Visible(i, {"type"}))
  /\ Kind(i) = "break" =>
       nodes[i].def = IF Innermost(Barriers(i)) # NoPointer /\ Kind(Innermost(Barriers(i))) = "loop"
                      THEN Innermost(Barriers(i)) ELSE NoPointer

\* ... and one that must be new in its scope is, or is diagnosed.
Fresh(i) ==
  Kind(i) \in {"function", "type"} =>
    (Visible(i, {Kind(i)}) # {} <=>
       /\ i = Len(nodes)
       /\ outcome = (IF Kind(i) = "type" THEN "duplicated type" ELSE "duplicated function"))

UsesInv == \A i \in 1..Len(nodes) : Bound(i) /\ Fresh(i)

LEMMA UsesBound ==
  UsesInv <=> BoundLexically /\ RejectsVisibleNames /\ BreakInnermost
BY DEF UsesInv, Bound, Fresh, BoundLexically, RejectsVisibleNames, BreakInnermost, Barriers

LEMMA UsesBoundNext ==
  (UsesInv)' <=> (BoundLexically /\ RejectsVisibleNames /\ BreakInnermost)'
BY UsesBound, PTL

\* The nodes that were there are as they were, while the visit goes on ...
LEMMA UsesKept ==
  ASSUME TreeInv, Extended, UsesInv, outcome = "visiting",
         outcome' \in {"visiting", "bound"} \/ Len(nodes) < Len(nodes')
  PROVE  \A i \in 1..Len(nodes) : Bound(i)' /\ Fresh(i)'
<1> SUFFICES ASSUME NEW i \in 1..Len(nodes) PROVE Bound(i)' /\ Fresh(i)'
  OBVIOUS
<1>1. /\ Len(nodes) \in Nat /\ Len(nodes') \in Nat
      /\ nodes'[i] = nodes[i] /\ Kind(i)' = Kind(i) /\ Barriers(i)' = Barriers(i)
  BY TreeKept
<1>2. /\ Variables \subseteq Declarations
      /\ {"function"} \subseteq Declarations /\ {"type"} \subseteq Declarations
  BY DEF Variables, Declarations
<1>3. /\ Visible(i, Variables)' = Visible(i, Variables)
      /\ Visible(i, {"function"})' = Visible(i, {"function"})
      /\ Visible(i, {"type"})' = Visible(i, {"type"})
  BY <1>2, VisibleKept DEF Variables
<1>4. Bound(i) /\ Fresh(i)
  BY DEF UsesInv
<1>5. Bound(i)'
  <2>1. ASSUME Kind(i)' = "break"
        PROVE  nodes'[i].def = IF Innermost(Barriers(i))' # NoPointer /\ Kind(Innermost(Barriers(i)))' = "loop"
                               THEN Innermost(Barriers(i))' ELSE NoPointer
    <3>1. PICK a : a = Innermost(Barriers(i))
      OBVIOUS
    <3>2. Innermost(Barriers(i))' = a
      BY <1>1, <3>1 DEF Innermost
    <3>3. nodes[i].def = IF a # NoPointer /\ Kind(a) = "loop" THEN a ELSE NoPointer
      BY <1>1, <1>4, <2>1, <3>1 DEF Bound
    <3>4. a # NoPointer => a \in 1..Len(nodes)
      <4>1. Barriers(i) \subseteq 1..Len(nodes)
        <5>1. Ancestors[i] \subseteq 0..i
          BY TreeRooted, AncestorsBounded, <1>1
        <5> QED BY <5>1, <1>1 DEF Barriers
      <4>2. CASE Barriers(i) = {}
        BY <3>1, <4>2 DEF Innermost
      <4>3. CASE Barriers(i) # {}
        BY <1>1, <3>1, <4>1, <4>3, MaxExists DEF Innermost
      <4> QED BY <4>2, <4>3
    <3>5. a # NoPointer => Kind(a)' = Kind(a)
      BY <3>4, TreeKept
    <3>6. Kind(Innermost(Barriers(i)))' = Kind(a)'
      BY <3>2 DEF Kind
    <3> QED BY <1>1, <3>2, <3>3, <3>5, <3>6
  <2>2. /\ Kind(i)' = "variable" => nodes'[i].def = Innermost(Visible(i, Variables))'
        /\ Kind(i)' = "call" => nodes'[i].def = Innermost(Visible(i, {"function"}))'
        /\ Kind(i)' = "type name" => nodes'[i].def = Innermost(Visible(i, {"type"}))'
    BY <1>1, <1>3, <1>4 DEF Bound, Innermost
  <2> QED BY <2>1, <2>2 DEF Bound
<1>6. Fresh(i)'
  <2>1. SUFFICES ASSUME Kind(i)' \in {"function", "type"}
                 PROVE  /\ Visible(i, {Kind(i)})' = {}
                        /\ ~(i = Len(nodes') /\ outcome' = (IF Kind(i)' = "type" THEN "duplicated type" ELSE "duplicated function"))
    BY DEF Fresh
  <2>2. Visible(i, {Kind(i)})' = Visible(i, {Kind(i)})
    <3>1. Visible(i, {Kind(i)})' = Visible(i, {"function"})' \/ Visible(i, {Kind(i)})' = Visible(i, {"type"})'
      BY <2>1 DEF Visible
    <3> QED BY <1>1, <1>3, <2>1 DEF Visible
  <2>3. Visible(i, {Kind(i)}) = {}
    BY <1>1, <1>4, <2>1 DEF Fresh
  <2>4. ~(i = Len(nodes') /\ outcome' = (IF Kind(i)' = "type" THEN "duplicated type" ELSE "duplicated function"))
    <3>1. CASE Len(nodes) < Len(nodes')
      <4>1. i # Len(nodes')
        BY <1>1, <3>1
      <4> QED BY <4>1, Zenon
    <3>2. CASE outcome' \in {"visiting", "bound"}
      <4>1. outcome' \notin {"duplicated type", "duplicated function"}
        BY <3>2
      <4> QED BY <4>1
    <3> QED BY <3>1, <3>2
  <2> QED BY <2>2, <2>3, <2>4
<1> QED BY <1>5, <1>6

-----------------------------------------------------------------------------
(* The stack of loops.                                                     *)

\* From the call to be left last to the one to be left first.
Nodes(ends) == Reverse([i \in 1..Len(ends) |-> ends[i].at])

LEMMA NodesOf ==
  ASSUME NEW ends \in Seq(Calling)
  PROVE  /\ Nodes(ends) \in Seq(Nat) /\ Len(ends) \in Nat /\ Len(Nodes(ends)) = Len(ends)
         /\ \A i \in 1..Len(ends) : Nodes(ends)[i] = ends[Len(ends) - i + 1].at
<1>1. Len(ends) \in Nat /\ \A i \in 1..Len(ends) : ends[i].at \in Nat
  <2>1. Len(ends) \in Nat /\ \A i \in 1..Len(ends) : ends[i] \in Calling
    OBVIOUS
  <2>2. \A c \in Calling : c.at \in Nat
    BY DEF Calling
  <2> QED BY <2>1, <2>2
<1> DEFINE s == [i \in 1..Len(ends) |-> ends[i].at]
<1>2. s \in Seq(Nat) /\ Len(s) = Len(ends) /\ \A i \in 1..Len(ends) : s[i] = ends[i].at
  BY <1>1
<1> HIDE DEF s
<1>3. Nodes(ends) = [i \in 1..Len(s) |-> s[(Len(s) - i) + 1]]
  BY DEF Nodes, Reverse, s
<1>4. \A i \in 1..Len(ends) : (Len(ends) - i) + 1 \in 1..Len(ends)
  BY <1>1
<1>5. PICK t : t = Nodes(ends)
  OBVIOUS
<1>6. t = [i \in 1..Len(ends) |-> s[(Len(ends) - i) + 1]]
  BY <1>2, <1>3, <1>5
<1>7. \A i \in 1..Len(ends) : t[i] = ends[(Len(ends) - i) + 1].at /\ t[i] \in Nat
  BY <1>1, <1>2, <1>4, <1>6
<1>8. t \in Seq(Nat) /\ Len(t) = Len(ends)
  <2>1. t \in [1..Len(ends) -> Nat]
    BY <1>6, <1>7
  <2> QED BY <1>1, <2>1
<1> QED BY <1>1, <1>5, <1>7, <1>8

LEMMA NodesMore ==
  ASSUME NEW ends \in Seq(Calling), NEW c \in Calling
  PROVE  Nodes(<<c>> \o ends) = Append(Nodes(ends), c.at)
<1>1. PICK n, more, v : n = Len(ends) /\ more = <<c>> \o ends /\ v = Nodes(ends)
  OBVIOUS
<1>2. /\ more \in Seq(Calling) /\ n \in Nat /\ Len(more) = n + 1 /\ more[1] = c
      /\ \A i \in 1..n : more[i + 1] = ends[i]
  BY <1>1
<1>3. v \in Seq(Nat) /\ Len(v) = n /\ \A i \in 1..n : v[i] = ends[n - i + 1].at
  BY <1>1, NodesOf
<1>4. /\ Nodes(more) \in Seq(Nat) /\ Len(Nodes(more)) = n + 1
      /\ \A i \in 1..(n + 1) : Nodes(more)[i] = more[(n + 1) - i + 1].at
  BY <1>2, NodesOf
<1>5. c.at \in Nat
  BY DEF Calling
<1>6. /\ Append(v, c.at) \in Seq(Nat) /\ Len(Append(v, c.at)) = n + 1
      /\ \A i \in 1..n : Append(v, c.at)[i] = v[i]
      /\ Append(v, c.at)[n + 1] = c.at
  BY <1>3, <1>5
<1>7. ASSUME NEW i \in 1..(n + 1) PROVE Nodes(more)[i] = Append(v, c.at)[i]
  <2>1. CASE i = n + 1
    <3>1. (n + 1) - i + 1 = 1
      BY <1>2, <2>1
    <3> QED BY <1>2, <1>4, <1>6, <2>1, <3>1
  <2>2. CASE i # n + 1
    <3>1. PICK k : k = n - i + 1
      OBVIOUS
    <3>2. i \in 1..n /\ k \in 1..n /\ (n + 1) - i + 1 = k + 1
      BY <1>2, <2>2, <3>1
    <3>3. Nodes(more)[i] = ends[k].at
      BY <1>2, <1>4, <3>2
    <3> QED BY <1>3, <1>6, <3>1, <3>2, <3>3
  <2> QED BY <2>1, <2>2
<1>8. Nodes(more) = Append(v, c.at)
  BY <1>4, <1>6, <1>7, SeqEqual
<1> QED BY <1>1, <1>8

LEMMA NodesLast ==
  ASSUME NEW ends \in Seq(Calling), NEW c \in Calling
  PROVE  /\ Nodes(<<c>> \o ends) # <<>>
         /\ Last(Nodes(<<c>> \o ends)) = c.at
         /\ Front(Nodes(<<c>> \o ends)) = Nodes(ends)
<1>1. PICK v : v = Nodes(ends)
  OBVIOUS
<1>2. v \in Seq(Nat) /\ c.at \in Nat
  BY <1>1, NodesOf DEF Calling
<1>3. PICK s : s = Append(v, c.at)
  OBVIOUS
<1>4. /\ s \in Seq(Nat) /\ Len(v) \in Nat /\ Len(s) = Len(v) + 1 /\ s # <<>> /\ s[Len(s)] = c.at
      /\ \A i \in 1..Len(v) : s[i] = v[i]
  BY <1>2, <1>3
<1>5. Front(s) = v
  <2>1. Front(s) = [i \in 1..(Len(s) - 1) |-> s[i]]
    BY DEF Front
  <2> QED BY <1>2, <1>4, <2>1
<1> QED BY <1>1, <1>3, <1>4, <1>5, NodesMore DEF Last

LEMMA LoopsAre ==
  LoopsInv <=> loops_ = Nodes(Picked(todo, LoopEnds))
BY DEF LoopsInv, Nodes, Pending

LEMMA LoopsAreNext ==
  (LoopsInv)' <=> loops_' = Nodes(Picked(todo', LoopEnds))
BY DEF LoopsInv, Nodes, Pending, LoopEnds, Picked, Picks, Reverse

-----------------------------------------------------------------------------
(* The three maps together.                                                *)

LEMMA OwnRange ==
  ASSUME NEW S, NEW s \in Seq(S)
  PROVE  s \in Seq(Range(s))
<1>1. Len(s) \in Nat /\ s \in [1..Len(s) -> S] /\ DOMAIN s = 1..Len(s)
  OBVIOUS
<1>2. \A i \in 1..Len(s) : s[i] \in Range(s)
  BY <1>1 DEF Range
<1>3. s \in [1..Len(s) -> Range(s)]
  BY <1>1, <1>2
<1> QED BY <1>1, <1>3

LEMMA StackBegins ==
  ASSUME NEW map, map \in Seq(Range(map)), NEW after, after = scope_begin(map)
  PROVE  /\ after \in Seq(Range(after)) /\ Len(map) \in Nat /\ Len(after) = Len(map) + 1
         /\ \A l \in 1..Len(map) : after[l] = map[l]
<1>1. PICK S, x : S = Range(map) \cup {x} /\ after = Append(map, x)
  BY DEF scope_begin
<1>2. map \in Seq(S) /\ x \in S
  BY <1>1
<1>3. /\ after \in Seq(S) /\ Len(map) \in Nat /\ Len(after) = Len(map) + 1
      /\ \A l \in 1..Len(map) : after[l] = map[l]
  BY <1>1, <1>2
<1> QED BY <1>3, OwnRange

LEMMA StackEnds ==
  ASSUME NEW map, map \in Seq(Range(map)), Len(map) > 0, NEW after, after = scope_end(map)
  PROVE  /\ after \in Seq(Range(after)) /\ Len(map) \in Nat /\ Len(after) = Len(map) - 1
         /\ \A l \in 1..Len(after) : after[l] = map[l]
<1>1. PICK S : S = Range(map)
  OBVIOUS
<1>2. map \in Seq(S) /\ after = SubSeq(map, 1, Len(map) - 1) /\ Len(map) \in Nat
  BY <1>1 DEF scope_end, Front
<1>3. after = [l \in 1..(Len(map) - 1) |-> map[l]]
  BY <1>2
<1>4. after \in Seq(S) /\ Len(after) = Len(map) - 1
  <2>1. Len(map) - 1 \in Nat
    BY <1>2
  <2>2. PICK n : n = Len(map) - 1
    OBVIOUS
  <2>3. \A l \in 1..n : map[l] \in S
    BY <1>2, <2>2
  <2>4. after \in [1..n -> S] /\ n \in Nat
    BY <1>3, <2>1, <2>2, <2>3
  <2>5. after \in Seq(S) /\ Len(after) = n
    BY <2>4
  <2> QED BY <2>2, <2>5
<1> QED BY <1>2, <1>3, <1>4, OwnRange

LEMMA StackPuts ==
  ASSUME NEW map, map \in Seq(Range(map)), Len(map) > 0, NEW name, NEW v,
         NEW after, after = put(map, name, v)
  PROVE  after \in Seq(Range(after))
<1>1. PICK x : after = [map EXCEPT ![Len(map)] = x]
  BY DEF put
<1>2. PICK S : S = Range(map) \cup {x}
  OBVIOUS
<1>3. map \in Seq(S) /\ x \in S /\ Len(map) \in 1..Len(map)
  BY <1>2
<1>4. after \in Seq(S)
  BY <1>1, <1>3
<1> QED BY <1>4, OwnRange

Spaces == {Variables, {"function"}, {"type"}}

LEMMA SpacesAre ==
  /\ \A kinds \in Spaces : kinds \subseteq Declarations
  /\ Variables \in Spaces /\ {"function"} \in Spaces /\ {"type"} \in Spaces
BY DEF Spaces, Variables, Declarations

LEMMA MapsNext ==
  (MapsInv)' <=> /\ map_vardec_' \in Seq(Range(map_vardec_')) /\ map_fundec_' \in Seq(Range(map_fundec_'))
                 /\ map_typedec_' \in Seq(Range(map_typedec_'))
                 /\ MapInv(map_vardec_, Variables)'
                 /\ MapInv(map_fundec_, {"function"})'
                 /\ MapInv(map_typedec_, {"type"})'
BY DEF MapsInv, MapInv, Variables, Range

LEMMA MapsHave ==
  ASSUME TodoInv, MapsInv
  PROVE  /\ MapInv(map_vardec_, Variables) /\ MapInv(map_fundec_, {"function"})
         /\ MapInv(map_typedec_, {"type"})
         /\ Len(Picked(todo, ScopeEnds)) \in Nat
         /\ \A map \in {map_vardec_, map_fundec_, map_typedec_} :
              map \in Seq(Range(map)) /\ Len(map) = 1 + Len(Picked(todo, ScopeEnds)) /\ Len(map) > 0
<1>1. todo \in Seq(Calling)
  BY DEF TodoInv
<1>2. Len(Picked(todo, ScopeEnds)) \in Nat
  BY <1>1, PickedFrom
<1>3. \A map \in {map_vardec_, map_fundec_, map_typedec_} : Len(map) = 1 + Len(Picked(todo, ScopeEnds))
  BY DEF MapsInv, MapInv, Pending
<1> QED BY <1>2, <1>3 DEF MapsInv

\* Nothing is declared ...
Undeclared == \A d \in (Len(nodes) + 1)..Len(nodes') : Kind(d)' \notin Declarations

LEMMA UndeclaredKept ==
  ASSUME TreeInv, Extended, Undeclared
  PROVE  /\ \A kinds \in Spaces : \A o : DeclaredIn(kinds, o)' = DeclaredIn(kinds, o)
         /\ \A o : DeclaredIn(Declarations, o)' = DeclaredIn(Declarations, o)
<1>1. ASSUME NEW kinds, kinds \subseteq Declarations, NEW o
      PROVE  DeclaredIn(kinds, o)' = DeclaredIn(kinds, o)
  BY <1>1, DeclaredKept DEF Undeclared
<1> QED BY <1>1, SpacesAre

LEMMA OneMapKept ==
  ASSUME TreeInv, TodoInv, Extended, NEW kinds, kinds \subseteq Declarations,
         NEW map, NEW after, MapInv(map, kinds), after = map,
         \A o : DeclaredIn(kinds, o)' = DeclaredIn(kinds, o),
         Picked(todo', ScopeEnds) = Picked(todo, ScopeEnds)
  PROVE  MapInv(after, kinds)'
<1>1. Len(map) = 1 + Len(Picked(todo, ScopeEnds))
  BY DEF MapInv, Pending
<1>2. Len(Picked(todo, ScopeEnds)) \in Nat
  <2>1. todo \in Seq(Calling)
    BY DEF TodoInv
  <2> QED BY <2>1, PickedFrom
<1>3. \A l : Opener(l)' = Opener(l)
  BY OpenersKept
<1>4. Len(after) = 1 + Len(Picked(todo', ScopeEnds)) /\ Len(after) \in Nat /\ Len(map) \in Nat /\ Len(after) <= Len(map)
  BY <1>1, <1>2
<1> QED BY <1>3, <1>4, MapKept

LEMMA MapsStay ==
  ASSUME TreeInv, TodoInv, MapsInv, Extended, Undeclared, maps' = maps,
         Picked(todo', ScopeEnds) = Picked(todo, ScopeEnds)
  PROVE  MapsInv'
<1>1. map_vardec_' = map_vardec_ /\ map_fundec_' = map_fundec_ /\ map_typedec_' = map_typedec_
  BY DEF maps
<1>2. MapInv(map_vardec_, Variables)'
  BY <1>1, MapsHave, SpacesAre, UndeclaredKept, OneMapKept
<1>3. MapInv(map_fundec_, {"function"})'
  BY <1>1, MapsHave, SpacesAre, UndeclaredKept, OneMapKept
<1>4. MapInv(map_typedec_, {"type"})'
  BY <1>1, MapsHave, SpacesAre, UndeclaredKept, OneMapKept
<1> QED BY <1>1, <1>2, <1>3, <1>4, MapsHave, MapsNext

\* The scopes open at a level are that of the root and those to be left.
LEMMA OpenersAre ==
  ASSUME TodoInv
  PROVE  \A l \in 1..(1 + Len(Picked(todo, ScopeEnds))) :
           \/ Opener(l) \in {0, -1}
           \/ \E j \in 1..Len(todo) : todo[j].do \in ScopeEnds /\ todo[j].do # "leave exp" /\ todo[j].at = Opener(l)
<1>1. PICK ends : ends = Picked(todo, ScopeEnds)
  OBVIOUS
<1>2. todo \in Seq(Calling) /\ Len(ends) \in Nat
  <2>1. todo \in Seq(Calling)
    BY DEF TodoInv
  <2> QED BY <1>1, <2>1, PickedFrom
<1>3. SUFFICES ASSUME NEW l \in 1..(1 + Len(ends)), Opener(l) \notin {0, -1}
               PROVE  \E j \in 1..Len(todo) : todo[j].do \in ScopeEnds /\ todo[j].do # "leave exp" /\ todo[j].at = Opener(l)
  BY <1>1
<1>4. PICK i : i = Len(ends) + 2 - l
  OBVIOUS
<1>5. l # 1 /\ ends[i].do # "leave exp" /\ Opener(l) = ends[i].at
  BY <1>1, <1>3, <1>4 DEF Opener, Pending
<1>6. i \in 1..Len(ends)
  <2>1. l # 1
    BY <1>5
  <2> QED BY <1>2, <1>4, <2>1
<1>7. ends[i].do \in ScopeEnds /\ \E j \in 1..Len(todo) : ends[i] = todo[j]
  BY <1>1, <1>2, <1>6, PickedFrom
<1> QED BY <1>5, <1>7

LEMMA OneMapBegins ==
  ASSUME TreeInv, TodoInv, Extended, NEW kinds, kinds \subseteq Declarations,
         NEW map, NEW after, MapInv(map, kinds), after = scope_begin(map), map \in Seq(Range(map)),
         \A o : DeclaredIn(kinds, o)' = DeclaredIn(kinds, o),
         NEW n \in Nat, Len(Picked(todo, ScopeEnds)) = n, Len(Picked(todo', ScopeEnds)) = 1 + n,
         \A l \in 1..(1 + n) : Opener(l)' = Opener(l),
         NEW x, \A l : l = 2 + n => Opener(l)' = x, DeclaredIn(kinds, x)' = {},
         \A l \in 1..(1 + n) : Opener(l) = -1 \/ Opener(l) # x
  PROVE  MapInv(after, kinds)'
<1>2. Len(map) = 1 + n
  BY DEF MapInv, Pending
<1>4. Len(after) = 2 + n /\ Len(map) > 0
  <2>1. Len(after) = Len(map) + 1
    BY StackBegins
  <2> QED BY <1>2, <2>1
<1>5. Opener(Len(after))' = x
  <2>1. PICK l : l = Len(after)
    OBVIOUS
  <2>2. Opener(l)' = x
    BY <1>4, <2>1
  <2>3. after' = after => Opener(Len(after))' = Opener(l)'
    BY <2>1
  <2> QED BY <2>2, <2>3
<1>6. /\ Len(after) = 1 + Len(Picked(todo', ScopeEnds))
      /\ \A l \in 1..Len(map) : Opener(l)' = Opener(l) /\ (Opener(l) = -1 \/ Opener(l) # x)
  BY <1>2, <1>4
<1> QED BY <1>4, <1>5, <1>6, MapBegin

LEMMA MapsBegin ==
  ASSUME TreeInv, TodoInv, MapsInv, Extended, Undeclared, ScopesBegin,
         NEW c \in Calling, Picked(todo', ScopeEnds) = <<c>> \o Picked(todo, ScopeEnds),
         c.do \in ScopeEnds,
         c.do \in BarrierEnds =>
           /\ c.at > 0 /\ DeclaredIn(Declarations, c.at) = {}
           /\ \A j \in 1..Len(todo) : todo[j].do \in BarrierEnds => todo[j].at # c.at
  PROVE  MapsInv'
<1>1. PICK n, x : n = Len(Picked(todo, ScopeEnds)) /\ x = IF c.do = "leave exp" THEN -1 ELSE c.at
  OBVIOUS
<1>2. /\ n \in Nat /\ Len(Picked(todo', ScopeEnds)) = 1 + n
      /\ \A l \in 1..(1 + n) : Opener(l)' = Opener(l)
      /\ \A l : l = 2 + n => Opener(l)' = x
  BY <1>1, OpenersMore DEF TodoInv
<1>3. DeclaredIn(Declarations, x) = {} /\ \A l \in 1..(1 + n) : Opener(l) = -1 \/ Opener(l) # x
  <2>1. CASE c.do \notin BarrierEnds
    <3>1. x = -1
      <4>1. c.do = "leave exp"
        BY <2>1 DEF ScopeEnds, BarrierEnds
      <4> QED BY <1>1, <4>1
    <3>2. \A d \in 1..Len(nodes) : Kind(d) \in Declarations => Owner(d) # -1
      BY TreeNodes
    <3> QED BY <3>1, <3>2 DEF DeclaredIn
  <2>2. CASE c.do \in BarrierEnds
    <3>1. x = c.at /\ c.at > 0 /\ DeclaredIn(Declarations, c.at) = {} /\ c.at \in Nat
      <4>1. c.do # "leave exp"
        BY <2>2 DEF BarrierEnds
      <4> QED BY <1>1, <2>2, <4>1 DEF Calling
    <3>2. \A j \in 1..Len(todo) : todo[j].do \in BarrierEnds => todo[j].at # c.at
      BY <2>2
    <3>3. ASSUME NEW l \in 1..(1 + n), Opener(l) # -1 PROVE Opener(l) # x
      <4>1. CASE Opener(l) = 0
        BY <3>1, <4>1
      <4>2. CASE Opener(l) # 0
        <5>1. PICK j \in 1..Len(todo) : todo[j].do \in ScopeEnds /\ todo[j].do # "leave exp" /\ todo[j].at = Opener(l)
          BY <1>1, <3>3, <4>2, OpenersAre
        <5>2. todo[j].do \in BarrierEnds
          BY <5>1 DEF ScopeEnds, BarrierEnds
        <5> QED BY <3>1, <3>2, <5>1, <5>2
      <4> QED BY <4>1, <4>2
    <3> QED BY <3>1, <3>3
  <2> QED BY <2>1, <2>2
<1>4. ASSUME NEW kinds \in Spaces, NEW map \in {map_vardec_, map_fundec_, map_typedec_},
             MapInv(map, kinds), NEW after, after = scope_begin(map)
      PROVE  MapInv(after, kinds)'
  <2>1. kinds \subseteq Declarations
    BY SpacesAre
  <2>2. \A o : DeclaredIn(kinds, o)' = DeclaredIn(kinds, o)
    BY UndeclaredKept
  <2>3. DeclaredIn(kinds, x)' = {}
    <3>1. DeclaredIn(kinds, x) = {}
      BY <1>3, <2>1 DEF DeclaredIn
    <3> QED BY <2>2, <3>1
  <2>4. map \in Seq(Range(map))
    BY MapsHave
  <2>5. Len(Picked(todo, ScopeEnds)) = n /\ \A l \in 1..(1 + n) : Opener(l) = -1 \/ Opener(l) # x
    BY <1>1, <1>3
  <2> HIDE <1>4
  <2> QED BY <1>2, <1>4, <2>1, <2>2, <2>3, <2>4, <2>5, OneMapBegins
<1>5. /\ map_vardec_' = scope_begin(map_vardec_) /\ map_fundec_' = scope_begin(map_fundec_)
      /\ map_typedec_' = scope_begin(map_typedec_)
  BY DEF ScopesBegin
<1>6. MapInv(map_vardec_, Variables)' /\ MapInv(map_fundec_, {"function"})' /\ MapInv(map_typedec_, {"type"})'
  BY <1>4, <1>5, MapsHave, SpacesAre
<1>7. /\ map_vardec_' \in Seq(Range(map_vardec_')) /\ map_fundec_' \in Seq(Range(map_fundec_'))
      /\ map_typedec_' \in Seq(Range(map_typedec_'))
  BY <1>5, MapsHave, StackBegins
<1> QED BY <1>6, <1>7, MapsNext

LEMMA OneMapEnds ==
  ASSUME TreeInv, Extended, NEW kinds, kinds \subseteq Declarations,
         NEW map, NEW after, MapInv(map, kinds), after = scope_end(map), map \in Seq(Range(map)),
         \A o : DeclaredIn(kinds, o)' = DeclaredIn(kinds, o),
         NEW n \in Nat, Len(Picked(todo', ScopeEnds)) = n, Len(Picked(todo, ScopeEnds)) = 1 + n,
         \A l \in 1..(1 + n) : Opener(l)' = Opener(l)
  PROVE  MapInv(after, kinds)'
<1>1. Len(map) = 2 + n
  <2>1. Len(map) = 1 + Len(Picked(todo, ScopeEnds))
    BY DEF MapInv, Pending
  <2> QED BY <2>1
<1>2. Len(map) > 0
  BY <1>1
<1>3. Len(after) = 1 + n /\ \A l \in 1..Len(after) : after[l] = map[l]
  <2>1. Len(after) = Len(map) - 1 /\ \A l \in 1..Len(after) : after[l] = map[l]
    BY <1>2, StackEnds
  <2> QED BY <1>1, <2>1
<1>4. /\ Len(after) = 1 + Len(Picked(todo', ScopeEnds)) /\ Len(after) \in Nat /\ Len(map) \in Nat
      /\ Len(after) <= Len(map)
      /\ \A l \in 1..Len(after) : after[l] = map[l] /\ Opener(l)' = Opener(l)
  BY <1>1, <1>3
<1> QED BY <1>4, MapKept

LEMMA MapsEnd ==
  ASSUME TreeInv, TodoInv, MapsInv, Extended, Undeclared, ScopesEnd, todo' \in Seq(Calling),
         NEW c \in Calling, Picked(todo, ScopeEnds) = <<c>> \o Picked(todo', ScopeEnds)
  PROVE  MapsInv'
<1>1. PICK n : n = Len(Picked(todo', ScopeEnds))
  OBVIOUS
<1>2. /\ n \in Nat /\ Len(Picked(todo, ScopeEnds)) = 1 + n
      /\ \A l \in 1..(1 + n) : Opener(l)' = Opener(l)
  BY <1>1, OpenersLess
<1>3. ASSUME NEW kinds \in Spaces, NEW map \in {map_vardec_, map_fundec_, map_typedec_},
             MapInv(map, kinds), NEW after, after = scope_end(map)
      PROVE  MapInv(after, kinds)'
  <2>1. kinds \subseteq Declarations
    BY SpacesAre
  <2>2. \A o : DeclaredIn(kinds, o)' = DeclaredIn(kinds, o)
    BY UndeclaredKept
  <2>3. map \in Seq(Range(map))
    BY MapsHave
  <2> QED BY <1>1, <1>2, <1>3, <2>1, <2>2, <2>3, OneMapEnds
<1>4. /\ map_vardec_' = scope_end(map_vardec_) /\ map_fundec_' = scope_end(map_fundec_)
      /\ map_typedec_' = scope_end(map_typedec_)
  BY DEF ScopesEnd
<1>5. MapInv(map_vardec_, Variables)' /\ MapInv(map_fundec_, {"function"})' /\ MapInv(map_typedec_, {"type"})'
  BY <1>3, <1>4, MapsHave, SpacesAre
<1>6. /\ map_vardec_' \in Seq(Range(map_vardec_')) /\ map_fundec_' \in Seq(Range(map_fundec_'))
      /\ map_typedec_' \in Seq(Range(map_typedec_'))
  BY <1>4, MapsHave, StackEnds
<1> QED BY <1>5, <1>6, MapsNext

LEMMA OpenerHouses ==
  ASSUME TodoInv, todo # <<>>, todo[1].do \notin ScopeEnds, NEW o, Houses(1, o)
  PROVE  \A l : l = 1 + Len(Picked(todo, ScopeEnds)) => Opener(l) = o
<1>1. PICK ends : ends = Picked(todo, ScopeEnds)
  OBVIOUS
<1>2. todo \in Seq(Calling) /\ ends \in Seq(Calling) /\ Len(ends) \in Nat /\ Len(todo) \in Nat
  <2>1. todo \in Seq(Calling)
    BY DEF TodoInv
  <2>2. ends \in Seq(Calling)
    BY <1>1, <2>1, PickedFrom
  <2> QED BY <2>1, <2>2
<1>3. SUFFICES ASSUME NEW l, l = 1 + Len(ends) PROVE Opener(l) = o
  BY <1>1
<1>4. PICK first : first = ends[1]
  OBVIOUS
<1>5. CASE ends = <<>>
  <2>1. l = 1
    BY <1>2, <1>3, <1>5
  <2>2. \A m \in 1..Len(todo) : todo[m].do \notin ScopeEnds
    <3>1. SUFFICES ASSUME NEW m \in 1..Len(todo), todo[m].do \in ScopeEnds PROVE FALSE
      OBVIOUS
    <3>2. \E i \in 1..Len(ends) : ends[i] = todo[m]
      BY <1>1, <1>2, <3>1, PickedAll
    <3>3. Len(ends) = 0
      BY <1>5
    <3> QED BY <3>2, <3>3
  <2>3. o = 0
    <3>1. ~ \E k \in (1 + 1)..Len(todo) : NextEnd(ScopeEnds, 1, k)
      BY <1>2, <2>2 DEF NextEnd
    <3> QED BY <3>1, Zenon DEF Houses
  <2> QED BY <2>1, <2>3 DEF Opener
<1>6. CASE ends # <<>>
  <2>1. PICK j \in 1..Len(todo) : /\ todo[j].do \in ScopeEnds /\ first = todo[j]
                                 /\ \A m \in 1..(j - 1) : todo[m].do \notin ScopeEnds
    BY <1>1, <1>2, <1>4, <1>6, PickedAll
  <2>2. j \in 2..Len(todo)
    <3>1. j # 1
      BY <2>1
    <3> QED BY <1>2, <3>1
  <2>3. NextEnd(ScopeEnds, 1, j)
    BY <1>2, <2>1, <2>2 DEF NextEnd
  <2>4. PICK k \in (1 + 1)..Len(todo) : NextEnd(ScopeEnds, 1, k) /\ todo[k].do # "leave exp" /\ todo[k].at = o
    <3>1. ~ \A m \in (1 + 1)..Len(todo) : todo[m].do \notin ScopeEnds
      BY <2>1, <2>2
    <3> QED BY <3>1, Zenon DEF Houses
  <2>5. k = j
    <3>1. NextEnd(ScopeEnds, 1, k)
      BY <2>4
    <3>2. ~(j < k) /\ ~(k < j)
      BY <2>2, <2>3, <3>1, <1>2 DEF NextEnd
    <3> QED BY <1>2, <3>2
  <2>6. first.at = o /\ first.do # "leave exp"
    BY <2>1, <2>4, <2>5
  <2>7. l # 1 /\ Len(ends) + 2 - l = 1
    <3>1. Len(ends) > 0
      BY <1>2, <1>6
    <3> QED BY <1>2, <1>3, <3>1
  <2> QED BY <1>1, <1>4, <2>6, <2>7 DEF Opener, Pending
<1> QED BY <1>5, <1>6

LEMMA OneMapPut ==
  ASSUME TreeInv, TreeInv', TodoInv, Extended, NEW new, new = This, new = Len(nodes'),
         NEW kinds, kinds \subseteq Declarations,
         NEW map, NEW after, MapInv(map, kinds), map \in Seq(Range(map)), Len(map) > 0,
         \/ Kind(new)' \in kinds /\ after = put(map, nodes'[new].name, new)
         \/ Kind(new)' \notin kinds /\ after = map,
         Picked(todo', ScopeEnds) = Picked(todo, ScopeEnds),
         \A l : l = 1 + Len(Picked(todo, ScopeEnds)) => Opener(l) = Owner(new)'
  PROVE  MapInv(after, kinds)' /\ after \in Seq(Range(after))
<1>1. CASE Kind(new)' \in kinds
  <2>1. after = put(map, nodes'[new].name, new)
    BY <1>1
  <2>2. Owner(new)' = Opener(Len(map))
    <3>1. Len(map) = 1 + Len(Picked(todo, ScopeEnds))
      BY DEF MapInv, Pending
    <3> QED BY <3>1
  <2>3. MapInv(after, kinds)'
    BY <1>1, <2>1, <2>2, MapPut
  <2> QED BY <2>1, <2>3, StackPuts
<1>2. CASE Kind(new)' \notin kinds
  <2>1. after = map
    BY <1>2
  <2>2. \A d \in (Len(nodes) + 1)..Len(nodes') : Kind(d)' \notin kinds
    <3>1. ASSUME NEW d \in (Len(nodes) + 1)..Len(nodes') PROVE d = new
      BY TreeNodes DEF This
    <3> QED BY <1>2, <3>1
  <2>3. \A o : DeclaredIn(kinds, o)' = DeclaredIn(kinds, o)
    BY <2>2, DeclaredKept
  <2> QED BY <2>1, <2>3, OneMapKept
<1> QED BY <1>1, <1>2

LEMMA MapsPut ==
  ASSUME TreeInv, TreeInv', TodoInv, MapsInv, Extended, NEW new, new = This, new = Len(nodes'),
         \/ Kind(new)' \in Variables /\ map_vardec_' = put(map_vardec_, nodes'[new].name, new)
         \/ Kind(new)' \notin Variables /\ map_vardec_' = map_vardec_,
         \/ Kind(new)' \in {"function"} /\ map_fundec_' = put(map_fundec_, nodes'[new].name, new)
         \/ Kind(new)' \notin {"function"} /\ map_fundec_' = map_fundec_,
         \/ Kind(new)' \in {"type"} /\ map_typedec_' = put(map_typedec_, nodes'[new].name, new)
         \/ Kind(new)' \notin {"type"} /\ map_typedec_' = map_typedec_,
         Picked(todo', ScopeEnds) = Picked(todo, ScopeEnds),
         todo # <<>>, todo[1].do \notin ScopeEnds, Houses(1, Owner(new)')
  PROVE  MapsInv'
<1>1. PICK o : o = Owner(new)'
  OBVIOUS
<1>2. \A l : l = 1 + Len(Picked(todo, ScopeEnds)) => Opener(l) = o
  BY <1>1, OpenerHouses
<1>3. MapInv(map_vardec_, Variables)' /\ map_vardec_' \in Seq(Range(map_vardec_'))
  BY <1>1, <1>2, MapsHave, SpacesAre, OneMapPut
<1>4. MapInv(map_fundec_, {"function"})' /\ map_fundec_' \in Seq(Range(map_fundec_'))
  BY <1>1, <1>2, MapsHave, SpacesAre, OneMapPut
<1>5. MapInv(map_typedec_, {"type"})' /\ map_typedec_' \in Seq(Range(map_typedec_'))
  BY <1>1, <1>2, MapsHave, SpacesAre, OneMapPut
<1> QED BY <1>3, <1>4, <1>5, MapsNext

-----------------------------------------------------------------------------
(* Types.                                                                  *)

LEMMA TypesFollow ==
  TreeInv /\ TodoInv /\ CallsInv /\ MapsInv /\ LoopsInv => TypeOK
<1> SUFFICES ASSUME TreeInv, TodoInv, CallsInv, MapsInv, LoopsInv PROVE TypeOK
  OBVIOUS
<1>1. PICK n : n = Len(nodes)
  OBVIOUS
<1>2. n \in Nat /\ \A i \in 1..n : nodes[i].in \in 0..(i - 1) /\ nodes[i].def \in 0..(i - 1)
  BY <1>1, TreeNodes
<1>3. MaxBatch \in Nat
  BY BinderAssumption
<1>4. Len(todo) \in Nat /\ \A j \in 1..Len(todo) : todo[j].at \in Nat /\ Placed(j)
  BY Pendings
<1>5. ASSUME NEW i \in 1..Len(todo) PROVE todo[i].at \in 0..(n + MaxBatch)
  <2>1. PICK at : at = todo[i].at
    OBVIOUS
  <2>2. at \in Nat /\ Placed(i)
    BY <1>4, <2>1
  <2>3. CASE at <= n
    BY <1>2, <1>3, <2>1, <2>2, <2>3
  <2>4. CASE ~(at <= n)
    <3>1. at - n <= Len(todo) /\ todo[at - n].do = "declare"
      BY <1>1, <2>1, <2>2, <2>4 DEF Placed
    <3>2. PICK k : k = at - n
      OBVIOUS
    <3>3. k \in 1..Len(todo)
      BY <1>2, <1>4, <2>2, <2>4, <3>1, <3>2
    <3>4. k <= MaxBatch
      <4>1. Placed(k) /\ todo[k].do = "declare"
        BY <1>4, <3>1, <3>2, <3>3
      <4> QED BY <4>1 DEF Placed
    <3> QED BY <1>2, <1>3, <2>1, <2>2, <3>2, <3>4
  <2> QED BY <2>3, <2>4
<1>6. ASSUME NEW kinds, NEW map, MapInv(map, kinds), Len(map) > 0
      PROVE  Len(map) > 0 /\ \A i \in 1..Len(map) : map[i] \in [DOMAIN map[i] -> 1..n]
  <2>1. SUFFICES ASSUME NEW i \in 1..Len(map) PROVE map[i] \in [DOMAIN map[i] -> 1..n]
    BY <1>6
  <2>2. map[i] \in [DOMAIN map[i] -> DeclaredIn(kinds, Opener(i))]
    BY <1>6, <2>1 DEF MapInv
  <2>3. DeclaredIn(kinds, Opener(i)) \subseteq 1..n
    BY <1>1 DEF DeclaredIn
  <2> QED BY <2>2, <2>3
<1>7. \A map \in {map_vardec_, map_fundec_, map_typedec_} :
        Len(map) > 0 /\ \A i \in 1..Len(map) : map[i] \in [DOMAIN map[i] -> 1..n]
  <2>1. Len(map_vardec_) > 0 /\ Len(map_fundec_) > 0 /\ Len(map_typedec_) > 0
    BY MapsHave
  <2>2. /\ MapInv(map_vardec_, Variables) /\ MapInv(map_fundec_, {"function"})
        /\ MapInv(map_typedec_, {"type"})
    BY MapsHave
  <2> QED BY <1>6, <2>1, <2>2
<1>8. in_loop_ \in BOOLEAN
  BY DEF CallsInv, Breakable
<1>9. loops_ \in Seq(1..n)
  <2>1. PICK ends : ends = Picked(todo, LoopEnds)
    OBVIOUS
  <2>2. todo \in Seq(Calling)
    BY DEF TodoInv
  <2>3. ends \in Seq(Calling)
    BY <2>1, <2>2, PickedFrom
  <2>4. ASSUME NEW i \in 1..Len(ends) PROVE ends[i].at \in 1..n
    <3>1. ends[i].do \in LoopEnds /\ \E j \in 1..Len(todo) : ends[i] = todo[j]
      BY <2>1, <2>2, PickedFrom
    <3>2. PICK j \in 1..Len(todo) : ends[i] = todo[j]
      BY <3>1
    <3>3. todo[j].do \in BarrierEnds /\ todo[j].do # "fundec"
      BY <3>1, <3>2 DEF LoopEnds, BarrierEnds
    <3>4. todo[j].at \in Nat /\ Placed(j)
      BY <1>4
    <3>5. todo[j].at > 0 /\ todo[j].at <= n
      BY <1>1, <3>3, <3>4 DEF Placed
    <3> QED BY <1>2, <3>2, <3>4, <3>5
  <2>5. PICK l : l = Nodes(ends)
    OBVIOUS
  <2>6. /\ l \in Seq(Nat) /\ Len(ends) \in Nat /\ Len(l) = Len(ends)
        /\ \A i \in 1..Len(ends) : l[i] = ends[Len(ends) - i + 1].at
    BY <2>3, <2>5, NodesOf
  <2>7. ASSUME NEW i \in 1..Len(l) PROVE l[i] \in 1..n
    <3>1. Len(ends) - i + 1 \in 1..Len(ends)
      BY <2>6
    <3> QED BY <2>4, <2>6, <3>1
  <2>8. l \in [1..Len(l) -> 1..n]
    <3>1. l \in [1..Len(l) -> Nat]
      BY <2>6
    <3> QED BY <2>7, <3>1
  <2>9. l \in Seq(1..n)
    <3>1. PICK S : S = 1..n
      OBVIOUS
    <3>2. l \in [1..Len(l) -> S] /\ Len(l) \in Nat
      BY <2>6, <2>8, <3>1
    <3>3. l \in Seq(S)
      BY <3>2
    <3> QED BY <3>1, <3>3
  <2> QED BY <2>1, <2>5, <2>9, LoopsAre
<1> QED BY <1>1, <1>2, <1>5, <1>7, <1>8, <1>9 DEF TypeOK

LEMMA TypesFollowNext ==
  (TreeInv /\ TodoInv /\ CallsInv /\ MapsInv /\ LoopsInv)' => TypeOK'
BY TypesFollow, PTL

\* An error leaves everything but the tree as it is, and no call to make.
LEMMA TypesDiagnosed ==
  ASSUME TypeOK, TreeInv', Extended, todo' = <<>>, maps' = maps, in_loop_' = in_loop_,
         loops_' = loops_
  PROVE  TypeOK'
<1>1. PICK n, m : n = Len(nodes) /\ m = Len(nodes')
  OBVIOUS
<1>2. n \in Nat /\ m \in Nat /\ n <= m /\ 1..n \subseteq 1..m
  BY <1>1 DEF Extended, Rooted
<1>3. \A i \in 1..m : nodes'[i].in \in 0..(i - 1) /\ nodes'[i].def \in 0..(i - 1)
  <2>1. SUFFICES ASSUME NEW i \in 1..m
                 PROVE  nodes'[i].in \in 0..(i - 1) /\ nodes'[i].def \in 0..(i - 1)
    OBVIOUS
  <2>2. nodes' \in Seq(Planting) /\ nodes'[i].in < i /\ nodes'[i].def < i
    BY <1>1 DEF TreeInv, Planting
  <2>3. nodes'[i] \in Planting
    BY <1>1, <2>2
  <2>4. nodes'[i].in \in Nat /\ nodes'[i].def \in Nat
    BY <2>3 DEF Planting
  <2> QED BY <1>2, <2>2, <2>4
<1>4. \A i \in 1..Len(todo') : todo'[i].at \in 0..(m + MaxBatch)
  OBVIOUS
<1>5. map_vardec_' = map_vardec_ /\ map_fundec_' = map_fundec_ /\ map_typedec_' = map_typedec_
  BY DEF maps
<1>6. \A map \in {map_vardec_, map_fundec_, map_typedec_} :
        Len(map) > 0 /\ \A i \in 1..Len(map) : map[i] \in [DOMAIN map[i] -> 1..m]
  <2>1. \A map \in {map_vardec_, map_fundec_, map_typedec_} :
          Len(map) > 0 /\ \A i \in 1..Len(map) : map[i] \in [DOMAIN map[i] -> 1..n]
    BY <1>1 DEF TypeOK
  <2>2. \A f : f \in [DOMAIN f -> 1..n] => f \in [DOMAIN f -> 1..m]
    BY <1>2
  <2> QED BY <2>1, <2>2
<1>7. loops_ \in Seq(1..m)
  <2>1. loops_ \in Seq(1..n)
    BY <1>1 DEF TypeOK
  <2>2. PICK S, T : S = 1..n /\ T = 1..m
    OBVIOUS
  <2>3. S \subseteq T /\ loops_ \in Seq(S)
    BY <1>2, <2>1, <2>2
  <2>4. loops_ \in Seq(T)
    BY <2>3
  <2> QED BY <2>2, <2>4
<1>8. in_loop_ \in BOOLEAN
  BY DEF TypeOK
<1> QED BY <1>1, <1>3, <1>4, <1>5, <1>6, <1>7, <1>8 DEF TypeOK

-----------------------------------------------------------------------------
(* The invariant after a step, from its parts.                             *)

\* The visit goes on, or returns.
LEMMA GoesOn ==
  ASSUME BinderInv, outcome = "visiting", outcome' \in {"visiting", "bound"},
         outcome' # "visiting" => todo' = <<>>,
         Extended, TreeInv', TodoInv', CallsInv', MapsInv', LoopsInv',
         \A i \in (Len(nodes) + 1)..Len(nodes') : Bound(i)' /\ Fresh(i)'
  PROVE  BinderInv'
<1>1. TreeInv /\ UsesInv
  BY UsesBound DEF BinderInv
<1>2. \A i \in 1..Len(nodes) : Bound(i)' /\ Fresh(i)'
  BY <1>1, UsesKept
<1>3. Len(nodes) \in Nat /\ Len(nodes') \in Nat
  BY DEF Extended, Rooted
<1>4. UsesInv'
  BY <1>2, <1>3 DEF UsesInv
<1>5. TypeOK'
  BY TypesFollowNext
<1>6. (BoundLexically /\ RejectsVisibleNames /\ BreakInnermost)'
  BY <1>4, UsesBoundNext
<1> QED BY <1>5, <1>6 DEF BinderInv

\* The visit ends with an error at a new node.
LEMMA Fails ==
  ASSUME BinderInv, outcome = "visiting", outcome' \notin {"visiting", "bound"},
         Extended, TreeInv', NEW new, new = This, new = Len(nodes'),
         todo' = <<>>, maps' = maps, in_loop_' = in_loop_, loops_' = loops_,
         Bound(new)', Fresh(new)'
  PROVE  BinderInv'
<1>1. TreeInv /\ UsesInv /\ TypeOK
  BY UsesBound DEF BinderInv
<1>2. Len(nodes) \in Nat /\ Len(nodes') = Len(nodes) + 1
  BY DEF Extended, Rooted, This
<1>3. \A i \in 1..Len(nodes) : Bound(i)' /\ Fresh(i)'
  <2>1. Len(nodes) < Len(nodes')
    BY <1>2
  <2> QED BY <1>1, <2>1, UsesKept
<1>4. UsesInv'
  <2>1. \A i \in 1..Len(nodes') : i \in 1..Len(nodes) \/ i = new
    BY <1>2
  <2> QED BY <1>3, <2>1 DEF UsesInv
<1>5. TypeOK'
  BY <1>1, TypesDiagnosed
<1>6. (BoundLexically /\ RejectsVisibleNames /\ BreakInnermost)'
  BY <1>4, UsesBoundNext
<1> QED BY <1>5, <1>6 DEF BinderInv

-----------------------------------------------------------------------------
(* What a new node finds.                                                  *)

LEMMA BarriersNew ==
  ASSUME TreeInv, Extended, NEW new, new = This, new \in 1..Len(nodes'),
         NEW at \in 0..Len(nodes), nodes'[new].in = at
  PROVE  Barriers(new)' = (IF Kind(new)' \in Barrier THEN {new} ELSE {}) \cup Barriers(at)
<1>1. /\ Len(nodes) \in Nat /\ \A i \in 0..Len(nodes) : Barriers(i)' = Barriers(i)
      /\ new # 0 /\ new \in 0..Len(nodes') /\ Rooted'
  BY TreeKept DEF This, Extended
<1>2. Ancestors'[new] = {new} \cup Ancestors'[at]
  BY <1>1, AncestorsDefNext
<1>3. Barriers(at)' = Barriers(at)
  BY <1>1
<1>4. Barriers(new)' = {a \in Ancestors'[new] \ {0} : Kind(a)' \in Barrier}
  BY DEF Barriers, Barrier
<1>5. Barriers(at)' = {a \in Ancestors'[at] \ {0} : Kind(a)' \in Barrier}
  BY DEF Barriers, Barrier
<1> QED BY <1>1, <1>2, <1>3, <1>4, <1>5

\* The flag and the stack of loops tell the innermost barrier around the call at hand.
LEMMA BreakHere ==
  ASSUME TreeInv, TodoInv, CallsInv, LoopsInv, todo # <<>>, todo[1].do \notin BarrierEnds,
         todo[1].do # "fundec", NEW a, a = Innermost(Barriers(todo[1].at))
  PROVE  /\ a \in Nat /\ a <= Len(nodes)
         /\ in_loop_ /\ loops_ # <<>> => a = Last(loops_) /\ a # NoPointer /\ Kind(a) = "loop"
         /\ ~(in_loop_ /\ loops_ # <<>>) => a = NoPointer \/ Kind(a) # "loop"
<1>1. PICK B : B = Barriers(todo[1].at)
  OBVIOUS
<1>2. Len(nodes) \in Nat /\ Len(todo) \in Nat \ {0} /\ todo \in Seq(Calling) /\ NoPointer = 0
  BY TreeNodes, BinderAssumption DEF TodoInv
<1>3. B = Enders(1) /\ in_loop_ = Breakable(0)
  <2>1. Enclosed(1) /\ in_loop_ = Breakable(0)
    BY <1>2, AllFit DEF Fits
  <2> QED BY <1>1, <2>1 DEF Enclosed, Around
<1>4. CASE \A k \in 1..Len(todo) : todo[k].do \notin BarrierEnds
  <2>1. B = {}
    BY <1>3, <1>4 DEF Enders
  <2>2. ~Breakable(0)
    BY <1>4, <1>2 DEF Breakable, NextEnd
  <2> QED BY <1>1, <1>2, <1>3, <2>1, <2>2 DEF Innermost
<1>5. CASE \E k \in 1..Len(todo) : todo[k].do \in BarrierEnds
  <2>1. PICK k \in 1..Len(todo) : todo[k].do \in BarrierEnds /\ \A m \in 1..(k - 1) : todo[m].do \notin BarrierEnds
    <3> DEFINE T == {m \in 1..Len(todo) : todo[m].do \in BarrierEnds}
    <3>1. T \subseteq Nat /\ T # {}
      BY <1>5
    <3>2. PICK k \in T : \A m \in T : k <= m
      <4> HIDE DEF T
      <4> QED BY <3>1, LeastElement
    <3>3. \A m \in 1..(k - 1) : m \notin T /\ m \in 1..Len(todo)
      BY <1>2, <3>2
    <3> QED BY <3>2, <3>3
  <2>2. PICK b : b = todo[k].at
    OBVIOUS
  <2>3. b \in Nat /\ Placed(k) /\ Enclosed(k)
    BY <2>2, AllFit, Pendings DEF Fits
  <2>4. todo[k].do # "fundec" /\ LoopEnds \subseteq BarrierEnds
    BY <2>1 DEF BarrierEnds, LoopEnds
  <2>5. b \in 1..Len(nodes) /\ (todo[k].do \in LoopEnds <=> Kind(b) = "loop")
    <3>1. b > 0 /\ b <= Len(nodes)
      BY <2>1, <2>2, <2>3, <2>4 DEF Placed
    <3>2. todo[k].do \in LoopEnds => Kind(b) = "loop"
      BY <2>2, <2>3 DEF Placed
    <3>3. todo[k].do \notin LoopEnds => Kind(b) \in {"let", "function"}
      BY <2>1, <2>2, <2>3 DEF Placed
    <3> QED BY <1>2, <2>3, <3>1, <3>2, <3>3
  <2>6. Enders(k) = Barriers(b)
    BY <2>2, <2>3, <2>4 DEF Enclosed, Around
  <2>7. B \subseteq Enders(k)
    <3>1. \A m \in 1..Len(todo) : todo[m].do \in BarrierEnds => m \in k..Len(todo)
      BY <1>2, <2>1
    <3> QED BY <1>3, <3>1 DEF Enders
  <2>8. \A x \in B : x <= b
    <3>1. Ancestors[b] \subseteq 0..b
      BY <2>5, TreeRooted, AncestorsBounded
    <3> QED BY <2>6, <2>7, <3>1 DEF Barriers
  <2>9. B \subseteq Int
    <3>1. Ancestors[b] \subseteq 0..b
      BY <2>5, TreeRooted, AncestorsBounded
    <3> QED BY <2>6, <2>7, <3>1 DEF Barriers
  <2>10. b \in B
    BY <1>3, <2>1, <2>2 DEF Enders
  <2>11. a = b
    BY <1>1, <2>8, <2>9, <2>10, MaxIs DEF Innermost
  <2>12. Breakable(0) <=> todo[k].do \in LoopEnds
    <3>1. PICK z : z = 0
      OBVIOUS
    <3>2. \A m \in (z + 1)..Len(todo) : NextEnd(BarrierEnds, z, m) <=> m = k
      <4>1. SUFFICES ASSUME NEW m \in 1..Len(todo) PROVE NextEnd(BarrierEnds, z, m) <=> m = k
        BY <3>1
      <4>2. CASE m < k
        BY <1>2, <2>1, <4>2 DEF NextEnd
      <4>3. CASE m = k
        BY <1>2, <2>1, <3>1, <4>3 DEF NextEnd
      <4>4. CASE k < m
        <5>1. k \in (z + 1)..(m - 1)
          BY <1>2, <3>1, <4>4
        <5> QED BY <2>1, <4>4, <5>1 DEF NextEnd
      <4> QED BY <1>2, <4>2, <4>3, <4>4
    <3>3. k \in (z + 1)..Len(todo)
      BY <3>1
    <3>4. Breakable(z) <=> todo[k].do \in LoopEnds
      BY <3>2, <3>3, Zenon DEF Breakable
    <3> QED BY <3>1, <3>4
  <2>13. CASE todo[k].do \notin LoopEnds
    BY <1>2, <1>3, <2>5, <2>11, <2>12, <2>13
  <2>14. CASE todo[k].do \in LoopEnds
    <3>1. PICK ends : ends = Picked(todo, LoopEnds)
      OBVIOUS
    <3>2. ends \in Seq(Calling)
      BY <1>2, <3>1, PickedFrom
    <3>3. \E l \in 1..Len(ends) : ends[l] = todo[k]
      BY <1>2, <2>14, <3>1, PickedAll
    <3>4. ends # <<>>
      BY <3>2, <3>3
    <3>5. PICK j \in 1..Len(todo) : /\ todo[j].do \in LoopEnds /\ ends[1] = todo[j]
                                   /\ \A m \in 1..(j - 1) : todo[m].do \notin LoopEnds
      BY <1>2, <3>1, <3>4, PickedAll
    <3>6. j = k
      <4>1. ~(j < k) /\ ~(k < j)
        BY <1>2, <2>1, <2>4, <2>14, <3>5
      <4> QED BY <1>2, <4>1
    <3>7. PICK c, rest : c = ends[1] /\ rest = Tail(ends)
      OBVIOUS
    <3>8. c \in Calling /\ rest \in Seq(Calling) /\ ends = <<c>> \o rest /\ c.at = b
      BY <2>2, <3>2, <3>4, <3>5, <3>6, <3>7
    <3>9. loops_ = Nodes(ends)
      BY <3>1, LoopsAre
    <3>10. loops_ # <<>> /\ Last(loops_) = b
      BY <3>8, <3>9, NodesLast
    <3> QED BY <1>2, <1>3, <2>5, <2>11, <2>12, <2>14, <3>10
  <2> QED BY <2>13, <2>14
<1> QED BY <1>4, <1>5

-----------------------------------------------------------------------------
(* The steps.                                                              *)

LEMMA FromZero ==
  \A n : \A m \in 1..n : m \in 0..n /\ m > 0
OBVIOUS

\* What a handler may count on.
LEMMA OnVisit ==
  ASSUME BinderInv, NEW what, Visiting(what)
  PROVE  /\ TypeOK /\ TreeInv /\ TodoInv /\ CallsInv /\ MapsInv /\ LoopsInv /\ outcome = "visiting"
         /\ todo # <<>> /\ Head(todo) = todo[1] /\ todo[1].do = what /\ At = todo[1].at
         /\ Len(nodes) \in Nat /\ At \in Nat /\ Fits(1) /\ 1 \in 1..Len(todo) /\ todo \in Seq(Calling)
         /\ what # "fundec" => At \in 0..Len(nodes)
<1>1. /\ TypeOK /\ TreeInv /\ TodoInv /\ CallsInv /\ MapsInv /\ LoopsInv /\ outcome = "visiting"
      /\ todo # <<>> /\ Head(todo).do = what
  BY DEF BinderInv, Visiting
<1>2. todo \in Seq(Calling) /\ Len(nodes) \in Nat
  BY <1>1, TreeNodes DEF TodoInv
<1>3. Head(todo) = todo[1] /\ 1 \in 1..Len(todo)
  BY <1>1, <1>2
<1>4. todo[1].at \in Nat /\ Fits(1)
  BY <1>1, <1>3, Pendings, AllFit
<1>5. what # "fundec" => todo[1].at <= Len(nodes)
  BY <1>1, <1>3, <1>4 DEF Fits, Placed
<1> QED BY <1>1, <1>2, <1>3, <1>4, <1>5 DEF At

\* A node may stand here.
Kinds == {"operands", "variable", "call", "type name", "break", "loop", "test", "let",
          "chunk"} \cup Declarations
Plantable(node) ==
  /\ node.kind \in Kinds /\ node.in \in 0..Len(nodes) /\ node.def \in 0..Len(nodes)
  /\ node.name \in Key \cup Builtin \cup {NoName}
  /\ node.kind \in Declarations => node.name \in Key
  /\ node.kind \in Variables => node.in = 0 \/ Kind(node.in) \in Barrier
  /\ node.kind \in {"function", "type"} =>
       /\ node.in > 0 /\ Kind(node.in) = "chunk"
       /\ nodes[node.in].in = 0 \/ Kind(nodes[node.in].in) \in Barrier

Fields(node, kind, at, name, def) ==
  node.kind = kind /\ node.in = at /\ node.name = name /\ node.def = def

LEMMA NodeFields ==
  ASSUME NEW kind, NEW at, NEW name, NEW def
  PROVE  Fields(Node(kind, at, name, def), kind, at, name, def)
BY DEF Fields, Node

LEMMA NodePlanting ==
  ASSUME NEW kind \in Kinds, NEW at \in Nat, NEW name \in Key \cup Builtin \cup {NoName}, NEW def \in Nat
  PROVE  Node(kind, at, name, def) \in Planting
<1>1. PICK K, N : K = Kinds /\ N = Key \cup Builtin \cup {NoName}
  OBVIOUS
<1>2. Node(kind, at, name, def) \in [kind : K, in : Nat, name : N, def : Nat]
  BY <1>1 DEF Node
<1> QED BY <1>1, <1>2 DEF Planting, Kinds

\* One node is added.
LEMMA NewNode ==
  ASSUME TreeInv, NEW kind, NEW at, NEW name, NEW def, Adds(Node(kind, at, name, def)),
         Plantable(Node(kind, at, name, def))
  PROVE  /\ TreeInv' /\ Extended
         /\ \A new : new = This =>
              /\ new = Len(nodes') /\ new \in 1..Len(nodes') /\ Len(nodes') = Len(nodes) + 1
              /\ Kind(new)' = kind /\ Fields(nodes'[new], kind, at, name, def)
              /\ \A d \in (Len(nodes) + 1)..Len(nodes') : d = new
<1>1. PICK node : node = Node(kind, at, name, def)
  OBVIOUS
<1>2. Fields(node, kind, at, name, def)
  BY <1>1, NodeFields
<1>3. nodes \in Seq(Planting) /\ Len(nodes) \in Nat
  BY TreeNodes DEF TreeInv
<1>4. node \in Planting
  <2>1. kind \in Kinds /\ at \in Nat /\ name \in Key \cup Builtin \cup {NoName} /\ def \in Nat
    BY <1>1, <1>2, <1>3 DEF Plantable, Fields
  <2> QED BY <1>1, <2>1, NodePlanting
<1>5. PICK added : added = <<node>>
  OBVIOUS
<1>6. /\ added \in Seq(Planting) /\ Len(added) = 1 /\ added[1] = node
      /\ \A i \in 1..Len(added) : i = 1
  BY <1>4, <1>5
<1>7. nodes' = nodes \o added
  <2>1. nodes' = Append(nodes, node)
    BY <1>1 DEF Adds
  <2> QED BY <1>3, <1>4, <1>5, <2>1
<1>8. Grows(added)
  <2>1. Plantable(node)
    BY <1>1
  <2>2. ASSUME node.kind \in Declarations
        PROVE  /\ node.name \in Key /\ node.in <= Len(nodes)
               /\ IF node.kind \in Variables
                  THEN node.in = 0 \/ Kind(node.in) \in Barrier
                  ELSE /\ node.in > 0 /\ Kind(node.in) = "chunk"
                       /\ nodes[node.in].in = 0 \/ Kind(nodes[node.in].in) \in Barrier
    <3>1. node.kind \in Variables \/ node.kind \in {"function", "type"}
      BY <2>2 DEF Variables, Declarations
    <3>2. CASE node.kind \in Variables
      BY <1>3, <2>1, <2>2, <3>2 DEF Plantable
    <3>3. CASE node.kind \notin Variables
      <4>1. node.kind \in {"function", "type"}
        BY <3>1, <3>3
      <4> QED BY <1>3, <2>1, <2>2, <3>3, <4>1 DEF Plantable
    <3> QED BY <3>2, <3>3
  <2>3. node.in < Len(nodes) + 1 /\ node.def < Len(nodes) + 1
    BY <1>3, <2>1 DEF Plantable
  <2> QED BY <1>6, <1>7, <2>2, <2>3 DEF Grows
<1>9. /\ TreeInv' /\ Extended /\ Len(nodes') = Len(nodes) + 1 /\ nodes'[Len(nodes) + 1] = node
  <2>1. /\ TreeInv' /\ Extended /\ Len(nodes') = Len(nodes) + Len(added)
        /\ \A i \in 1..Len(added) : nodes'[Len(nodes) + i] = added[i]
    BY <1>8, TreeGrows
  <2> QED BY <1>6, <2>1
<1>10. SUFFICES ASSUME NEW new, new = This
                PROVE  /\ new = Len(nodes') /\ new \in 1..Len(nodes') /\ Len(nodes') = Len(nodes) + 1
                       /\ Kind(new)' = kind /\ Fields(nodes'[new], kind, at, name, def)
                       /\ \A d \in (Len(nodes) + 1)..Len(nodes') : d = new
  BY <1>9
<1>11. nodes'[new] = node /\ new = Len(nodes') /\ new \in 1..Len(nodes')
  BY <1>3, <1>9, <1>10 DEF This
<1>12. Kind(new)' = kind
  BY <1>2, <1>11 DEF Kind, Fields
<1>13. \A d \in (Len(nodes) + 1)..Len(nodes') : d = new
  BY <1>3, <1>9, <1>11
<1> QED BY <1>2, <1>9, <1>11, <1>12, <1>13

LEMMA NoNode ==
  ASSUME TreeInv, nodes' = nodes
  PROVE  /\ TreeInv' /\ Extended /\ Undeclared
         /\ \A i \in (Len(nodes) + 1)..Len(nodes') : FALSE
<1>1. Grows(<<>>)
  BY DEF Grows, TreeInv
<1>2. TreeInv' /\ Extended
  BY <1>1, TreeGrows
<1>3. \A i \in (Len(nodes) + 1)..Len(nodes') : FALSE
  BY TreeNodes
<1> QED BY <1>2, <1>3 DEF Undeclared

Walkers == {"exp", "type", "scoped exp", "vardec", "chunks", "typedec"}

\* A handler that only makes further calls, and may add a node that declares nothing.
LEMMA PlainStep ==
  ASSUME BinderInv, NEW what, Visiting(what), what \in {"exp", "type", "chunks"},
         TreeInv', Extended, Undeclared, NEW calls, calls \in Seq(Calling), Goes(calls),
         UNCHANGED <<maps, in_loop_, loops_, outcome>>,
         \A i \in 1..Len(calls) :
           /\ calls[i].do \in Walkers
           /\ calls[i].at \in 0..Len(nodes')
           /\ Barriers(calls[i].at)' = Barriers(At)
           /\ calls[i].do = "typedec" => calls[i].at > 0 /\ Kind(calls[i].at)' = "chunk"
           /\ calls[i].do \in {"vardec", "chunks", "typedec"} => (Pushed(calls) => Housed(i)'),
         \A i \in (Len(nodes) + 1)..Len(nodes') : Bound(i)' /\ Fresh(i)'
  PROVE  BinderInv'
<1>1. /\ TypeOK /\ TreeInv /\ TodoInv /\ CallsInv /\ MapsInv /\ LoopsInv /\ outcome = "visiting"
      /\ todo # <<>> /\ todo[1].do = what /\ At = todo[1].at
  BY OnVisit
<1>2. Pushed(calls)
  BY <1>1, GoesPushes
<1>3. what \notin BarrierEnds /\ what \notin ScopeEnds /\ what \notin LoopEnds /\ what \notin {"declare", "fundec"}
  BY DEF BarrierEnds, ScopeEnds, LoopEnds
<1>4. DeclaresHere
  BY DEF DeclaresHere, Undeclared
<1>5. Walkers \subseteq Plain /\ Walkers \cap (BarrierEnds \cup ScopeEnds \cup LoopEnds) = {}
  BY DEF Walkers, Plain, BarrierEnds, ScopeEnds, LoopEnds
<1>6. \A i \in 1..Len(calls) : calls[i].do \in Plain /\ calls[i].do \notin ScopeEnds /\ calls[i].do \notin LoopEnds
  BY <1>5
<1>7. ASSUME NEW i \in 1..Len(calls) PROVE Housed(i)'
  <2>1. CASE calls[i].do \in {"vardec", "chunks", "typedec"}
    BY <1>2, <2>1
  <2>2. CASE calls[i].do \notin {"vardec", "chunks", "typedec"}
    <3>1. PICK do : do = calls[i].do
      OBVIOUS
    <3>2. do \in {"exp", "type", "scoped exp"}
      BY <2>2, <3>1 DEF Walkers
    <3>3. do \notin {"index", "formal", "vardec", "chunks", "typedec", "declare"}
      BY <3>2
    <3>4. todo'[i].do = do
      BY <1>2, <3>1 DEF Pushed
    <3> QED BY <3>3, <3>4 DEF Housed
  <2> QED BY <2>1, <2>2
<1>8. in_loop_' = in_loop_ /\ maps' = maps /\ loops_' = loops_ /\ outcome' = outcome
  OBVIOUS
<1>9. TodoInv' /\ CallsInv'
  BY <1>1, <1>2, <1>3, <1>4, <1>6, <1>7, <1>8, PlainCalls
<1>10. MapsInv'
  <2>1. Picked(todo', ScopeEnds) = Picked(todo, ScopeEnds)
    BY <1>1, <1>2, <1>3, <1>6, PendingKept
  <2> QED BY <1>1, <1>8, <2>1, MapsStay
<1>11. LoopsInv'
  <2>1. Picked(todo', LoopEnds) = Picked(todo, LoopEnds)
    BY <1>1, <1>2, <1>3, <1>6, PendingKept
  <2> QED BY <1>1, <1>8, <2>1, LoopsAre, LoopsAreNext
<1>12. outcome' \in {"visiting", "bound"} /\ outcome' = "visiting"
  BY <1>1, <1>8
<1> QED BY <1>1, <1>9, <1>10, <1>11, <1>12, GoesOn

\* A node that declares nothing and is no barrier.
Leaves == {"operands", "variable", "call", "type name", "break", "chunk"}

LEMMA NewLeaf ==
  ASSUME BinderInv, NEW what, Visiting(what), what \in {"exp", "type", "chunks"},
         NEW kind \in Leaves, NEW name \in Key \cup Builtin \cup {NoName}, NEW def \in 0..Len(nodes),
         Adds(Node(kind, At, name, def))
  PROVE  /\ TreeInv' /\ Extended /\ Undeclared
         /\ \A new : new = This =>
              /\ new = Len(nodes') /\ new \in 1..Len(nodes')
              /\ Kind(new)' = kind /\ Fields(nodes'[new], kind, At, name, def)
              /\ Barriers(new)' = Barriers(At) /\ Fresh(new)'
              /\ \A i \in (Len(nodes) + 1)..Len(nodes') : i = new
<1>1. PICK at : at = At
  OBVIOUS
<1>2. what # "fundec"
  OBVIOUS
<1>3. TreeInv /\ at \in 0..Len(nodes)
  BY <1>1, <1>2, OnVisit
<1>4. kind \in Kinds /\ kind \notin Declarations /\ kind \notin Barrier
  BY DEF Leaves, Kinds, Declarations, Barrier
<1>5. kind \notin Variables /\ kind \notin {"function", "type"}
  BY <1>4 DEF Variables, Declarations
<1>6. PICK node : node = Node(kind, at, name, def)
  OBVIOUS
<1>7. Plantable(node)
  <2>1. Fields(node, kind, at, name, def)
    BY <1>6, NodeFields
  <2> QED BY <1>3, <1>4, <1>5, <2>1 DEF Plantable, Fields
<1>8. Adds(Node(kind, at, name, def)) /\ Plantable(Node(kind, at, name, def))
  BY <1>1, <1>6, <1>7
<1>9. /\ TreeInv' /\ Extended
      /\ \A new : new = This =>
           /\ new = Len(nodes') /\ new \in 1..Len(nodes') /\ Len(nodes') = Len(nodes) + 1
           /\ Kind(new)' = kind /\ Fields(nodes'[new], kind, at, name, def)
           /\ \A d \in (Len(nodes) + 1)..Len(nodes') : d = new
  BY <1>3, <1>8, NewNode
<1>10. PICK new : new = This
  OBVIOUS
<1>11. /\ new = Len(nodes') /\ new \in 1..Len(nodes')
       /\ Kind(new)' = kind /\ Fields(nodes'[new], kind, at, name, def)
       /\ \A d \in (Len(nodes) + 1)..Len(nodes') : d = new
  BY <1>9, <1>10
<1>12. Undeclared
  BY <1>4, <1>11 DEF Undeclared
<1>13. Barriers(new)' = Barriers(at)
  <2>1. nodes'[new].in = at
    BY <1>11 DEF Fields
  <2>2. Barriers(new)' = (IF Kind(new)' \in Barrier THEN {new} ELSE {}) \cup Barriers(at)
    BY <1>3, <1>9, <1>10, <1>11, <2>1, BarriersNew
  <2> QED BY <1>4, <1>11, <2>2
<1>14. Fresh(new)'
  BY <1>5, <1>11 DEF Fresh
<1> QED BY <1>1, <1>9, <1>10, <1>11, <1>12, <1>13, <1>14

\* An expression or a use, whose operands are visited next.
LEMMA LeafStep ==
  ASSUME BinderInv, NEW what, Visiting(what), what \in {"exp", "type"},
         NEW kind \in Leaves, NEW name \in Key \cup Builtin \cup {NoName}, NEW def \in 0..Len(nodes),
         Adds(Node(kind, At, name, def)),
         NEW calls, calls \in Seq(Calling), Goes(calls),
         \A i \in 1..Len(calls) : calls[i].do \in {"exp", "type", "scoped exp"} /\ calls[i].at = This,
         UNCHANGED <<maps, in_loop_, loops_, outcome>>,
         \A new : new = This => Bound(new)'
  PROVE  BinderInv'
<1>1. what \in {"exp", "type", "chunks"}
  OBVIOUS
<1>2. PICK new : new = This
  OBVIOUS
<1>3. /\ TreeInv' /\ Extended /\ Undeclared
      /\ new = Len(nodes') /\ new \in 1..Len(nodes')
      /\ Barriers(new)' = Barriers(At) /\ Fresh(new)'
      /\ \A i \in (Len(nodes) + 1)..Len(nodes') : i = new
  BY <1>1, <1>2, NewLeaf
<1>4. \A i \in (Len(nodes) + 1)..Len(nodes') : Bound(i)' /\ Fresh(i)'
  BY <1>2, <1>3
<1>5. ASSUME NEW i \in 1..Len(calls)
      PROVE  /\ calls[i].do \in Walkers
             /\ calls[i].at \in 0..Len(nodes')
             /\ Barriers(calls[i].at)' = Barriers(At)
             /\ calls[i].do = "typedec" => calls[i].at > 0 /\ Kind(calls[i].at)' = "chunk"
             /\ calls[i].do \in {"vardec", "chunks", "typedec"} => (Pushed(calls) => Housed(i)')
  <2>1. PICK do, at : do = calls[i].do /\ at = calls[i].at
    OBVIOUS
  <2>2. do \in {"exp", "type", "scoped exp"}
    BY <2>1
  <2>3. do \in Walkers /\ do # "typedec" /\ do \notin {"vardec", "chunks", "typedec"}
    BY <2>2 DEF Walkers
  <2>4. at = new
    BY <1>2, <2>1
  <2>5. new \in 0..Len(nodes')
    BY <1>3, FromZero, Zenon
  <2>6. at \in 0..Len(nodes') /\ Barriers(at)' = Barriers(At)
    BY <1>3, <2>4, <2>5, Zenon
  <2> QED BY <2>1, <2>3, <2>6
<1>6. UNCHANGED <<maps, in_loop_, loops_, outcome>>
  OBVIOUS
<1> QED BY <1>1, <1>3, <1>4, <1>5, <1>6, PlainStep

-----------------------------------------------------------------------------
(* Calls.                                                                  *)

Handlers ==
  {"chunks", "exp", "type", "scoped exp", "index", "formal", "vardec", "typedec",
   "declare", "fundec", "leave while"} \cup ScopeEnds

LEMMA CallIs ==
  ASSUME NEW what \in Handlers, NEW node \in Nat
  PROVE  /\ Call(what, node) \in Calling
         /\ Call(what, node).do = what /\ Call(what, node).at = node
<1>1. PICK H : H = Handlers
  OBVIOUS
<1>2. Call(what, node) \in [do : H, at : Nat, copy : BOOLEAN]
  BY <1>1 DEF Call
<1> QED BY <1>1, <1>2 DEF Calling, Handlers, Call

LEMMA LeaveIs ==
  ASSUME NEW what \in Handlers, NEW node \in Nat, in_loop_ \in BOOLEAN
  PROVE  /\ Leave(what, node) \in Calling
         /\ Leave(what, node).do = what /\ Leave(what, node).at = node /\ Leave(what, node).copy = in_loop_
<1>1. PICK H : H = Handlers
  OBVIOUS
<1>2. Leave(what, node) \in [do : H, at : Nat, copy : BOOLEAN]
  BY <1>1 DEF Leave
<1> QED BY <1>1, <1>2 DEF Calling, Handlers, Leave

LEMMA CallsAre ==
  ASSUME NEW what \in Handlers, NEW node \in Nat, NEW n \in Nat,
         NEW calls, calls = Calls(what, node, n)
  PROVE  /\ calls \in Seq(Calling) /\ Len(calls) = n
         /\ \A i \in 1..Len(calls) : calls[i].do = what /\ calls[i].at = node
<1>1. PICK c : c = Call(what, node)
  OBVIOUS
<1>2. c \in Calling /\ c.do = what /\ c.at = node
  BY <1>1, CallIs
<1>3. calls = [i \in 1..n |-> c]
  BY <1>1 DEF Calls
<1>4. calls \in Seq(Calling) /\ Len(calls) = n /\ \A i \in 1..Len(calls) : calls[i] = c
  BY <1>2, <1>3
<1> QED BY <1>2, <1>4

\* Calls after calls.
LEMMA Joined ==
  ASSUME NEW s \in Seq(Calling), NEW t \in Seq(Calling)
  PROVE  /\ s \o t \in Seq(Calling) /\ Len(s) \in Nat /\ Len(t) \in Nat /\ Len(s \o t) = Len(s) + Len(t)
         /\ \A i \in 1..Len(s) : (s \o t)[i] = s[i]
         /\ \A i \in 1..Len(t) : (s \o t)[Len(s) + i] = t[i]
         /\ \A i \in 1..Len(s \o t) : i \in 1..Len(s) \/ \E k \in 1..Len(t) : i = Len(s) + k
<1>1. /\ s \o t \in Seq(Calling) /\ Len(s) \in Nat /\ Len(t) \in Nat /\ Len(s \o t) = Len(s) + Len(t)
      /\ \A i \in 1..Len(s) : (s \o t)[i] = s[i]
      /\ \A i \in 1..Len(t) : (s \o t)[Len(s) + i] = t[i]
  OBVIOUS
<1>2. ASSUME NEW i \in 1..(Len(s) + Len(t)), i \notin 1..Len(s)
      PROVE  \E k \in 1..Len(t) : i = Len(s) + k
  <2>1. PICK k : k = i - Len(s)
    OBVIOUS
  <2>2. k \in 1..Len(t) /\ i = Len(s) + k
    BY <1>1, <1>2, <2>1
  <2> QED BY <2>2
<1> QED BY <1>1, <1>2

LEMMA JoinedOne ==
  ASSUME NEW s \in Seq(Calling), NEW c \in Calling
  PROVE  /\ s \o <<c>> \in Seq(Calling) /\ Len(s) \in Nat /\ Len(s \o <<c>>) = Len(s) + 1
         /\ \A i \in 1..Len(s) : (s \o <<c>>)[i] = s[i]
         /\ (s \o <<c>>)[Len(s) + 1] = c
         /\ \A i \in 1..Len(s \o <<c>>) : i \in 1..Len(s) \/ i = Len(s) + 1
<1>1. PICK t : t = <<c>>
  OBVIOUS
<1>2. t \in Seq(Calling) /\ Len(t) = 1 /\ t[1] = c /\ \A k \in 1..Len(t) : k = 1
  BY <1>1
<1>3. /\ s \o t \in Seq(Calling) /\ Len(s) \in Nat /\ Len(s \o t) = Len(s) + Len(t)
      /\ \A i \in 1..Len(s) : (s \o t)[i] = s[i]
      /\ \A i \in 1..Len(t) : (s \o t)[Len(s) + i] = t[i]
      /\ \A i \in 1..Len(s \o t) : i \in 1..Len(s) \/ \E k \in 1..Len(t) : i = Len(s) + k
  BY <1>2, Joined
<1>4. (s \o t)[Len(s) + 1] = c
  <2>1. 1 \in 1..Len(t)
    BY <1>2
  <2> QED BY <1>2, <1>3, <2>1
<1>5. \A i \in 1..Len(s \o t) : i \in 1..Len(s) \/ i = Len(s) + 1
  BY <1>2, <1>3, Zenon
<1> QED BY <1>1, <1>2, <1>3, <1>4, <1>5

-----------------------------------------------------------------------------
(* Expressions that bind nothing.                                          *)

Visits == {"exp", "type", "scoped exp"}

LEMMA OperandsStep ==
  ASSUME BinderInv, Visiting("exp"), NEW calls \in Seq(Calling), Goes(calls),
         Adds(Node("operands", At, NoName, NoPointer)),
         \A i \in 1..Len(calls) : calls[i].do \in Visits /\ calls[i].at = This,
         UNCHANGED <<maps, in_loop_, loops_, outcome>>
  PROVE  BinderInv'
<1>1. PICK what, kind, name, def : what = "exp" /\ kind = "operands" /\ name = NoName /\ def = NoPointer
  OBVIOUS
<1>2. Visiting(what) /\ what \in {"exp", "type"} /\ what \in {"exp", "type", "chunks"}
  BY <1>1
<1>3. kind \in Leaves /\ name \in Key \cup Builtin \cup {NoName}
  BY <1>1 DEF Leaves
<1>4. def \in 0..Len(nodes)
  <2>1. Len(nodes) \in Nat
    BY <1>2, OnVisit
  <2> QED BY <1>1, <2>1, BinderAssumption
<1>5. Adds(Node(kind, At, name, def))
  BY <1>1
<1>6. \A new : new = This => Bound(new)'
  <2>1. \A new : new = This => Kind(new)' = kind
    BY <1>2, <1>3, <1>4, <1>5, NewLeaf
  <2> QED BY <1>1, <2>1 DEF Bound
<1>7. /\ UNCHANGED <<maps, in_loop_, loops_, outcome>>
      /\ \A i \in 1..Len(calls) : calls[i].do \in {"exp", "type", "scoped exp"} /\ calls[i].at = This
  BY DEF Visits
<1> QED BY <1>2, <1>3, <1>4, <1>5, <1>6, <1>7, LeafStep

\* A call that returns at once.
LEMMA NothingStep ==
  ASSUME BinderInv, NEW what, Visiting(what), what \in {"exp", "type", "chunks"}, Goes(<<>>), nodes' = nodes,
         UNCHANGED <<maps, in_loop_, loops_, outcome>>
  PROVE  BinderInv'
<1>1. PICK calls : calls = <<>>
  OBVIOUS
<1>2. TreeInv
  BY OnVisit
<1>3. TreeInv' /\ Extended /\ Undeclared /\ \A i \in (Len(nodes) + 1)..Len(nodes') : FALSE
  BY <1>2, NoNode
<1>4. calls \in Seq(Calling) /\ Goes(calls) /\ \A i \in 1..Len(calls) : FALSE
  BY <1>1
<1>5. UNCHANGED <<maps, in_loop_, loops_, outcome>>
  OBVIOUS
<1> QED BY <1>3, <1>4, <1>5, PlainStep

LEMMA NewAt ==
  ASSUME BinderInv, NEW what, Visiting(what)
  PROVE  This \in Nat /\ This > 0
BY OnVisit DEF This

LEMMA WalkStep ==
  ASSUME BinderInv, Walk
  PROVE  BinderInv'
<1>0. "exp" \in Handlers /\ "type" \in Handlers /\ "exp" \in Visits /\ "type" \in Visits
  BY DEF Handlers, Visits
<1>1. CASE Literal
  BY <1>1, NothingStep DEF Literal
<1>2. CASE Operands
  <2>1. PICK n \in 1..MaxBatch : /\ Adds(Node("operands", At, NoName, NoPointer))
                                 /\ Goes(Calls("exp", This, n))
    BY <1>2 DEF Operands
  <2>2. Visiting("exp") /\ UNCHANGED <<maps, in_loop_, loops_, outcome>>
    BY <1>2 DEF Operands
  <2>3. This \in Nat /\ n \in Nat
    BY <2>2, NewAt
  <2>4. PICK calls : calls = Calls("exp", This, n)
    OBVIOUS
  <2>5. calls \in Seq(Calling) /\ \A i \in 1..Len(calls) : calls[i].do \in Visits /\ calls[i].at = This
    BY <1>0, <2>3, <2>4, CallsAre
  <2> QED BY <2>1, <2>2, <2>4, <2>5, OperandsStep
<1>3. CASE TypedExp
  <2>1. PICK n \in 0..MaxBatch : /\ Adds(Node("operands", At, NoName, NoPointer))
                                 /\ Goes(<<Call("type", This)>> \o Calls("exp", This, n))
    BY <1>3 DEF TypedExp
  <2>2. Visiting("exp") /\ UNCHANGED <<maps, in_loop_, loops_, outcome>>
    BY <1>3 DEF TypedExp
  <2>3. This \in Nat /\ n \in Nat
    BY <2>2, NewAt
  <2>4. PICK c, s, t, calls : c = Call("type", This) /\ s = <<c>> /\ t = Calls("exp", This, n) /\ calls = s \o t
    OBVIOUS
  <2>5. c \in Calling /\ c.do = "type" /\ c.at = This
    BY <1>0, <2>3, <2>4, CallIs
  <2>6. t \in Seq(Calling) /\ \A i \in 1..Len(t) : t[i].do = "exp" /\ t[i].at = This
    <3>1. t = Calls("exp", This, n)
      BY <2>4
    <3> QED BY <1>0, <2>3, <3>1, CallsAre
  <2>7. s \in Seq(Calling) /\ \A i \in 1..Len(s) : s[i] = c
    BY <2>4, <2>5
  <2>8. calls \in Seq(Calling)
    BY <2>4, <2>6, <2>7
  <2>9. \A i \in 1..Len(calls) : calls[i].do \in Visits /\ calls[i].at = This
    <3>1. SUFFICES ASSUME NEW i \in 1..Len(calls) PROVE calls[i].do \in Visits /\ calls[i].at = This
      OBVIOUS
    <3>2. (i \in 1..Len(s) /\ calls[i] = s[i]) \/ (\E k \in 1..Len(t) : calls[i] = t[k])
      BY <2>4, <2>6, <2>7, Joined
    <3> QED BY <1>0, <2>5, <2>6, <2>7, <3>2
  <2> QED BY <2>1, <2>2, <2>4, <2>8, <2>9, OperandsStep
<1> QED BY <1>1, <1>2, <1>3 DEF Walk

LEMMA SeqStep ==
  ASSUME BinderInv, SeqExp
  PROVE  BinderInv'
<1>1. PICK n \in 0..MaxBatch : /\ Adds(Node("operands", At, NoName, NoPointer))
                               /\ Goes(Calls("scoped exp", This, n))
  BY DEF SeqExp
<1>2. Visiting("exp") /\ UNCHANGED <<maps, in_loop_, loops_, outcome>>
  BY DEF SeqExp
<1>3. This \in Nat /\ n \in Nat
  BY <1>2, NewAt
<1>4. PICK calls, what : calls = Calls(what, This, n) /\ what = "scoped exp"
  OBVIOUS
<1>5. what \in Handlers /\ what \in Visits
  BY <1>4 DEF Handlers, Visits
<1>6. calls \in Seq(Calling) /\ \A i \in 1..Len(calls) : calls[i].do \in Visits /\ calls[i].at = This
  <2>1. calls = Calls(what, This, n)
    BY <1>4
  <2>2. calls \in Seq(Calling) /\ \A i \in 1..Len(calls) : calls[i].do = what /\ calls[i].at = This
    BY <1>3, <1>5, <2>1, CallsAre
  <2> QED BY <1>5, <2>2
<1> QED BY <1>1, <1>2, <1>4, <1>6, OperandsStep

-----------------------------------------------------------------------------
(* Uses.                                                                   *)

\* What is looked up is the latest declaration of those that can be seen.
LEMMA Found ==
  ASSUME BinderInv, NEW what, Visiting(what), what # "fundec",
         NEW kinds \in Spaces, NEW map, MapInv(map, kinds), NEW name
  PROVE  /\ get(map, name) = Innermost(Seen(kinds, name))
         /\ get(map, name) \in 0..Len(nodes)
         /\ contains(map, name) <=> Seen(kinds, name) # {}
<1>1. /\ TreeInv /\ TodoInv /\ CallsInv /\ todo # <<>> /\ todo[1].do # "fundec"
      /\ Len(nodes) \in Nat
  BY OnVisit
<1>2. kinds \subseteq Declarations
  BY SpacesAre
<1>3. /\ get(map, name) = Innermost(Seen(kinds, name))
      /\ contains(map, name) <=> Seen(kinds, name) # {}
  BY <1>1, <1>2, LookedUp
<1>4. PICK S : S = Seen(kinds, name)
  OBVIOUS
<1>5. S \subseteq 1..Len(nodes)
  BY <1>4 DEF Seen
<1>6. Innermost(S) \in 0..Len(nodes)
  <2>1. CASE S = {}
    BY <1>1, <2>1, BinderAssumption DEF Innermost
  <2>2. CASE S # {}
    <3>1. Max(S) \in S
      BY <1>1, <1>5, <2>2, MaxExists
    <3>2. Max(S) \in 0..Len(nodes)
      BY <1>5, <3>1, FromZero, Zenon
    <3> QED BY <2>2, <3>2, Zenon DEF Innermost
  <2> QED BY <2>1, <2>2
<1> QED BY <1>3, <1>4, <1>6

\* An undeclared name or a misplaced break ends the visit.
LEMMA UseFails ==
  ASSUME BinderInv, NEW what, Visiting(what), what \in {"exp", "type"},
         NEW kind \in Leaves, NEW name \in Key \cup Builtin \cup {NoName}, NEW def \in 0..Len(nodes),
         Adds(Node(kind, At, name, def)), NEW error, error \notin {"visiting", "bound"}, Diagnose(error),
         UNCHANGED <<maps, in_loop_, loops_>>,
         \A new : new = This => Bound(new)'
  PROVE  BinderInv'
<1>1. what \in {"exp", "type", "chunks"} /\ outcome = "visiting"
  BY OnVisit
<1>2. PICK new : new = This
  OBVIOUS
<1>3. /\ TreeInv' /\ Extended
      /\ new = Len(nodes') /\ Fresh(new)'
  BY <1>1, <1>2, NewLeaf
<1>4. Bound(new)'
  BY <1>2
<1>5. outcome' \notin {"visiting", "bound"} /\ todo' = <<>>
  BY DEF Diagnose
<1>6. maps' = maps /\ in_loop_' = in_loop_ /\ loops_' = loops_
  OBVIOUS
<1> QED BY <1>1, <1>2, <1>3, <1>4, <1>5, <1>6, Fails

\* A new use sees what the call at hand does.
LEMMA UseSees ==
  ASSUME BinderInv, NEW what, Visiting(what), what \in {"exp", "type"},
         NEW kind \in Leaves, NEW name \in Key \cup Builtin \cup {NoName}, NEW def \in 0..Len(nodes),
         Adds(Node(kind, At, name, def)), NEW new, new = This
  PROVE  /\ Kind(new)' = kind /\ nodes'[new].def = def /\ Barriers(new)' = Barriers(At)
         /\ \A kinds \in Spaces : Visible(new, kinds)' = Seen(kinds, name)
<1>1. what \in {"exp", "type", "chunks"} /\ what # "fundec"
  OBVIOUS
<1>2. TreeInv /\ At = todo[1].at /\ At \in 0..Len(nodes)
  BY <1>1, OnVisit
<1>3. /\ TreeInv' /\ Extended /\ new \in 1..Len(nodes')
      /\ Kind(new)' = kind /\ Fields(nodes'[new], kind, At, name, def) /\ Barriers(new)' = Barriers(At)
  BY <1>1, NewLeaf
<1>4. nodes'[new].in = todo[1].at /\ nodes'[new].name = name /\ nodes'[new].def = def
  BY <1>2, <1>3 DEF Fields
<1>5. ASSUME NEW kinds \in Spaces PROVE Visible(new, kinds)' = Seen(kinds, name)
  <2>1. kinds \subseteq Declarations
    BY SpacesAre
  <2>2. todo[1].at \in 0..Len(nodes)
    BY <1>2
  <2>3. Visible(new, kinds)' = Seen(kinds, nodes'[new].name)
    BY <1>2, <1>3, <1>4, <2>1, <2>2, VisibleNew
  <2> QED BY <1>4, <2>3
<1> QED BY <1>3, <1>4, <1>5

\* It is bound if it gets the latest of them.
LEMMA NameBound ==
  ASSUME BinderInv, NEW what, Visiting(what), what \in {"exp", "type"},
         NEW kind \in Leaves, NEW name \in Key \cup Builtin \cup {NoName}, NEW def \in 0..Len(nodes),
         Adds(Node(kind, At, name, def)), NEW new, new = This, kind # "break",
         kind = "variable" => def = Innermost(Seen(Variables, name)),
         kind = "call" => def = Innermost(Seen({"function"}, name)),
         kind = "type name" => def = Innermost(Seen({"type"}, name))
  PROVE  Bound(new)'
<1>1. /\ Kind(new)' = kind /\ nodes'[new].def = def
      /\ \A kinds \in Spaces : Visible(new, kinds)' = Seen(kinds, name)
  BY UseSees
<1>2. /\ Visible(new, Variables)' = Seen(Variables, name)
      /\ Visible(new, {"function"})' = Seen({"function"}, name)
      /\ Visible(new, {"type"})' = Seen({"type"}, name)
  BY <1>1, SpacesAre
<1>3. /\ Innermost(Visible(new, Variables))' = Innermost(Seen(Variables, name))
      /\ Innermost(Visible(new, {"function"}))' = Innermost(Seen({"function"}, name))
      /\ Innermost(Visible(new, {"type"}))' = Innermost(Seen({"type"}, name))
  BY <1>2 DEF Innermost
<1> QED BY <1>1, <1>3 DEF Bound

LEMMA SimpleVarStep ==
  ASSUME BinderInv, SimpleVar
  PROVE  BinderInv'
<1>1. PICK name \in Key :
        /\ Adds(Node("variable", At, name, get(map_vardec_, name)))
        /\ IF get(map_vardec_, name) = NoPointer
           THEN Diagnose("undeclared variable")
           ELSE Goes(<<>>) /\ UNCHANGED outcome
  BY Zenon DEF SimpleVar
<1>2. Visiting("exp") /\ UNCHANGED <<maps, in_loop_, loops_>>
  BY DEF SimpleVar
<1>3. PICK what, kind, def : what = "exp" /\ kind = "variable" /\ def = get(map_vardec_, name)
  OBVIOUS
<1>4. what \in {"exp", "type"} /\ what # "fundec" /\ Visiting(what) /\ kind \in Leaves
  BY <1>2, <1>3 DEF Leaves
<1>5. def = Innermost(Seen(Variables, name)) /\ def \in 0..Len(nodes)
  <2>1. MapInv(map_vardec_, Variables)
    BY <1>4, OnVisit, MapsHave
  <2> QED BY <1>3, <1>4, <2>1, SpacesAre, Found
<1>6. Adds(Node(kind, At, name, def)) /\ name \in Key \cup Builtin \cup {NoName}
  BY <1>1, <1>3
<1>7. ASSUME NEW new, new = This PROVE Bound(new)'
  <2>1. kind # "break" /\ kind # "call" /\ kind # "type name"
    BY <1>3
  <2> QED BY <1>4, <1>5, <1>6, <1>7, <2>1, NameBound
<1>8. CASE def = NoPointer
  <2>1. PICK error : error = "undeclared variable"
    OBVIOUS
  <2>2. Diagnose(error) /\ error \notin {"visiting", "bound"}
    BY <1>1, <1>3, <1>8, <2>1
  <2>3. UNCHANGED <<maps, in_loop_, loops_>>
    BY <1>2
  <2> QED BY <1>4, <1>5, <1>6, <1>7, <2>2, <2>3, UseFails
<1>9. CASE def # NoPointer
  <2>1. PICK calls : calls = <<>>
    OBVIOUS
  <2>2. Goes(calls) /\ UNCHANGED <<maps, in_loop_, loops_, outcome>>
    BY <1>1, <1>2, <1>3, <1>9, <2>1
  <2>3. calls \in Seq(Calling) /\ \A i \in 1..Len(calls) : FALSE
    BY <2>1
  <2> QED BY <1>4, <1>5, <1>6, <1>7, <2>2, <2>3, LeafStep
<1> QED BY <1>8, <1>9

LEMMA CallExpStep ==
  ASSUME BinderInv, CallExp
  PROVE  BinderInv'
<1>1. PICK name \in Key, n \in 0..MaxBatch :
        /\ Adds(Node("call", At, name, get(map_fundec_, name)))
        /\ IF get(map_fundec_, name) = NoPointer
           THEN Diagnose("undeclared/undefined function")
           ELSE Goes(Calls("exp", This, n)) /\ UNCHANGED outcome
  BY Zenon DEF CallExp
<1>2. Visiting("exp") /\ UNCHANGED <<maps, in_loop_, loops_>>
  BY DEF CallExp
<1>3. PICK what, kind, def : what = "exp" /\ kind = "call" /\ def = get(map_fundec_, name)
  OBVIOUS
<1>4. what \in {"exp", "type"} /\ what # "fundec" /\ Visiting(what) /\ kind \in Leaves
  BY <1>2, <1>3 DEF Leaves
<1>5. def = Innermost(Seen({"function"}, name)) /\ def \in 0..Len(nodes)
  <2>1. MapInv(map_fundec_, {"function"})
    BY <1>4, OnVisit, MapsHave
  <2> QED BY <1>3, <1>4, <2>1, SpacesAre, Found
<1>6. Adds(Node(kind, At, name, def)) /\ name \in Key \cup Builtin \cup {NoName}
  BY <1>1, <1>3
<1>7. ASSUME NEW new, new = This PROVE Bound(new)'
  <2>1. kind # "break" /\ kind # "variable" /\ kind # "type name"
    BY <1>3
  <2> QED BY <1>4, <1>5, <1>6, <1>7, <2>1, NameBound
<1>8. CASE def = NoPointer
  <2>1. PICK error : error = "undeclared/undefined function"
    OBVIOUS
  <2>2. Diagnose(error) /\ error \notin {"visiting", "bound"}
    BY <1>1, <1>3, <1>8, <2>1
  <2>3. UNCHANGED <<maps, in_loop_, loops_>>
    BY <1>2
  <2> QED BY <1>4, <1>5, <1>6, <1>7, <2>2, <2>3, UseFails
<1>9. CASE def # NoPointer
  <2>1. PICK calls : calls = Calls("exp", This, n)
    OBVIOUS
  <2>2. Goes(calls) /\ UNCHANGED <<maps, in_loop_, loops_, outcome>>
    BY <1>1, <1>2, <1>3, <1>9, <2>1
  <2>3. calls \in Seq(Calling) /\ \A i \in 1..Len(calls) : calls[i].do = "exp" /\ calls[i].at = This
    <3>1. This \in Nat /\ n \in Nat /\ "exp" \in Handlers
      BY <1>2, NewAt DEF Handlers
    <3> QED BY <2>1, <3>1, CallsAre
  <2>4. \A i \in 1..Len(calls) : calls[i].do \in {"exp", "type", "scoped exp"} /\ calls[i].at = This
    BY <2>3
  <2> QED BY <1>4, <1>5, <1>6, <1>7, <2>2, <2>3, <2>4, LeafStep
<1> QED BY <1>8, <1>9

LEMMA NameTyStep ==
  ASSUME BinderInv, NameTy
  PROVE  BinderInv'
<1>a. PICK name \in Key \cup Builtin :
        /\ Adds(Node("type name", At, name, IF name \in Key THEN get(map_typedec_, name) ELSE NoPointer))
        /\ IF (IF name \in Key THEN get(map_typedec_, name) ELSE NoPointer) = NoPointer /\ name \notin Builtin
           THEN Diagnose("undeclared type")
           ELSE Goes(<<>>) /\ UNCHANGED outcome
  BY Zenon DEF NameTy
<1>b. PICK def : def = IF name \in Key THEN get(map_typedec_, name) ELSE NoPointer
  OBVIOUS
<1>1. /\ def = IF name \in Key THEN get(map_typedec_, name) ELSE NoPointer
      /\ Adds(Node("type name", At, name, def))
      /\ IF def = NoPointer /\ name \notin Builtin
         THEN Diagnose("undeclared type")
         ELSE Goes(<<>>) /\ UNCHANGED outcome
  BY <1>a, <1>b, Zenon
<1>2. Visiting("type") /\ UNCHANGED <<maps, in_loop_, loops_>>
  BY DEF NameTy
<1>3. PICK what, kind : what = "type" /\ kind = "type name"
  OBVIOUS
<1>4. what \in {"exp", "type"} /\ what # "fundec" /\ Visiting(what) /\ kind \in Leaves
  BY <1>2, <1>3 DEF Leaves
<1>5. def = Innermost(Seen({"type"}, name)) /\ def \in 0..Len(nodes)
  <2>1. MapInv(map_typedec_, {"type"}) /\ Len(nodes) \in Nat /\ TreeInv
    BY <1>4, OnVisit, MapsHave
  <2>2. CASE name \in Key
    <3>1. def = get(map_typedec_, name)
      BY <1>1, <2>2
    <3> QED BY <1>4, <2>1, <3>1, SpacesAre, Found
  <2>3. CASE name \notin Key
    <3>1. \A d \in 1..Len(nodes) : Kind(d) \in {"type"} => nodes[d].name \in Key
      BY <2>1, TreeNodes DEF Declarations
    <3>2. Seen({"type"}, name) = {}
      BY <2>3, <3>1 DEF Seen
    <3>3. def = NoPointer
      BY <1>1, <2>3
    <3>4. NoPointer \in 0..Len(nodes)
      BY <2>1, BinderAssumption
    <3> QED BY <3>2, <3>3, <3>4 DEF Innermost
  <2> QED BY <2>2, <2>3
<1>6. Adds(Node(kind, At, name, def)) /\ name \in Key \cup Builtin \cup {NoName}
  BY <1>1, <1>3
<1>7. ASSUME NEW new, new = This PROVE Bound(new)'
  <2>1. kind # "break" /\ kind # "variable" /\ kind # "call"
    BY <1>3
  <2> QED BY <1>4, <1>5, <1>6, <1>7, <2>1, NameBound
<1>8. CASE def = NoPointer /\ name \notin Builtin
  <2>1. PICK error : error = "undeclared type"
    OBVIOUS
  <2>2. Diagnose(error) /\ error \notin {"visiting", "bound"}
    BY <1>1, <1>8, <2>1
  <2>3. UNCHANGED <<maps, in_loop_, loops_>>
    BY <1>2
  <2> QED BY <1>4, <1>5, <1>6, <1>7, <2>2, <2>3, UseFails
<1>9. CASE ~(def = NoPointer /\ name \notin Builtin)
  <2>1. PICK calls : calls = <<>>
    OBVIOUS
  <2>2. Goes(calls) /\ UNCHANGED <<maps, in_loop_, loops_, outcome>>
    BY <1>1, <1>2, <1>9, <2>1
  <2>3. calls \in Seq(Calling) /\ \A i \in 1..Len(calls) : FALSE
    BY <2>1
  <2> QED BY <1>4, <1>5, <1>6, <1>7, <2>2, <2>3, LeafStep
<1> QED BY <1>8, <1>9

LEMMA BreakExpStep ==
  ASSUME BinderInv, BreakExp
  PROVE  BinderInv'
<1>1. PICK what, kind, name, def :
        /\ what = "exp" /\ kind = "break" /\ name = NoName
        /\ def = IF in_loop_ /\ loops_ # <<>> THEN Last(loops_) ELSE NoPointer
  OBVIOUS
<1>2. /\ Visiting("exp") /\ UNCHANGED <<maps, in_loop_, loops_>>
      /\ IF in_loop_ /\ loops_ # <<>>
         THEN Adds(Node("break", At, NoName, Last(loops_))) /\ Goes(<<>>) /\ UNCHANGED outcome
         ELSE Adds(Node("break", At, NoName, NoPointer)) /\ Diagnose("invalid break")
  BY DEF BreakExp
<1>3. what \in {"exp", "type"} /\ what \notin {"fundec"} \cup BarrierEnds /\ Visiting(what) /\ kind \in Leaves
  BY <1>1, <1>2 DEF Leaves, BarrierEnds
<1>4. name \in Key \cup Builtin \cup {NoName} /\ Adds(Node(kind, At, name, def))
  BY <1>1, <1>2
<1>5. /\ TreeInv /\ TodoInv /\ CallsInv /\ LoopsInv /\ todo # <<>> /\ todo[1].do = what
      /\ At = todo[1].at /\ Len(nodes) \in Nat /\ At \in 0..Len(nodes)
  BY <1>3, OnVisit
<1>6. PICK a : a = Innermost(Barriers(todo[1].at))
  OBVIOUS
<1>7. /\ a \in Nat /\ a <= Len(nodes)
      /\ in_loop_ /\ loops_ # <<>> => a = Last(loops_) /\ a # NoPointer /\ Kind(a) = "loop"
      /\ ~(in_loop_ /\ loops_ # <<>>) => a = NoPointer \/ Kind(a) # "loop"
  BY <1>3, <1>5, <1>6, BreakHere
<1>8. def = IF a # NoPointer /\ Kind(a) = "loop" THEN a ELSE NoPointer
  BY <1>1, <1>7
<1>9. def \in 0..Len(nodes)
  BY <1>5, <1>7, <1>8, BinderAssumption
<1>10. ASSUME NEW new, new = This PROVE Bound(new)'
  <2>1. Kind(new)' = kind /\ nodes'[new].def = def /\ Barriers(new)' = Barriers(At)
    BY <1>3, <1>4, <1>9, <1>10, UseSees
  <2>2. Innermost(Barriers(new))' = a
    BY <1>5, <1>6, <2>1 DEF Innermost
  <2>3. a # NoPointer => Kind(a)' = Kind(a)
    <3>1. Extended
      <4>1. what \in {"exp", "type", "chunks"}
        BY <1>3
      <4> QED BY <1>3, <1>4, <1>9, <4>1, NewLeaf
    <3>2. a # NoPointer => a \in 1..Len(nodes)
      BY <1>5, <1>7, BinderAssumption
    <3> QED BY <1>5, <3>1, <3>2, TreeKept
  <2>4. Kind(Innermost(Barriers(new)))' = Kind(a)'
    BY <2>2 DEF Kind
  <2>5. nodes'[new].def = IF Innermost(Barriers(new))' # NoPointer /\ Kind(Innermost(Barriers(new)))' = "loop"
                          THEN Innermost(Barriers(new))' ELSE NoPointer
    BY <1>8, <2>1, <2>2, <2>3, <2>4
  <2>6. Kind(new)' \notin {"variable", "call", "type name"}
    BY <1>1, <2>1
  <2> QED BY <2>5, <2>6 DEF Bound
<1>11. CASE ~(in_loop_ /\ loops_ # <<>>)
  <2>1. PICK error : error = "invalid break"
    OBVIOUS
  <2>2. Diagnose(error) /\ error \notin {"visiting", "bound"}
    BY <1>2, <1>11, <2>1
  <2>3. UNCHANGED <<maps, in_loop_, loops_>>
    BY <1>2
  <2> QED BY <1>3, <1>4, <1>9, <1>10, <2>2, <2>3, UseFails
<1>12. CASE in_loop_ /\ loops_ # <<>>
  <2>1. PICK calls : calls = <<>>
    OBVIOUS
  <2>2. Goes(calls) /\ UNCHANGED <<maps, in_loop_, loops_, outcome>>
    BY <1>2, <1>12, <2>1
  <2>3. calls \in Seq(Calling) /\ \A i \in 1..Len(calls) : FALSE
    BY <2>1
  <2> QED BY <1>3, <1>4, <1>9, <1>10, <2>2, <2>3, LeafStep
<1> QED BY <1>11, <1>12

LEMMA UseStep ==
  ASSUME BinderInv, Use
  PROVE  BinderInv'
BY SimpleVarStep, CallExpStep, NameTyStep, BreakExpStep DEF Use

-----------------------------------------------------------------------------
(* The ends of handlers.                                                   *)

LEMMA NoCalls ==
  \A calls : calls = <<>> => calls \in Seq(Calling) /\ \A i \in 1..Len(calls) : FALSE
OBVIOUS

LEMMA MapsLeft ==
  ASSUME TreeInv, TodoInv, MapsInv, Extended, Undeclared, NEW calls, calls = <<>>, Pushed(calls),
         \/ todo[1].do \in ScopeEnds /\ ScopesEnd
         \/ todo[1].do \notin ScopeEnds /\ maps' = maps
  PROVE  MapsInv'
<1>1. CASE todo[1].do \in ScopeEnds
  <2>1. Picked(todo, ScopeEnds) = <<todo[1]>> \o Picked(todo', ScopeEnds)
    BY <1>1, PendingLess
  <2>2. todo' \in Seq(Calling) /\ todo[1] \in Calling
    BY DEF Pushed
  <2> QED BY <1>1, <2>1, <2>2, MapsEnd
<1>2. CASE todo[1].do \notin ScopeEnds
  <2>1. \A i \in 1..Len(calls) : FALSE
    OBVIOUS
  <2>2. Picked(todo', ScopeEnds) = Picked(todo, ScopeEnds)
    BY <1>2, <2>1, PendingKept
  <2> QED BY <1>2, <2>2, MapsStay
<1> QED BY <1>1, <1>2

LEMMA LoopsLeft ==
  ASSUME LoopsInv, NEW calls, calls = <<>>, Pushed(calls),
         \/ todo[1].do \in LoopEnds /\ loops_' = Front(loops_)
         \/ todo[1].do \notin LoopEnds /\ loops_' = loops_
  PROVE  LoopsInv'
<1>1. CASE todo[1].do \in LoopEnds
  <2>1. PICK c, s, t : c = todo[1] /\ s = Picked(todo, LoopEnds) /\ t = Picked(todo', LoopEnds)
    OBVIOUS
  <2>2. s = <<c>> \o t
    BY <1>1, <2>1, PendingLess
  <2>3. t \in Seq(Calling) /\ c \in Calling
    <3>1. todo' \in Seq(Calling) /\ todo[1] \in Calling
      BY DEF Pushed
    <3> QED BY <2>1, <3>1, PickedFrom
  <2>4. Front(Nodes(s)) = Nodes(t)
    BY <2>2, <2>3, NodesLast
  <2> QED BY <1>1, <2>1, <2>4, LoopsAre, LoopsAreNext
<1>2. CASE todo[1].do \notin LoopEnds
  <2>1. \A i \in 1..Len(calls) : FALSE
    OBVIOUS
  <2>2. Picked(todo', LoopEnds) = Picked(todo, LoopEnds)
    BY <1>2, <2>1, PendingKept
  <2> QED BY <1>2, <2>2, LoopsAre, LoopsAreNext
<1> QED BY <1>1, <1>2

LEMMA EndStep ==
  ASSUME BinderInv, NEW what \in BarrierEnds \cup {"leave exp"}, Visiting(what), Goes(<<>>),
         nodes' = nodes, outcome' = outcome,
         \/ what \in BarrierEnds /\ in_loop_' = Head(todo).copy
         \/ what \notin BarrierEnds /\ in_loop_' = in_loop_,
         \/ what \in ScopeEnds /\ ScopesEnd
         \/ what \notin ScopeEnds /\ maps' = maps,
         \/ what \in LoopEnds /\ loops_' = Front(loops_)
         \/ what \notin LoopEnds /\ loops_' = loops_
  PROVE  BinderInv'
<1>1. /\ TypeOK /\ TreeInv /\ TodoInv /\ CallsInv /\ MapsInv /\ LoopsInv /\ outcome = "visiting"
      /\ todo # <<>> /\ Head(todo) = todo[1] /\ todo[1].do = what
  BY OnVisit
<1>2. PICK calls : calls = <<>>
  OBVIOUS
<1>3. calls \in Seq(Calling) /\ Goes(calls) /\ \A i \in 1..Len(calls) : FALSE
  BY <1>2, NoCalls, Zenon
<1>4. Pushed(calls)
  BY <1>1, <1>3, GoesPushes
<1>5. TreeInv' /\ Extended /\ Undeclared /\ \A i \in (Len(nodes) + 1)..Len(nodes') : FALSE
  BY <1>1, NoNode
<1>6. DeclaresHere
  BY <1>5 DEF DeclaresHere, Undeclared
<1>7. TodoInv' /\ CallsInv'
  <2>1. CASE what \in BarrierEnds
    <3>1. in_loop_' = todo[1].copy /\ todo[1].do \in BarrierEnds
      BY <1>1, <2>1
    <3> QED BY <1>1, <1>2, <1>4, <1>5, <1>6, <3>1, EndCalls
  <2>2. CASE what \notin BarrierEnds
    <3>1. in_loop_' = in_loop_ /\ todo[1].do \notin BarrierEnds
      BY <1>1, <2>2
    <3>2. todo[1].do \notin {"declare", "fundec"}
      BY <1>1, <2>2
    <3> QED BY <1>1, <1>3, <1>4, <1>5, <1>6, <3>1, <3>2, PlainCalls
  <2> QED BY <2>1, <2>2
<1>8. MapsInv'
  BY <1>1, <1>2, <1>4, <1>5, MapsLeft
<1>9. LoopsInv'
  BY <1>1, <1>2, <1>4, LoopsLeft
<1>10. outcome' \in {"visiting", "bound"} /\ outcome' = "visiting"
  BY <1>1
<1> QED BY <1>1, <1>5, <1>7, <1>8, <1>9, <1>10, GoesOn

LEMMA LeavesStep ==
  ASSUME BinderInv, LeaveFor \/ LeaveWhile \/ LeaveExp \/ LeaveLet \/ LeaveFunction
  PROVE  BinderInv'
<1>1. CASE LeaveFor
  <2>1. PICK what : what = "leave for"
    OBVIOUS
  <2>2. what \in BarrierEnds /\ what \in ScopeEnds /\ what \in LoopEnds
    BY <2>1 DEF BarrierEnds, ScopeEnds, LoopEnds
  <2>3. /\ Visiting(what) /\ ScopesEnd /\ loops_' = Front(loops_) /\ in_loop_' = Head(todo).copy
        /\ Goes(<<>>) /\ nodes' = nodes /\ outcome' = outcome
    BY <1>1, <2>1 DEF LeaveFor
  <2> QED BY <2>2, <2>3, EndStep
<1>2. CASE LeaveWhile
  <2>1. PICK what : what = "leave while"
    OBVIOUS
  <2>2. what \in BarrierEnds /\ what \notin ScopeEnds /\ what \in LoopEnds
    BY <2>1 DEF BarrierEnds, ScopeEnds, LoopEnds
  <2>3. /\ Visiting(what) /\ maps' = maps /\ loops_' = Front(loops_) /\ in_loop_' = Head(todo).copy
        /\ Goes(<<>>) /\ nodes' = nodes /\ outcome' = outcome
    BY <1>2, <2>1 DEF LeaveWhile
  <2> QED BY <2>2, <2>3, EndStep
<1>3. CASE LeaveExp
  <2>1. PICK what : what = "leave exp"
    OBVIOUS
  <2>2. what \notin BarrierEnds /\ what \in ScopeEnds /\ what \notin LoopEnds /\ what \in BarrierEnds \cup {"leave exp"}
    BY <2>1 DEF BarrierEnds, ScopeEnds, LoopEnds
  <2>3. /\ Visiting(what) /\ ScopesEnd /\ loops_' = loops_ /\ in_loop_' = in_loop_
        /\ Goes(<<>>) /\ nodes' = nodes /\ outcome' = outcome
    BY <1>3, <2>1 DEF LeaveExp
  <2> QED BY <2>2, <2>3, EndStep
<1>4. CASE LeaveLet
  <2>1. PICK what : what = "leave let"
    OBVIOUS
  <2>2. what \in BarrierEnds /\ what \in ScopeEnds /\ what \notin LoopEnds
    BY <2>1 DEF BarrierEnds, ScopeEnds, LoopEnds
  <2>3. /\ Visiting(what) /\ ScopesEnd /\ loops_' = loops_ /\ in_loop_' = Head(todo).copy
        /\ Goes(<<>>) /\ nodes' = nodes /\ outcome' = outcome
    BY <1>4, <2>1 DEF LeaveLet
  <2> QED BY <2>2, <2>3, EndStep
<1>5. CASE LeaveFunction
  <2>1. PICK what : what = "leave function"
    OBVIOUS
  <2>2. what \in BarrierEnds /\ what \in ScopeEnds /\ what \notin LoopEnds
    BY <2>1 DEF BarrierEnds, ScopeEnds, LoopEnds
  <2>3. /\ Visiting(what) /\ ScopesEnd /\ loops_' = loops_ /\ in_loop_' = Head(todo).copy
        /\ Goes(<<>>) /\ nodes' = nodes /\ outcome' = outcome
    BY <1>5, <2>1 DEF LeaveFunction
  <2> QED BY <2>2, <2>3, EndStep
<1> QED BY <1>1, <1>2, <1>3, <1>4, <1>5

-----------------------------------------------------------------------------
(* What opens a scope.                                                     *)

LEMMA TwoCalls ==
  \A c, d \in Calling : \A calls : calls = <<c, d>> =>
    calls \in Seq(Calling) /\ Len(calls) = 2 /\ calls[1] = c /\ calls[2] = d
OBVIOUS

LEMMA ThreeCalls ==
  \A a, c, d \in Calling : \A calls : calls = <<a, c, d>> =>
    /\ calls \in Seq(Calling) /\ Len(calls) > 0 /\ calls[Len(calls)] = d
    /\ \A i \in 1..(Len(calls) - 1) : calls[i] = a \/ calls[i] = c
OBVIOUS

LEMMA FourCalls ==
  \A a, b, c, d \in Calling : \A calls : calls = <<a, b, c, d>> =>
    /\ calls \in Seq(Calling) /\ Len(calls) > 0 /\ calls[Len(calls)] = d
    /\ \A i \in 1..(Len(calls) - 1) : calls[i] = a \/ calls[i] = b \/ calls[i] = c
OBVIOUS

LEMMA ScopedExpStep ==
  ASSUME BinderInv, ScopedExp
  PROVE  BinderInv'
<1>1. PICK what, end, c, d, calls :
        /\ what = "scoped exp" /\ end = "leave exp"
        /\ c = Call("exp", At) /\ d = Call("leave exp", At) /\ calls = <<c, d>>
  OBVIOUS
<1>2. /\ Visiting(what) /\ ScopesBegin /\ Goes(calls) /\ nodes' = nodes
      /\ in_loop_' = in_loop_ /\ loops_' = loops_ /\ outcome' = outcome
  BY <1>1 DEF ScopedExp
<1>3. /\ what \notin BarrierEnds /\ what \notin ScopeEnds /\ what \notin LoopEnds
      /\ what \notin {"declare", "fundec"} /\ what # "fundec"
      /\ end \in ScopeEnds /\ end \notin BarrierEnds /\ end \notin LoopEnds
  BY <1>1 DEF BarrierEnds, ScopeEnds, LoopEnds
<1>4. /\ TypeOK /\ TreeInv /\ TodoInv /\ CallsInv /\ MapsInv /\ LoopsInv /\ outcome = "visiting"
      /\ todo # <<>> /\ todo[1].do = what /\ At = todo[1].at /\ At \in 0..Len(nodes) /\ At \in Nat
  BY <1>2, <1>3, OnVisit
<1>5. c \in Calling /\ c.do = "exp" /\ c.at = At /\ d \in Calling /\ d.do = end /\ d.at = At
  <2>1. "exp" \in Handlers /\ "leave exp" \in Handlers
    BY DEF Handlers, ScopeEnds
  <2> QED BY <1>1, <1>4, <2>1, CallIs
<1>6. calls \in Seq(Calling) /\ Len(calls) = 2 /\ calls[1] = c /\ calls[2] = d
  BY <1>1, <1>5, TwoCalls, Zenon
<1>7. Pushed(calls)
  BY <1>2, <1>4, <1>6, GoesPushes
<1>8. TreeInv' /\ Extended /\ Undeclared /\ \A i \in (Len(nodes) + 1)..Len(nodes') : FALSE
  BY <1>2, <1>4, NoNode
<1>9. DeclaresHere
  BY <1>8 DEF DeclaresHere, Undeclared
<1>10. \A i \in 1..Len(calls) : calls[i] = c \/ calls[i] = d
  BY <1>6
<1>11. TodoInv' /\ CallsInv'
  <2>1. ASSUME NEW i \in 1..Len(calls)
        PROVE  /\ calls[i].do \in Plain
               /\ calls[i].at \in 0..Len(nodes')
               /\ Barriers(calls[i].at)' = Barriers(todo[1].at)
               /\ calls[i].do = "typedec" => calls[i].at > 0 /\ Kind(calls[i].at)' = "chunk"
               /\ Housed(i)'
    <3>1. PICK do, at : do = calls[i].do /\ at = calls[i].at
      OBVIOUS
    <3>2. do = "exp" \/ do = "leave exp"
      BY <1>1, <1>5, <1>10, <3>1
    <3>3. do \in Plain /\ do # "typedec"
      BY <3>2 DEF Plain
    <3>4. at = At
      BY <1>5, <1>10, <3>1
    <3>5. at \in 0..Len(nodes') /\ Barriers(at)' = Barriers(todo[1].at)
      BY <1>2, <1>4, <1>8, <3>4, TreeKept
    <3>6. Housed(i)'
      <4>1. todo'[i].do = do
        BY <1>7, <3>1 DEF Pushed
      <4>2. do \notin {"index", "formal", "vardec", "chunks", "typedec", "declare"}
        BY <3>2
      <4> QED BY <4>1, <4>2 DEF Housed
    <3> QED BY <3>1, <3>3, <3>5, <3>6
  <2>2. todo[1].do \notin BarrierEnds /\ todo[1].do \notin {"declare", "fundec"}
    BY <1>3, <1>4
  <2> QED BY <1>2, <1>4, <1>7, <1>8, <1>9, <2>1, <2>2, PlainCalls
<1>12. MapsInv'
  <2>1. Picked(todo', ScopeEnds) = <<calls[Len(calls)]>> \o Picked(todo, ScopeEnds)
    <3>1. todo[1].do \notin ScopeEnds /\ Len(calls) > 0 /\ calls[Len(calls)].do \in ScopeEnds
      BY <1>3, <1>4, <1>5, <1>6
    <3>2. \A i \in 1..(Len(calls) - 1) : calls[i].do \notin ScopeEnds
      <4>1. "exp" \notin ScopeEnds
        BY DEF ScopeEnds
      <4>2. \A i \in 1..(Len(calls) - 1) : calls[i] = c
        BY <1>6
      <4> QED BY <1>5, <4>1, <4>2
    <3> QED BY <1>7, <3>1, <3>2, PendingMore
  <2>2. calls[Len(calls)] = d
    BY <1>6
  <2>3. d.do \in ScopeEnds /\ d.do \notin BarrierEnds
    BY <1>3, <1>5
  <2> QED BY <1>2, <1>4, <1>5, <1>8, <2>1, <2>2, <2>3, MapsBegin
<1>13. LoopsInv'
  <2>1. \A i \in 1..Len(calls) : calls[i].do \notin LoopEnds
    <3>1. "exp" \notin LoopEnds
      BY DEF LoopEnds
    <3> QED BY <1>3, <1>5, <1>10, <3>1
  <2>2. Picked(todo', LoopEnds) = Picked(todo, LoopEnds)
    BY <1>3, <1>4, <1>7, <2>1, PendingKept
  <2> QED BY <1>2, <1>4, <2>2, LoopsAre, LoopsAreNext
<1>14. outcome' \in {"visiting", "bound"} /\ outcome' = "visiting"
  BY <1>2, <1>4
<1> QED BY <1>4, <1>8, <1>11, <1>12, <1>13, <1>14, GoesOn

\* Unless functions are being declared, calls only speak of nodes that exist.
LEMMA CallsBehind ==
  ASSUME TreeInv, TodoInv, todo # <<>>, todo[1].do # "declare"
  PROVE  \A k \in 1..Len(todo) : todo[k].at \in 0..Len(nodes)
<1>1. SUFFICES ASSUME NEW k \in 1..Len(todo), ~(todo[k].at \in 0..Len(nodes)) PROVE FALSE
  OBVIOUS
<1>2. Len(nodes) \in Nat /\ todo[k].at \in Nat /\ Placed(k)
  BY TreeNodes, Pendings
<1>3. todo[k].at > Len(nodes)
  BY <1>1, <1>2
<1>4. todo[k].do = "fundec"
  <2>1. todo[k].do # "fundec" => todo[k].at <= Len(nodes)
    BY <1>2 DEF Placed
  <2> QED BY <1>2, <1>3, <2>1
<1>5. todo[1].do = "declare"
  BY <1>2, <1>3, <1>4, WaitForDeclarations
<1> QED BY <1>5

LEMMA OpeningStep ==
  ASSUME BinderInv, NEW what, Visiting(what), what \in {"exp", "fundec"},
         TreeInv', Extended, Undeclared, NEW calls \in Seq(Calling), Goes(calls), Len(calls) > 0,
         NEW c, c = calls[Len(calls)], c.do \in BarrierEnds, c.copy = in_loop_,
         NEW o, c.at = o, o \in 1..Len(nodes'),
         c.do \in LoopEnds => Kind(o)' = "loop",
         c.do \notin LoopEnds => Kind(o)' \in {"let", "function"},
         in_loop_' = (c.do \in LoopEnds), outcome' = outcome,
         DeclaredIn(Declarations, o) = {},
         \/ c.do \in ScopeEnds /\ ScopesBegin
         \/ c.do \notin ScopeEnds /\ maps' = maps,
         \/ c.do \in LoopEnds /\ loops_' = Append(loops_, o)
         \/ c.do \notin LoopEnds /\ loops_' = loops_,
         \A i \in 1..(Len(calls) - 1) :
           /\ calls[i].at = o
           /\ calls[i].do \in {"index", "formal", "chunks", "exp"}
           /\ calls[i].do # "exp" => c.do \in ScopeEnds,
         Barriers(o)' = {o} \cup Enders(1),
         \A k \in 2..Len(todo) : todo[k].do \in BarrierEnds \cup {"fundec"} => todo[k].at # o,
         \A i \in (Len(nodes) + 1)..Len(nodes') : Bound(i)' /\ Fresh(i)'
  PROVE  BinderInv'
<1>1. /\ TypeOK /\ TreeInv /\ TodoInv /\ CallsInv /\ MapsInv /\ LoopsInv /\ outcome = "visiting"
      /\ todo # <<>> /\ todo[1].do = what
  BY OnVisit
<1>2. Pushed(calls)
  BY <1>1, GoesPushes
<1>3. /\ todo[1].do \notin BarrierEnds /\ todo[1].do # "declare" /\ todo[1].do \notin ScopeEnds
      /\ todo[1].do \notin LoopEnds
  BY <1>1 DEF BarrierEnds, ScopeEnds, LoopEnds
<1>4. DeclaresHere
  BY DEF DeclaresHere, Undeclared
<1>5. c \in Calling
  BY <1>2 DEF Pushed
<1>6. DeclaredIn(Declarations, o)' = {}
  BY <1>1, UndeclaredKept
<1>7. TodoInv' /\ CallsInv'
  BY <1>1, <1>2, <1>3, <1>4, <1>6, EndingCalls
<1>8. ASSUME NEW i \in 1..(Len(calls) - 1) PROVE calls[i].do \notin ScopeEnds /\ calls[i].do \notin LoopEnds
  <2>1. calls[i].do \in {"index", "formal", "chunks", "exp"}
    OBVIOUS
  <2> QED BY <2>1 DEF ScopeEnds, LoopEnds
<1>9. MapsInv'
  <2>1. CASE c.do \in ScopeEnds
    <3>1. Picked(todo', ScopeEnds) = <<c>> \o Picked(todo, ScopeEnds)
      BY <1>2, <1>3, <1>8, <2>1, PendingMore
    <3>2. c.at > 0 /\ DeclaredIn(Declarations, c.at) = {}
      BY FromZero
    <3>3. \A j \in 1..Len(todo) : todo[j].do \in BarrierEnds => todo[j].at # c.at
      <4>1. \A j \in 1..Len(todo) : j = 1 \/ j \in 2..Len(todo)
        BY <1>2 DEF Pushed
      <4> QED BY <1>3, <4>1
    <3>4. ScopesBegin
      BY <2>1
    <3> QED BY <1>1, <1>5, <2>1, <3>1, <3>2, <3>3, <3>4, MapsBegin
  <2>2. CASE c.do \notin ScopeEnds
    <3>1. \A i \in 1..Len(calls) : calls[i].do \notin ScopeEnds
      <4>1. \A i \in 1..Len(calls) : i \in 1..(Len(calls) - 1) \/ i = Len(calls)
        BY <1>2 DEF Pushed
      <4> QED BY <1>8, <2>2, <4>1
    <3>2. Picked(todo', ScopeEnds) = Picked(todo, ScopeEnds)
      BY <1>2, <1>3, <3>1, PendingKept
    <3>3. maps' = maps
      BY <2>2
    <3> QED BY <1>1, <3>2, <3>3, MapsStay
  <2> QED BY <2>1, <2>2
<1>10. LoopsInv'
  <2>1. CASE c.do \in LoopEnds
    <3>1. PICK s : s = Picked(todo, LoopEnds)
      OBVIOUS
    <3>2. Picked(todo', LoopEnds) = <<c>> \o s
      BY <1>2, <1>3, <1>8, <2>1, <3>1, PendingMore
    <3>3. s \in Seq(Calling)
      <4>1. todo \in Seq(Calling)
        BY <1>2 DEF Pushed
      <4> QED BY <3>1, <4>1, PickedFrom
    <3>4. Nodes(<<c>> \o s) = Append(Nodes(s), o)
      BY <1>5, <3>3, NodesMore
    <3>5. loops_' = Append(loops_, o)
      BY <2>1
    <3> QED BY <1>1, <3>1, <3>2, <3>4, <3>5, LoopsAre, LoopsAreNext
  <2>2. CASE c.do \notin LoopEnds
    <3>1. \A i \in 1..Len(calls) : calls[i].do \notin LoopEnds
      <4>1. \A i \in 1..Len(calls) : i \in 1..(Len(calls) - 1) \/ i = Len(calls)
        BY <1>2 DEF Pushed
      <4> QED BY <1>8, <2>2, <4>1
    <3>2. Picked(todo', LoopEnds) = Picked(todo, LoopEnds)
      BY <1>2, <1>3, <3>1, PendingKept
    <3> QED BY <1>1, <2>2, <3>2, LoopsAre, LoopsAreNext
  <2> QED BY <2>1, <2>2
<1>11. outcome' \in {"visiting", "bound"} /\ outcome' = "visiting"
  BY <1>1
<1> QED BY <1>1, <1>7, <1>9, <1>10, <1>11, GoesOn

\* A loop or a let, with what its handler calls before it ends.
LEMMA BlockStep ==
  ASSUME BinderInv, NEW what, Visiting(what), what \in {"exp"},
         TreeInv', Extended, NEW new, new = This, new \in 1..Len(nodes'), nodes'[new].in = At,
         Kind(new)' \in {"loop", "let"},
         \A i \in (Len(nodes) + 1)..Len(nodes') : Kind(i)' \in {"loop", "let", "test"},
         NEW calls \in Seq(Calling), Goes(calls), Len(calls) > 0,
         NEW c, c = calls[Len(calls)], c.do \in BarrierEnds, c.at = new, c.copy = in_loop_,
         c.do \in LoopEnds <=> Kind(new)' = "loop",
         in_loop_' = (c.do \in LoopEnds), outcome' = outcome,
         \/ c.do \in ScopeEnds /\ ScopesBegin
         \/ c.do \notin ScopeEnds /\ maps' = maps,
         \/ c.do \in LoopEnds /\ loops_' = Append(loops_, new)
         \/ c.do \notin LoopEnds /\ loops_' = loops_,
         \A i \in 1..(Len(calls) - 1) :
           /\ calls[i].at = new
           /\ calls[i].do \in {"index", "formal", "chunks", "exp"}
           /\ calls[i].do # "exp" => c.do \in ScopeEnds
  PROVE  BinderInv'
<1>1. what # "fundec" /\ what # "declare" /\ what \in {"exp", "fundec"}
  OBVIOUS
<1>2. /\ TreeInv /\ TodoInv /\ CallsInv /\ todo # <<>> /\ todo[1].do = what /\ Fits(1)
      /\ At = todo[1].at /\ At \in 0..Len(nodes) /\ Len(nodes) \in Nat
  BY <1>1, OnVisit
<1>3. Undeclared /\ \A i \in (Len(nodes) + 1)..Len(nodes') : Bound(i)' /\ Fresh(i)'
  <2>1. ASSUME NEW i \in (Len(nodes) + 1)..Len(nodes')
        PROVE  /\ Kind(i)' \notin Declarations /\ Kind(i)' \notin {"function", "type"}
               /\ Kind(i)' \notin {"variable", "call", "type name", "break"}
    <3>1. Kind(i)' \in {"loop", "let", "test"}
      OBVIOUS
    <3> QED BY <3>1 DEF Declarations
  <2> QED BY <2>1 DEF Undeclared, Bound, Fresh
<1>4. Barriers(new)' = {new} \cup Enders(1)
  <2>1. Kind(new)' \in Barrier
    BY DEF Barrier
  <2>2. Barriers(new)' = {new} \cup Barriers(At)
    BY <1>2, <2>1, BarriersNew
  <2>3. Barriers(At) = Enders(1)
    <3>1. Around(1) = At /\ Enclosed(1)
      BY <1>1, <1>2 DEF Around, Fits
    <3> QED BY <3>1 DEF Enclosed
  <2> QED BY <2>2, <2>3
<1>5. DeclaredIn(Declarations, new) = {}
  <2>1. \A d \in 1..Len(nodes) : Kind(d) \in Declarations => Owner(d) \in 0..(d - 1)
    BY <1>2, TreeNodes
  <2>2. \A d \in 1..Len(nodes) : new \notin 0..(d - 1)
    BY <1>2 DEF This
  <2> QED BY <2>1, <2>2 DEF DeclaredIn
<1>6. \A k \in 2..Len(todo) : todo[k].at # new
  <2>1. \A k \in 1..Len(todo) : todo[k].at \in 0..Len(nodes)
    BY <1>1, <1>2, CallsBehind
  <2>2. new \notin 0..Len(nodes) /\ \A k \in 2..Len(todo) : k \in 1..Len(todo)
    BY <1>2 DEF This
  <2> QED BY <2>1, <2>2
<1>7. c.do \notin LoopEnds => Kind(new)' \in {"let", "function"}
  OBVIOUS
<1> QED BY <1>1, <1>3, <1>4, <1>5, <1>6, <1>7, OpeningStep

\* A node of its own kind: a loop or a let.
LEMMA NewBlock ==
  ASSUME BinderInv, NEW what, Visiting(what), what \in {"exp"}, NEW kind \in {"loop", "let"},
         Adds(Node(kind, At, NoName, NoPointer)), NEW new, new = This
  PROVE  /\ TreeInv' /\ Extended /\ new \in 1..Len(nodes') /\ nodes'[new].in = At /\ Kind(new)' = kind
         /\ \A i \in (Len(nodes) + 1)..Len(nodes') : Kind(i)' \in {"loop", "let", "test"}
<1>1. what # "fundec"
  OBVIOUS
<1>2. TreeInv /\ At \in 0..Len(nodes) /\ Len(nodes) \in Nat
  BY <1>1, OnVisit
<1>3. PICK at, name, def : at = At /\ name = NoName /\ def = NoPointer
  OBVIOUS
<1>4. PICK node : node = Node(kind, at, name, def)
  OBVIOUS
<1>5. kind \in Kinds /\ kind \notin Declarations /\ kind \notin Variables /\ kind \notin {"function", "type"}
  BY DEF Kinds, Declarations, Variables
<1>6. Plantable(node)
  <2>1. Fields(node, kind, at, name, def)
    BY <1>4, NodeFields
  <2>2. def \in 0..Len(nodes) /\ name \in Key \cup Builtin \cup {NoName}
    BY <1>2, <1>3, BinderAssumption
  <2> QED BY <1>2, <1>3, <1>5, <2>1, <2>2 DEF Plantable, Fields
<1>7. Adds(Node(kind, at, name, def)) /\ Plantable(Node(kind, at, name, def))
  BY <1>3, <1>4, <1>6
<1>8. /\ TreeInv' /\ Extended /\ new \in 1..Len(nodes')
      /\ Kind(new)' = kind /\ Fields(nodes'[new], kind, at, name, def)
      /\ \A d \in (Len(nodes) + 1)..Len(nodes') : d = new
  BY <1>2, <1>7, NewNode
<1>9. nodes'[new].in = At
  BY <1>3, <1>8 DEF Fields
<1>10. ASSUME NEW i \in (Len(nodes) + 1)..Len(nodes') PROVE Kind(i)' \in {"loop", "let", "test"}
  <2>1. i = new
    BY <1>8
  <2> QED BY <1>8, <2>1
<1> QED BY <1>8, <1>9, <1>10

LEMMA ForExpStep ==
  ASSUME BinderInv, ForExp
  PROVE  BinderInv'
<1>1. PICK new : new = This
  OBVIOUS
<1>2. PICK what, kind, end : what = "exp" /\ kind = "loop" /\ end = "leave for"
  OBVIOUS
<1>3. PICK a, b, c, d : a = Call("index", new) /\ b = Call("exp", new) /\ d = b /\ c = Leave(end, new)
  OBVIOUS
<1>4. PICK calls : calls = <<a, b, d, c>>
  OBVIOUS
<1>5. /\ Visiting(what) /\ Adds(Node(kind, At, NoName, NoPointer)) /\ in_loop_' = TRUE
      /\ loops_' = Append(loops_, new) /\ ScopesBegin /\ Goes(calls) /\ outcome' = outcome
  BY <1>1, <1>2, <1>3, <1>4 DEF ForExp
<1>6. /\ what \in {"exp"} /\ kind \in {"loop", "let"}
      /\ end \in BarrierEnds /\ end \in ScopeEnds /\ end \in LoopEnds /\ end \in Handlers
  BY <1>2 DEF BarrierEnds, ScopeEnds, LoopEnds, Handlers
<1>7. /\ TreeInv' /\ Extended /\ new \in 1..Len(nodes') /\ nodes'[new].in = At /\ Kind(new)' = kind
      /\ \A i \in (Len(nodes) + 1)..Len(nodes') : Kind(i)' \in {"loop", "let", "test"}
  BY <1>1, <1>5, <1>6, NewBlock
<1>8. new \in Nat /\ in_loop_ \in BOOLEAN
  BY <1>1, <1>5, NewAt, OnVisit DEF TypeOK
<1>9. /\ a \in Calling /\ a.do = "index" /\ a.at = new /\ b \in Calling /\ b.do = "exp" /\ b.at = new
      /\ d \in Calling /\ d.do = "exp" /\ d.at = new
  <2>1. "index" \in Handlers /\ "exp" \in Handlers
    BY DEF Handlers
  <2> QED BY <1>3, <1>8, <2>1, CallIs
<1>10. c \in Calling /\ c.do = end /\ c.at = new /\ c.copy = in_loop_
  BY <1>3, <1>6, <1>8, LeaveIs
<1>11. /\ calls \in Seq(Calling) /\ Len(calls) > 0 /\ calls[Len(calls)] = c
       /\ \A i \in 1..(Len(calls) - 1) : calls[i] = a \/ calls[i] = b \/ calls[i] = d
  <2>1. a \in Calling /\ b \in Calling /\ d \in Calling /\ c \in Calling
    BY <1>9, <1>10
  <2> QED BY <1>4, <2>1, FourCalls
<1>12. ASSUME NEW i \in 1..(Len(calls) - 1)
       PROVE  /\ calls[i].at = new
              /\ calls[i].do \in {"index", "formal", "chunks", "exp"}
              /\ calls[i].do # "exp" => c.do \in ScopeEnds
  BY <1>6, <1>9, <1>10, <1>11, Zenon
<1>13. c.do \in BarrierEnds /\ c.do \in ScopeEnds /\ c.do \in LoopEnds /\ Kind(new)' = "loop"
  BY <1>2, <1>6, <1>7, <1>10
<1>14. in_loop_' = (c.do \in LoopEnds)
  BY <1>5, <1>13, Zenon
<1>15. Kind(new)' \in {"loop", "let"}
  BY <1>13
<1> QED BY <1>1, <1>5, <1>6, <1>7, <1>10, <1>11, <1>12, <1>13, <1>14, <1>15, BlockStep

LEMMA LetExpStep ==
  ASSUME BinderInv, LetExp
  PROVE  BinderInv'
<1>1. PICK new : new = This
  OBVIOUS
<1>2. PICK what, kind, end : what = "exp" /\ kind = "let" /\ end = "leave let"
  OBVIOUS
<1>3. PICK a, b, c : a = Call("chunks", new) /\ b = Call("exp", new) /\ c = Leave(end, new)
  OBVIOUS
<1>4. PICK calls : calls = <<a, b, c>>
  OBVIOUS
<1>5. /\ Visiting(what) /\ Adds(Node(kind, At, NoName, NoPointer)) /\ in_loop_' = FALSE
      /\ loops_' = loops_ /\ ScopesBegin /\ Goes(calls) /\ outcome' = outcome
  BY <1>1, <1>2, <1>3, <1>4 DEF LetExp
<1>6. /\ what \in {"exp"} /\ kind \in {"loop", "let"} /\ kind # "loop"
      /\ end \in BarrierEnds /\ end \in ScopeEnds /\ end \notin LoopEnds /\ end \in Handlers
  BY <1>2 DEF BarrierEnds, ScopeEnds, LoopEnds, Handlers
<1>7. /\ TreeInv' /\ Extended /\ new \in 1..Len(nodes') /\ nodes'[new].in = At /\ Kind(new)' = kind
      /\ \A i \in (Len(nodes) + 1)..Len(nodes') : Kind(i)' \in {"loop", "let", "test"}
  BY <1>1, <1>5, <1>6, NewBlock
<1>8. new \in Nat /\ in_loop_ \in BOOLEAN
  BY <1>1, <1>5, NewAt, OnVisit DEF TypeOK
<1>9. a \in Calling /\ a.do = "chunks" /\ a.at = new /\ b \in Calling /\ b.do = "exp" /\ b.at = new
  <2>1. "chunks" \in Handlers /\ "exp" \in Handlers
    BY DEF Handlers
  <2> QED BY <1>3, <1>8, <2>1, CallIs
<1>10. c \in Calling /\ c.do = end /\ c.at = new /\ c.copy = in_loop_
  BY <1>3, <1>6, <1>8, LeaveIs
<1>11. /\ calls \in Seq(Calling) /\ Len(calls) > 0 /\ calls[Len(calls)] = c
       /\ \A i \in 1..(Len(calls) - 1) : calls[i] = a \/ calls[i] = b
  <2>1. a \in Calling /\ b \in Calling /\ c \in Calling
    BY <1>9, <1>10
  <2> QED BY <1>4, <2>1, ThreeCalls
<1>12. ASSUME NEW i \in 1..(Len(calls) - 1)
       PROVE  /\ calls[i].at = new
              /\ calls[i].do \in {"index", "formal", "chunks", "exp"}
              /\ calls[i].do # "exp" => c.do \in ScopeEnds
  BY <1>6, <1>9, <1>10, <1>11, Zenon
<1>13. c.do \in BarrierEnds /\ c.do \in ScopeEnds /\ c.do \notin LoopEnds /\ Kind(new)' # "loop"
  BY <1>6, <1>7, <1>10
<1>14. in_loop_' = (c.do \in LoopEnds)
  <2>1. in_loop_' = FALSE
    BY <1>5
  <2>2. (c.do \in LoopEnds) = FALSE
    BY <1>13
  <2> QED BY <2>1, <2>2
<1>15. Kind(new)' \in {"loop", "let"}
  BY <1>6, <1>7
<1> QED BY <1>1, <1>5, <1>6, <1>7, <1>10, <1>11, <1>12, <1>13, <1>14, <1>15, BlockStep

\* The test of a while is a node of its own, or none.
LEMMA NewLoopAndTest ==
  ASSUME BinderInv, NEW what, Visiting(what), what \in {"exp"}, NEW name \in Key,
         nodes' = nodes \o <<Node("loop", At, NoName, NoPointer), Node("test", This, name, NoPointer)>>,
         NEW new, new = This
  PROVE  /\ TreeInv' /\ Extended /\ new \in 1..Len(nodes') /\ nodes'[new].in = At /\ Kind(new)' = "loop"
         /\ \A i \in (Len(nodes) + 1)..Len(nodes') : Kind(i)' \in {"loop", "let", "test"}
<1>1. what # "fundec"
  OBVIOUS
<1>2. TreeInv /\ At \in 0..Len(nodes) /\ Len(nodes) \in Nat
  BY <1>1, OnVisit
<1>3. PICK at, none, def : at = At /\ none = NoName /\ def = NoPointer
  OBVIOUS
<1>4. PICK n, kind, test : n = Len(nodes) /\ kind = "loop" /\ test = "test"
  OBVIOUS
<1>5. PICK loop : loop = Node(kind, at, none, def)
  OBVIOUS
<1>6. PICK last : last = Node(test, new, name, def)
  OBVIOUS
<1>7. PICK added : added = <<loop, last>>
  OBVIOUS
<1>8. nodes' = nodes \o added
  BY <1>3, <1>4, <1>5, <1>6, <1>7
<1>9. /\ kind \in Kinds /\ test \in Kinds /\ kind \notin Declarations /\ test \notin Declarations
  BY <1>4 DEF Kinds, Declarations
<1>10. n \in Nat /\ new = n + 1 /\ at \in Nat /\ at < n + 1 /\ def \in Nat /\ def < n + 1 /\ new \in Nat
  BY <1>2, <1>3, <1>4, BinderAssumption DEF This
<1>11. Fields(loop, kind, at, none, def) /\ Fields(last, test, new, name, def)
  BY <1>5, <1>6, NodeFields
<1>12. loop \in Planting /\ last \in Planting
  BY <1>3, <1>5, <1>6, <1>9, <1>10, NodePlanting
<1>13. /\ added \in Seq(Planting) /\ Len(added) = 2 /\ added[1] = loop /\ added[2] = last
       /\ \A i \in 1..Len(added) : i = 1 \/ i = 2
  <2> HIDE <1>11, <1>9, <1>1
  <2> QED BY <1>7, <1>12
<1>14. Grows(added)
  <2>1. ASSUME NEW i \in 1..Len(added)
        PROVE  added[i].in < n + i /\ added[i].def < n + i /\ added[i].kind \notin Declarations
    <3>1. CASE i = 1
      <4>1. added[i].in = at /\ added[i].def = def /\ added[i].kind = kind
        BY <1>11, <1>13, <3>1 DEF Fields
      <4> QED BY <1>9, <1>10, <3>1, <4>1
    <3>2. CASE i = 2
      <4>1. added[i].in = new /\ added[i].def = def /\ added[i].kind = test
        BY <1>11, <1>13, <3>2 DEF Fields
      <4>2. new < n + 2 /\ def < n + 2
        BY <1>10
      <4> QED BY <1>9, <3>2, <4>1, <4>2
    <3> QED BY <1>13, <3>1, <3>2
  <2> QED BY <1>4, <1>8, <1>13, <2>1 DEF Grows
<1>15. /\ TreeInv' /\ Extended /\ Len(nodes') = n + 2 /\ nodes'[n + 1] = loop /\ nodes'[n + 2] = last
  <2>1. /\ TreeInv' /\ Extended /\ Len(nodes') = n + Len(added)
        /\ \A i \in 1..Len(added) : nodes'[n + i] = added[i]
    BY <1>2, <1>4, <1>14, TreeGrows
  <2>2. 1 \in 1..Len(added) /\ 2 \in 1..Len(added) /\ n + Len(added) = n + 2
    <3>1. Len(added) = 2
      BY <1>13
    <3> QED BY <3>1
  <2> QED BY <1>13, <2>1, <2>2, Zenon
<1>16. new \in 1..Len(nodes') /\ nodes'[new].in = At /\ Kind(new)' = kind
  <2>1. nodes'[new] = loop /\ new \in 1..Len(nodes')
    BY <1>10, <1>15
  <2> QED BY <1>3, <1>11, <2>1 DEF Fields, Kind
<1>17. ASSUME NEW i \in (Len(nodes) + 1)..Len(nodes') PROVE Kind(i)' \in {"loop", "let", "test"}
  <2>1. i = n + 1 \/ i = n + 2
    BY <1>4, <1>10, <1>15
  <2>2. nodes'[i].kind = kind \/ nodes'[i].kind = test
    BY <1>11, <1>15, <2>1 DEF Fields
  <2> QED BY <1>4, <2>2 DEF Kind
<1> QED BY <1>4, <1>15, <1>16, <1>17

LEMMA WhileExpStep ==
  ASSUME BinderInv, WhileExp
  PROVE  BinderInv'
<1>1. PICK new : new = This
  OBVIOUS
<1>2. PICK what, kind, end : what = "exp" /\ kind = "loop" /\ end = "leave while"
  OBVIOUS
<1>3. PICK b, c : b = Call("exp", new) /\ c = Leave(end, new)
  OBVIOUS
<1>4. PICK calls : calls = <<b, c>>
  OBVIOUS
<1>5. /\ Visiting(what) /\ in_loop_' = TRUE
      /\ loops_' = Append(loops_, new) /\ maps' = maps /\ Goes(calls) /\ outcome' = outcome
  BY <1>1, <1>2, <1>3, <1>4 DEF WhileExp
<1>6. /\ what \in {"exp"} /\ kind \in {"loop", "let"}
      /\ end \in BarrierEnds /\ end \notin ScopeEnds /\ end \in LoopEnds /\ end \in Handlers
  BY <1>2 DEF BarrierEnds, ScopeEnds, LoopEnds, Handlers
<1>7. /\ TreeInv' /\ Extended /\ new \in 1..Len(nodes') /\ nodes'[new].in = At /\ Kind(new)' = kind
      /\ \A i \in (Len(nodes) + 1)..Len(nodes') : Kind(i)' \in {"loop", "let", "test"}
  <2>1. \/ Adds(Node("loop", At, NoName, NoPointer))
        \/ \E name \in Key :
             nodes' = nodes \o <<Node("loop", At, NoName, NoPointer), Node("test", This, name, NoPointer)>>
    BY DEF WhileExp
  <2>2. CASE Adds(Node("loop", At, NoName, NoPointer))
    <3>1. Adds(Node(kind, At, NoName, NoPointer))
      BY <1>2, <2>2
    <3> QED BY <1>1, <1>5, <1>6, <3>1, NewBlock
  <2>3. CASE \E name \in Key :
               nodes' = nodes \o <<Node("loop", At, NoName, NoPointer), Node("test", This, name, NoPointer)>>
    BY <1>1, <1>2, <1>5, <1>6, <2>3, NewLoopAndTest
  <2> QED BY <2>1, <2>2, <2>3
<1>8. new \in Nat /\ in_loop_ \in BOOLEAN
  BY <1>1, <1>5, NewAt, OnVisit DEF TypeOK
<1>9. b \in Calling /\ b.do = "exp" /\ b.at = new
  <2>1. "exp" \in Handlers
    BY DEF Handlers
  <2> QED BY <1>3, <1>8, <2>1, CallIs
<1>10. c \in Calling /\ c.do = end /\ c.at = new /\ c.copy = in_loop_
  BY <1>3, <1>6, <1>8, LeaveIs
<1>11. /\ calls \in Seq(Calling) /\ Len(calls) > 0 /\ calls[Len(calls)] = c
       /\ \A i \in 1..(Len(calls) - 1) : calls[i] = b
  <2>1. b \in Calling /\ c \in Calling
    BY <1>9, <1>10
  <2>2. calls \in Seq(Calling) /\ Len(calls) = 2 /\ calls[1] = b /\ calls[2] = c
    BY <1>4, <2>1, TwoCalls
  <2>3. Len(calls) > 0 /\ \A i \in 1..(Len(calls) - 1) : i = 1
    <3> HIDE <1>9, <1>10
    <3> QED BY <2>2
  <2> QED BY <2>2, <2>3
<1>12. ASSUME NEW i \in 1..(Len(calls) - 1)
       PROVE  /\ calls[i].at = new
              /\ calls[i].do \in {"index", "formal", "chunks", "exp"}
              /\ calls[i].do # "exp" => c.do \in ScopeEnds
  BY <1>9, <1>11, Zenon
<1>13. c.do \in BarrierEnds /\ c.do \notin ScopeEnds /\ c.do \in LoopEnds /\ Kind(new)' = "loop"
  BY <1>2, <1>6, <1>7, <1>10
<1>14. in_loop_' = (c.do \in LoopEnds)
  BY <1>5, <1>13, Zenon
<1>15. Kind(new)' \in {"loop", "let"}
  BY <1>13
<1> QED BY <1>1, <1>5, <1>6, <1>7, <1>10, <1>11, <1>12, <1>13, <1>14, <1>15, BlockStep

LEMMA BarriersOwn ==
  ASSUME TreeInv, NEW i \in 1..Len(nodes), Kind(i) \in Barrier
  PROVE  Barriers(i) = {i} \cup Barriers(nodes[i].in)
<1>1. Rooted /\ i # 0 /\ i \in 0..Len(nodes)
  BY TreeRooted
<1>2. Ancestors[i] = {i} \cup Ancestors[nodes[i].in]
  BY <1>1, AncestorsDef
<1> QED BY <1>1, <1>2 DEF Barriers

LEMMA FunctionDecStep ==
  ASSUME BinderInv, FunctionDec
  PROVE  BinderInv'
<1>1. PICK o : o = At
  OBVIOUS
<1>2. PICK what, end : what = "fundec" /\ end = "leave function"
  OBVIOUS
<1>3. PICK n \in 0..MaxBatch, bodies \in 0..1 :
        Goes(Calls("formal", o, n) \o Calls("exp", o, bodies) \o <<Leave(end, o)>>)
  BY <1>1, <1>2 DEF FunctionDec
<1>4. PICK c : c = Leave(end, o)
  OBVIOUS
<1>5. PICK s, t, calls : s = Calls("formal", o, n) /\ t = Calls("exp", o, bodies) /\ calls = (s \o t) \o <<c>>
  OBVIOUS
<1>6. Goes(calls)
  BY <1>3, <1>4, <1>5
<1>7. /\ Visiting(what) /\ in_loop_' = FALSE /\ loops_' = loops_ /\ ScopesBegin /\ nodes' = nodes
      /\ outcome' = outcome
  BY <1>2 DEF FunctionDec
<1>8. /\ what \in {"exp", "fundec"} /\ what # "declare" /\ what \in BarrierEnds \cup {"fundec"}
      /\ end \in BarrierEnds /\ end \in ScopeEnds /\ end \notin LoopEnds /\ end \in Handlers
  BY <1>2 DEF BarrierEnds, ScopeEnds, LoopEnds, Handlers
<1>9. /\ TypeOK /\ TreeInv /\ TodoInv /\ CallsInv /\ todo # <<>> /\ todo[1].do = what
      /\ o = todo[1].at /\ o \in Nat /\ Fits(1) /\ 1 \in 1..Len(todo) /\ Len(nodes) \in Nat
  BY <1>1, <1>7, OnVisit
<1>10. o \in 1..Len(nodes) /\ Kind(o) = "function"
  <2>1. o \in 0..Len(nodes)
    BY <1>8, <1>9, CallsBehind
  <2>2. o > 0 /\ (o <= Len(nodes) => Kind(o) = "function")
    BY <1>2, <1>9 DEF Fits, Placed
  <2> QED BY <1>9, <2>1, <2>2
<1>11. TreeInv' /\ Extended /\ Undeclared /\ \A i \in (Len(nodes) + 1)..Len(nodes') : FALSE
  BY <1>7, <1>9, NoNode
<1>12. Barriers(o)' = {o} \cup Enders(1)
  <2>1. Kind(o) \in Barrier
    BY <1>10 DEF Barrier
  <2>2. Barriers(o) = {o} \cup Barriers(nodes[o].in)
    BY <1>9, <1>10, <2>1, BarriersOwn
  <2>3. Barriers(nodes[o].in) = Enders(1)
    <3>1. Around(1) = nodes[o].in
      <4>1. ~(todo[1].do # "fundec")
        BY <1>2, <1>9
      <4>2. todo[1].at <= Len(nodes) /\ todo[1].at = o
        BY <1>9, <1>10
      <4> QED BY <4>1, <4>2, Zenon DEF Around
    <3>2. Enclosed(1)
      BY <1>9 DEF Fits
    <3> QED BY <3>1, <3>2 DEF Enclosed
  <2>4. Barriers(o)' = Barriers(o)
    BY <1>9, <1>10, <1>11, TreeKept, FromZero
  <2> QED BY <2>2, <2>3, <2>4
<1>13. DeclaredIn(Declarations, o) = {}
  BY <1>2, <1>9 DEF Fits, Empty
<1>14. \A k \in 2..Len(todo) : todo[k].do \in BarrierEnds \cup {"fundec"} => todo[k].at # o
  <2>1. Once(1) /\ todo[1].do \in BarrierEnds \cup {"fundec"}
    BY <1>8, <1>9 DEF Fits
  <2>2. \A k \in (1 + 1)..Len(todo) : todo[k].do \in BarrierEnds \cup {"fundec"} => todo[k].at # todo[1].at
    BY <2>1 DEF Once
  <2>3. 1 + 1 = 2
    OBVIOUS
  <2> QED BY <1>9, <2>2, <2>3
<1>15. /\ s \in Seq(Calling) /\ \A i \in 1..Len(s) : s[i].do = "formal" /\ s[i].at = o
  <2>1. n \in Nat /\ "formal" \in Handlers
    BY BinderAssumption DEF Handlers
  <2>2. s = Calls("formal", o, n)
    BY <1>5
  <2>3. o \in Nat
    BY <1>9
  <2> QED BY <2>1, <2>2, <2>3, CallsAre
<1>16. /\ t \in Seq(Calling) /\ \A i \in 1..Len(t) : t[i].do = "exp" /\ t[i].at = o
  <2>1. bodies \in Nat /\ "exp" \in Handlers
    BY DEF Handlers
  <2>2. t = Calls("exp", o, bodies)
    BY <1>5
  <2>3. o \in Nat
    BY <1>9
  <2> QED BY <2>1, <2>2, <2>3, CallsAre
<1>17. c \in Calling /\ c.do = end /\ c.at = o /\ c.copy = in_loop_
  <2>1. in_loop_ \in BOOLEAN
    BY <1>9 DEF TypeOK
  <2> QED BY <1>4, <1>8, <1>9, <2>1, LeaveIs
<1>18. PICK u : u = s \o t
  OBVIOUS
<1>19. /\ u \in Seq(Calling) /\ \A i \in 1..Len(u) : u[i].at = o /\ u[i].do \in {"index", "formal", "chunks", "exp"}
  <2>1. u \in Seq(Calling)
    BY <1>15, <1>16, <1>18, Joined
  <2>2. ASSUME NEW i \in 1..Len(u)
        PROVE  (\E k \in 1..Len(s) : u[i] = s[k]) \/ (\E k \in 1..Len(t) : u[i] = t[k])
    <3>1. /\ \A k \in 1..Len(s) : u[k] = s[k]
          /\ \A k \in 1..Len(t) : u[Len(s) + k] = t[k]
          /\ i \in 1..Len(s) \/ \E k \in 1..Len(t) : i = Len(s) + k
      BY <1>15, <1>16, <1>18, Joined
    <3> QED BY <3>1, Zenon
  <2>3. ASSUME NEW i \in 1..Len(u) PROVE u[i].at = o /\ u[i].do \in {"index", "formal", "chunks", "exp"}
    <3>1. (u[i].do = "formal" \/ u[i].do = "exp") /\ u[i].at = o
      <4>1. CASE \E k \in 1..Len(s) : u[i] = s[k]
        BY <1>15, <4>1, Zenon
      <4>2. CASE \E k \in 1..Len(t) : u[i] = t[k]
        BY <1>16, <4>2, Zenon
      <4> QED BY <2>2, <4>1, <4>2
    <3> QED BY <3>1
  <2> QED BY <2>1, <2>3
<1>20. /\ calls \in Seq(Calling) /\ Len(u) \in Nat /\ Len(calls) = Len(u) + 1
       /\ \A i \in 1..Len(u) : calls[i] = u[i]
       /\ calls[Len(u) + 1] = c
  <2>1. calls = u \o <<c>>
    BY <1>5, <1>18
  <2> QED BY <1>17, <1>19, <2>1, JoinedOne
<1>21. PICK m : m = Len(u)
  OBVIOUS
<1>22. m \in Nat /\ Len(calls) = m + 1 /\ calls[Len(calls)] = c /\ Len(calls) - 1 = m /\ Len(calls) > 0
  <2>1. m \in Nat /\ Len(calls) = m + 1 /\ calls[m + 1] = c
    BY <1>20, <1>21
  <2>2. m + 1 - 1 = m /\ m + 1 > 0
    <3>1. m \in Nat
      BY <2>1
    <3> QED BY <3>1
  <2> QED BY <2>1, <2>2
<1>23. ASSUME NEW i \in 1..(Len(calls) - 1)
       PROVE  /\ calls[i].at = o
              /\ calls[i].do \in {"index", "formal", "chunks", "exp"}
              /\ calls[i].do # "exp" => c.do \in ScopeEnds
  <2>1. i \in 1..Len(u) /\ calls[i] = u[i]
    BY <1>20, <1>21, <1>22, <1>23, Zenon
  <2> QED BY <1>8, <1>17, <1>19, <2>1, Zenon
<1>24. /\ c.do \in BarrierEnds /\ c.do \in ScopeEnds /\ c.do \notin LoopEnds
       /\ o \in 1..Len(nodes') /\ Kind(o)' \in {"let", "function"}
  BY <1>7, <1>8, <1>10, <1>17 DEF Kind
<1>25. in_loop_' = (c.do \in LoopEnds)
  <2>1. in_loop_' = FALSE
    BY <1>7
  <2>2. (c.do \in LoopEnds) = FALSE
    BY <1>24
  <2> QED BY <2>1, <2>2
<1> QED BY <1>6, <1>7, <1>8, <1>11, <1>12, <1>13, <1>14, <1>17, <1>20, <1>22, <1>23, <1>24, <1>25, OpeningStep

LEMMA LoopStep ==
  ASSUME BinderInv, Loop
  PROVE  BinderInv'
BY ForExpStep, WhileExpStep, LeavesStep DEF Loop

LEMMA ScopeStep ==
  ASSUME BinderInv, Scope
  PROVE  BinderInv'
BY SeqStep, ScopedExpStep, LetExpStep, LeavesStep DEF Scope

-----------------------------------------------------------------------------
(* Chunks.                                                                 *)

\* The declarations of a chunk are in the scope the chunks are in.
LEMMA ChunkHoused ==
  ASSUME BinderInv, NEW what, Visiting(what), what = "chunks", NEW calls, Pushed(calls),
         \A m \in 1..Len(calls) : calls[m].do \in Walkers,
         NEW i \in 1..Len(calls), Holder(i)' = At
  PROVE  Housed(i)'
<1>1. todo[1].do = "chunks" /\ At = todo[1].at /\ Fits(1)
  BY OnVisit
<1>2. Houses(1, At)
  <2>1. Housed(1) /\ todo[1].do \in {"index", "formal", "vardec", "chunks", "typedec", "declare"}
    BY <1>1 DEF Fits
  <2>2. Holder(1) = At
    <3>1. todo[1].do \notin {"typedec", "declare"}
      BY <1>1
    <3> QED BY <1>1, <3>1, Zenon DEF Holder
  <2> QED BY <2>1, <2>2, Zenon DEF Housed
<1>3. i \in 0..Len(calls) /\ \A m \in (i + 1)..Len(calls) : m \in 1..Len(calls)
  <2>1. Len(calls) \in Nat
    BY DEF Pushed
  <2> HIDE <1>1
  <2> QED BY <2>1
<1>4. \A m \in (i + 1)..Len(calls) : calls[m].do \notin ScopeEnds
  <2>1. \A x \in Walkers : x \notin ScopeEnds
    BY DEF Walkers, ScopeEnds
  <2> QED BY <1>3, <2>1, Zenon
<1>5. Housed(i)'
  <2>1. PICK o : o = At
    OBVIOUS
  <2>2. Houses(i, o)'
    BY <1>2, <1>3, <1>4, <2>1, HousesOver
  <2>3. Holder(i)' = o
    BY <2>1
  <2>4. Houses(i, Holder(i))'
    BY <2>2, <2>3 DEF Houses, NextEnd, ScopeEnds
  <2> QED BY <2>4 DEF Housed
<1> QED BY <1>5

LEMMA VarChunkStep ==
  ASSUME BinderInv, VarChunk
  PROVE  BinderInv'
<1>1. PICK what, do, at : what = "chunks" /\ do = "vardec" /\ at = At
  OBVIOUS
<1>2. PICK c, d : c = Call(do, at) /\ d = Head(todo)
  OBVIOUS
<1>3. PICK calls : calls = <<c, d>>
  OBVIOUS
<1>4. Visiting(what) /\ Goes(calls) /\ nodes' = nodes /\ UNCHANGED <<maps, in_loop_, loops_, outcome>>
  BY <1>1, <1>2, <1>3 DEF VarChunk
<1>5. what # "fundec" /\ what \in {"exp", "type", "chunks"} /\ what \in Walkers /\ do \in Walkers /\ do \in Handlers
  BY <1>1 DEF Walkers, Handlers
<1>6. /\ TreeInv /\ TodoInv /\ todo # <<>> /\ d = todo[1] /\ d.do = what /\ at = todo[1].at /\ at \in Nat
      /\ at \in 0..Len(nodes) /\ todo \in Seq(Calling)
  BY <1>1, <1>2, <1>4, <1>5, OnVisit
<1>7. c \in Calling /\ c.do = do /\ c.at = at /\ d \in Calling /\ d.at = at
  BY <1>2, <1>5, <1>6, CallIs
<1>8. calls \in Seq(Calling) /\ Len(calls) = 2 /\ calls[1] = c /\ calls[2] = d
  <2>1. c \in Calling /\ d \in Calling
    BY <1>7
  <2> QED BY <1>3, <2>1, TwoCalls
<1>9. TreeInv' /\ Extended /\ Undeclared /\ \A i \in (Len(nodes) + 1)..Len(nodes') : FALSE
  BY <1>4, <1>6, NoNode
<1>10. ASSUME NEW i \in 1..Len(calls) PROVE (calls[i] = c \/ calls[i] = d) /\ calls[i].at = at
  <2>1. i = 1 \/ i = 2
    BY <1>8
  <2> QED BY <1>7, <1>8, <2>1
<1>11. \A i \in 1..Len(calls) : calls[i].do \in Walkers /\ (calls[i].do = do \/ calls[i].do = what)
  BY <1>5, <1>6, <1>7, <1>10
<1>12. ASSUME NEW i \in 1..Len(calls), Pushed(calls) PROVE Housed(i)'
  <2>1. todo'[i].do \notin {"typedec", "declare"} /\ todo'[i].at = at
    <3>1. todo'[i] = calls[i]
      BY <1>12 DEF Pushed
    <3>2. do \notin {"typedec", "declare"} /\ what \notin {"typedec", "declare"}
      BY <1>1
    <3> QED BY <1>10, <1>11, <3>1, <3>2
  <2>2. Holder(i)' = At
    BY <1>1, <2>1 DEF Holder
  <2>3. \A m \in 1..Len(calls) : calls[m].do \in Walkers
    BY <1>11
  <2>4. Visiting(what) /\ what = "chunks"
    BY <1>1, <1>4
  <2> QED BY <1>12, <2>2, <2>3, <2>4, ChunkHoused
<1>13. at \in 0..Len(nodes') /\ Barriers(at)' = Barriers(at)
  BY <1>4, <1>6, <1>9, TreeKept
<1>14. ASSUME NEW i \in 1..Len(calls)
       PROVE  /\ calls[i].do \in Walkers
              /\ calls[i].at \in 0..Len(nodes')
              /\ Barriers(calls[i].at)' = Barriers(At)
              /\ calls[i].do = "typedec" => calls[i].at > 0 /\ Kind(calls[i].at)' = "chunk"
              /\ calls[i].do \in {"vardec", "chunks", "typedec"} => (Pushed(calls) => Housed(i)')
  <2>1. calls[i].do \in Walkers
    BY <1>11
  <2>2. PICK x : x = calls[i].at
    OBVIOUS
  <2>3. x \in 0..Len(nodes') /\ Barriers(x)' = Barriers(At)
    BY <1>1, <1>10, <1>13, <2>2
  <2>4. calls[i].do # "typedec"
    BY <1>1, <1>11
  <2> QED BY <1>12, <2>1, <2>2, <2>3, <2>4
<1>15. UNCHANGED <<maps, in_loop_, loops_, outcome>>
  BY <1>4
<1> QED BY <1>4, <1>5, <1>8, <1>9, <1>14, <1>15, PlainStep

LEMMA TypeChunkStep ==
  ASSUME BinderInv, TypeChunk
  PROVE  BinderInv'
<1>1. PICK n \in 1..MaxBatch : /\ Adds(Node("chunk", At, NoName, NoPointer))
                               /\ Goes(Calls("typedec", This, n) \o <<Head(todo)>>)
  BY DEF TypeChunk
<1>2. PICK what, do, kind, at, new : what = "chunks" /\ do = "typedec" /\ kind = "chunk" /\ at = At /\ new = This
  OBVIOUS
<1>3. PICK s, d : s = Calls(do, new, n) /\ d = Head(todo)
  OBVIOUS
<1>4. PICK calls : calls = s \o <<d>>
  OBVIOUS
<1>5. PICK name, def : name = NoName /\ def = NoPointer
  OBVIOUS
<1>6. /\ Visiting(what) /\ Goes(calls) /\ Adds(Node(kind, At, name, def))
      /\ UNCHANGED <<maps, in_loop_, loops_, outcome>>
  BY <1>1, <1>2, <1>3, <1>4, <1>5 DEF TypeChunk
<1>7. /\ what # "fundec" /\ what \in {"exp", "type", "chunks"} /\ what \in Walkers /\ do \in Walkers
      /\ do \in Handlers /\ kind \in Leaves
  BY <1>2 DEF Walkers, Handlers, Leaves
<1>8. /\ TreeInv /\ TodoInv /\ todo # <<>> /\ d = todo[1] /\ d.do = what /\ at = todo[1].at /\ at \in Nat
      /\ at \in 0..Len(nodes) /\ todo \in Seq(Calling) /\ Len(nodes) \in Nat
  BY <1>2, <1>3, <1>6, <1>7, OnVisit
<1>9. /\ TreeInv' /\ Extended /\ Undeclared
      /\ new = Len(nodes') /\ new \in 1..Len(nodes') /\ Kind(new)' = kind /\ nodes'[new].in = at
      /\ Barriers(new)' = Barriers(At) /\ Fresh(new)'
      /\ \A i \in (Len(nodes) + 1)..Len(nodes') : i = new
  <2>1. def \in 0..Len(nodes) /\ name \in Key \cup Builtin \cup {NoName}
    BY <1>5, <1>8, BinderAssumption
  <2>2. /\ TreeInv' /\ Extended /\ Undeclared
        /\ \A m : m = This =>
              /\ m = Len(nodes') /\ m \in 1..Len(nodes')
              /\ Kind(m)' = kind /\ Fields(nodes'[m], kind, At, name, def)
              /\ Barriers(m)' = Barriers(At) /\ Fresh(m)'
              /\ \A i \in (Len(nodes) + 1)..Len(nodes') : i = m
    BY <1>6, <1>7, <2>1, NewLeaf
  <2>3. Fields(nodes'[new], kind, At, name, def)
    BY <1>2, <2>2
  <2>4. nodes'[new].in = at
    BY <1>2, <2>3 DEF Fields
  <2> QED BY <1>2, <2>2, <2>4
<1>10. d \in Calling /\ d.at = at
  BY <1>8
<1>11. /\ s \in Seq(Calling) /\ \A i \in 1..Len(s) : s[i].do = do /\ s[i].at = new
  <2>1. n \in Nat /\ new \in Nat
    BY <1>2, <1>6, NewAt
  <2> QED BY <1>3, <1>7, <2>1, CallsAre
<1>12. calls \in Seq(Calling) /\ \A i \in 1..Len(calls) : (calls[i].do = do /\ calls[i].at = new) \/ calls[i] = d
  <2>1. /\ calls \in Seq(Calling) /\ \A i \in 1..Len(s) : calls[i] = s[i]
        /\ calls[Len(s) + 1] = d /\ \A i \in 1..Len(calls) : i \in 1..Len(s) \/ i = Len(s) + 1
    BY <1>4, <1>10, <1>11, JoinedOne
  <2> QED BY <1>11, <2>1, Zenon
<1>13. new \in 0..Len(nodes') /\ new > 0
  BY <1>9, FromZero
<1>14. at \in 0..Len(nodes') /\ Barriers(at)' = Barriers(At)
  <2>1. Barriers(at)' = Barriers(at) /\ Len(nodes') \in Nat /\ Len(nodes) <= Len(nodes')
    BY <1>8, <1>9, TreeKept
  <2> QED BY <1>2, <1>8, <2>1
<1>15. ASSUME NEW i \in 1..Len(calls), Pushed(calls) PROVE Housed(i)'
  <2>1. todo'[i] = calls[i]
    BY <1>15 DEF Pushed
  <2>2. Holder(i)' = At
    <3>1. CASE calls[i].do = do /\ calls[i].at = new
      <4>1. todo'[i].do \in {"typedec", "declare"} /\ nodes'[todo'[i].at].in = at
        BY <1>2, <1>9, <2>1, <3>1
      <4> QED BY <1>2, <4>1 DEF Holder
    <3>2. CASE calls[i] = d
      <4>1. todo'[i].do \notin {"typedec", "declare"} /\ todo'[i].at = at
        BY <1>2, <1>8, <1>10, <2>1, <3>2
      <4> QED BY <1>2, <4>1 DEF Holder
    <3> QED BY <1>12, <3>1, <3>2
  <2>3. \A m \in 1..Len(calls) : calls[m].do \in Walkers
    BY <1>7, <1>8, <1>12
  <2>4. Visiting(what) /\ what = "chunks"
    BY <1>2, <1>6
  <2> QED BY <1>15, <2>2, <2>3, <2>4, ChunkHoused
<1>16. ASSUME NEW i \in 1..Len(calls)
       PROVE  /\ calls[i].do \in Walkers
              /\ calls[i].at \in 0..Len(nodes')
              /\ Barriers(calls[i].at)' = Barriers(At)
              /\ calls[i].do = "typedec" => calls[i].at > 0 /\ Kind(calls[i].at)' = "chunk"
              /\ calls[i].do \in {"vardec", "chunks", "typedec"} => (Pushed(calls) => Housed(i)')
  <2>1. PICK x, does : x = calls[i].at /\ does = calls[i].do
    OBVIOUS
  <2>2. CASE does = do /\ x = new
    <3>1. does \in Walkers /\ x \in 0..Len(nodes') /\ Barriers(x)' = Barriers(At) /\ x > 0 /\ Kind(x)' = kind
      BY <1>7, <1>9, <1>13, <2>2
    <3> QED BY <1>2, <1>15, <2>1, <3>1
  <2>3. CASE calls[i] = d
    <3>1. does \in Walkers /\ x \in 0..Len(nodes') /\ Barriers(x)' = Barriers(At) /\ does # "typedec"
      BY <1>2, <1>7, <1>8, <1>10, <1>14, <2>1, <2>3
    <3> QED BY <1>15, <2>1, <3>1
  <2> QED BY <1>12, <2>1, <2>2, <2>3
<1>17. \A i \in (Len(nodes) + 1)..Len(nodes') : Bound(i)' /\ Fresh(i)'
  <2>1. Kind(new)' \notin {"variable", "call", "type name", "break"}
    BY <1>2, <1>9
  <2>2. Bound(new)'
    BY <2>1 DEF Bound
  <2> QED BY <1>9, <2>2
<1>18. UNCHANGED <<maps, in_loop_, loops_, outcome>>
  BY <1>6
<1> QED BY <1>6, <1>7, <1>9, <1>12, <1>16, <1>17, <1>18, PlainStep

\* The calls for n functions, and the one for the chunks that follow.
ForFunctions(new, n, d) ==
  Calls("declare", new, n) \o [i \in 1..n |-> Call("fundec", new + i)] \o <<d>>

LEMMA FunctionCalls ==
  ASSUME NEW new \in Nat, NEW n \in Nat, NEW d \in Calling, NEW calls,
         calls = ForFunctions(new, n, d)
  PROVE  calls \in Seq(Calling) /\ Functions(calls, new, n, d)
<1>1. PICK do, what : do = "declare" /\ what = "fundec"
  OBVIOUS
<1>2. do \in Handlers /\ what \in Handlers
  BY <1>1 DEF Handlers
<1>3. PICK s : s = Calls(do, new, n)
  OBVIOUS
<1>4. s \in Seq(Calling) /\ Len(s) = n /\ \A i \in 1..Len(s) : s[i].do = do /\ s[i].at = new
  BY <1>2, <1>3, CallsAre
<1>5. PICK t : t = [i \in 1..n |-> Call(what, new + i)]
  OBVIOUS
<1>6. ASSUME NEW i \in 1..n
      PROVE  Call(what, new + i) \in Calling /\ Call(what, new + i).do = what /\ Call(what, new + i).at = new + i
  <2>1. PICK m : m = new + i
    OBVIOUS
  <2>2. m \in Nat
    BY <2>1
  <2> QED BY <1>2, <2>1, <2>2, CallIs
<1>7. /\ t \in Seq(Calling) /\ Len(t) = n
      /\ \A i \in 1..Len(t) : t[i].do = what /\ t[i].at = new + i
  <2>1. \A i \in 1..n : t[i] \in Calling /\ t[i].do = what /\ t[i].at = new + i
    BY <1>5, <1>6
  <2>2. t \in [1..n -> Calling]
    BY <1>5, <1>6
  <2>3. t \in Seq(Calling) /\ Len(t) = n
    BY <2>2
  <2> QED BY <2>1, <2>3
<1>8. PICK u : u = s \o t
  OBVIOUS
<1>9. calls = u \o <<d>>
  BY <1>1, <1>3, <1>5, <1>8 DEF ForFunctions
<1>10. /\ u \in Seq(Calling) /\ Len(u) = n + n
       /\ \A i \in 1..n : u[i] = s[i]
       /\ \A i \in 1..n : u[n + i] = t[i]
  <2>1. /\ u \in Seq(Calling) /\ Len(u) = Len(s) + Len(t)
        /\ \A i \in 1..Len(s) : u[i] = s[i]
        /\ \A i \in 1..Len(t) : u[Len(s) + i] = t[i]
    BY <1>4, <1>7, <1>8, Joined
  <2> QED BY <1>4, <1>7, <2>1
<1>11. /\ calls \in Seq(Calling) /\ Len(calls) = Len(u) + 1
       /\ \A i \in 1..Len(u) : calls[i] = u[i]
       /\ calls[Len(u) + 1] = d
  <2>1. u \in Seq(Calling)
    BY <1>10
  <2> QED BY <1>9, <2>1, JoinedOne
<1>12. PICK m : m = n + n
  OBVIOUS
<1>13. /\ Len(calls) = m + 1 /\ calls[m + 1] = d /\ \A i \in 1..m : calls[i] = u[i]
  BY <1>10, <1>11, <1>12
<1>14. /\ m = 2 * n
       /\ \A i \in 1..n : i \in 1..m /\ n + i \in 1..m
  <2> HIDE <1>1
  <2> QED BY <1>12
<1>15. Len(calls) = 2 * n + 1 /\ calls[2 * n + 1] = d
  BY <1>13, <1>14
<1>16. \A i \in 1..n : calls[i] = s[i] /\ calls[n + i] = t[i]
  BY <1>10, <1>13, <1>14, Zenon
<1>17. \A i \in 1..n : i \in 1..Len(s) /\ i \in 1..Len(t)
  BY <1>4, <1>7
<1>18. \A i \in 1..n : calls[i].do = do /\ calls[i].at = new
  BY <1>4, <1>16, <1>17, Zenon
<1>19. \A i \in 1..n : calls[n + i].do = what /\ calls[n + i].at = new + i
  BY <1>7, <1>16, <1>17, Zenon
<1> QED BY <1>1, <1>11, <1>15, <1>18, <1>19, Zenon DEF Functions

LEMMA FunctionChunkStep ==
  ASSUME BinderInv, FunctionChunk
  PROVE  BinderInv'
<1>1. PICK n \in 1..MaxBatch :
        /\ Adds(Node("chunk", At, NoName, NoPointer))
        /\ Goes(Calls("declare", This, n) \o [i \in 1..n |-> Call("fundec", This + i)] \o <<Head(todo)>>)
  BY DEF FunctionChunk
<1>2. PICK what, kind, at, new : what = "chunks" /\ kind = "chunk" /\ at = At /\ new = This
  OBVIOUS
<1>3. PICK d : d = Head(todo)
  OBVIOUS
<1>4. PICK calls : calls = ForFunctions(new, n, d)
  OBVIOUS
<1>5. PICK name, def : name = NoName /\ def = NoPointer
  OBVIOUS
<1>6. /\ Visiting(what) /\ Goes(calls) /\ Adds(Node(kind, At, name, def))
      /\ maps' = maps /\ in_loop_' = in_loop_ /\ loops_' = loops_ /\ outcome' = outcome
  BY <1>1, <1>2, <1>3, <1>4, <1>5 DEF FunctionChunk, ForFunctions
<1>7. /\ what # "fundec" /\ what \in {"exp", "type", "chunks"} /\ kind \in Leaves
      /\ what \notin ScopeEnds /\ what \notin LoopEnds
  BY <1>2 DEF Leaves, ScopeEnds, LoopEnds
<1>8. /\ TreeInv /\ TodoInv /\ CallsInv /\ MapsInv /\ LoopsInv /\ outcome = "visiting"
      /\ todo # <<>> /\ d = todo[1] /\ todo[1].do = what /\ at = todo[1].at
      /\ todo \in Seq(Calling) /\ Len(nodes) \in Nat /\ 1 \in 1..Len(todo)
  BY <1>2, <1>3, <1>6, <1>7, OnVisit
<1>9. /\ TreeInv' /\ Extended /\ Undeclared
      /\ new = Len(nodes') /\ new \in 1..Len(nodes') /\ Kind(new)' = kind /\ nodes'[new].in = at
      /\ Barriers(new)' = Barriers(At) /\ Fresh(new)'
      /\ \A i \in (Len(nodes) + 1)..Len(nodes') : i = new
  <2>1. def \in 0..Len(nodes) /\ name \in Key \cup Builtin \cup {NoName}
    BY <1>5, <1>8, BinderAssumption
  <2>2. /\ TreeInv' /\ Extended /\ Undeclared
        /\ \A m : m = This =>
              /\ m = Len(nodes') /\ m \in 1..Len(nodes')
              /\ Kind(m)' = kind /\ Fields(nodes'[m], kind, At, name, def)
              /\ Barriers(m)' = Barriers(At) /\ Fresh(m)'
              /\ \A i \in (Len(nodes) + 1)..Len(nodes') : i = m
    BY <1>6, <1>7, <2>1, NewLeaf
  <2>3. Fields(nodes'[new], kind, At, name, def)
    BY <1>2, <2>2
  <2>4. nodes'[new].in = at
    BY <1>2, <2>3 DEF Fields
  <2> QED BY <1>2, <2>2, <2>4
<1>10. d \in Calling
  BY <1>8
<1>11. calls \in Seq(Calling) /\ Functions(calls, new, n, d)
  <2>1. n \in Nat /\ new \in Nat
    BY <1>2, <1>6, NewAt
  <2> QED BY <1>4, <1>10, <2>1, FunctionCalls
<1>12. Pushed(calls)
  BY <1>6, <1>8, <1>11, GoesPushes
<1>13. TodoInv' /\ CallsInv'
  <2>1. Kind(new)' = "chunk" /\ todo[1].do = "chunks" /\ nodes'[new].in = todo[1].at
    BY <1>2, <1>8, <1>9
  <2>2. Barriers(new)' = Barriers(todo[1].at)
    BY <1>2, <1>8, <1>9
  <2>3. Functions(calls, new, n, todo[1])
    BY <1>8, <1>11
  <2>4. TreeInv /\ TreeInv' /\ TodoInv /\ CallsInv /\ Extended /\ in_loop_' = in_loop_
    BY <1>6, <1>8, <1>9
  <2>5. new = Len(nodes') /\ new = This
    BY <1>2, <1>9
  <2> QED BY <1>12, <2>1, <2>2, <2>3, <2>4, <2>5, ChunkCalls
<1>14. \A i \in 1..Len(calls) : calls[i].do \notin ScopeEnds /\ calls[i].do \notin LoopEnds
  <2>1. "declare" \notin ScopeEnds /\ "declare" \notin LoopEnds /\ "fundec" \notin ScopeEnds /\ "fundec" \notin LoopEnds
    BY DEF ScopeEnds, LoopEnds
  <2>2. ASSUME NEW i \in 1..Len(calls)
        PROVE  i \in 1..n \/ i = 2 * n + 1 \/ \E k \in 1..n : i = n + k
    <3>1. PICK k, m : k = i - n /\ m = Len(calls)
      OBVIOUS
    <3>2. m = 2 * n + 1 /\ n \in Nat /\ i \in 1..m
      BY <1>11, <3>1 DEF Functions
    <3>3. i \in 1..n \/ i = 2 * n + 1 \/ (k \in 1..n /\ i = n + k)
      <4>1. k = i - n
        BY <3>1
      <4> QED BY <3>2, <4>1
    <3> QED BY <3>3
  <2>3. ASSUME NEW i \in 1..Len(calls)
        PROVE  calls[i].do = "declare" \/ calls[i].do = "fundec" \/ calls[i] = d
    BY <1>11, <2>2, Zenon DEF Functions
  <2> QED BY <1>7, <1>8, <2>1, <2>3
<1>15. MapsInv'
  <2>1. Picked(todo', ScopeEnds) = Picked(todo, ScopeEnds)
    BY <1>7, <1>8, <1>12, <1>14, PendingKept
  <2> QED BY <1>6, <1>8, <1>9, <2>1, MapsStay
<1>16. LoopsInv'
  <2>1. Picked(todo', LoopEnds) = Picked(todo, LoopEnds)
    BY <1>7, <1>8, <1>12, <1>14, PendingKept
  <2> QED BY <1>6, <1>8, <2>1, LoopsAre, LoopsAreNext
<1>17. \A i \in (Len(nodes) + 1)..Len(nodes') : Bound(i)' /\ Fresh(i)'
  <2>1. Kind(new)' \notin {"variable", "call", "type name", "break"}
    BY <1>2, <1>9
  <2>2. Bound(new)'
    BY <2>1 DEF Bound
  <2> QED BY <1>9, <2>2
<1>18. outcome' \in {"visiting", "bound"} /\ outcome' = "visiting"
  BY <1>6, <1>8
<1> QED BY <1>8, <1>9, <1>13, <1>15, <1>16, <1>17, <1>18, GoesOn

LEMMA ChunkStep ==
  ASSUME BinderInv, Chunk
  PROVE  BinderInv'
<1>1. CASE NoMoreChunks
  <2>1. /\ Visiting("chunks") /\ Goes(<<>>) /\ nodes' = nodes
        /\ UNCHANGED <<maps, in_loop_, loops_, outcome>>
    BY <1>1 DEF NoMoreChunks
  <2> QED BY <2>1, NothingStep
<1> QED BY <1>1, VarChunkStep, TypeChunkStep, FunctionChunkStep DEF Chunk

-----------------------------------------------------------------------------
(* Declarations.                                                           *)

Declarers == {"vardec", "index", "formal", "typedec", "declare"}
InChunk == {"typedec", "declare"}

\* The scope of declarations is that of the root or that of something that opens one.
LEMMA HouseOpens ==
  ASSUME TodoInv, NEW o, Houses(1, o)
  PROVE  o = 0 \/ Kind(o) \in Barrier
<1>1. SUFFICES ASSUME o # 0 PROVE Kind(o) \in Barrier
  OBVIOUS
<1>2. PICK j : j = 1
  OBVIOUS
<1>3. \E k \in (j + 1)..Len(todo) : NextEnd(ScopeEnds, j, k) /\ todo[k].do # "leave exp" /\ todo[k].at = o
  BY <1>1, <1>2 DEF Houses
<1>4. PICK k \in (j + 1)..Len(todo) : NextEnd(ScopeEnds, j, k) /\ todo[k].do # "leave exp" /\ todo[k].at = o
  BY <1>3
<1>5. todo[k].do \in ScopeEnds
  BY <1>4 DEF NextEnd
<1>6. todo[k].do \in BarrierEnds
  BY <1>4, <1>5 DEF ScopeEnds, BarrierEnds
<1>7. Placed(k)
  <2>1. k \in 1..Len(todo)
    BY <1>2
  <2> QED BY <2>1, Pendings
<1>8. Kind(o) = "loop" \/ Kind(o) \in {"let", "function"}
  <2>1. todo[k].do \in LoopEnds => Kind(o) = "loop"
    BY <1>4, <1>7, Zenon DEF Placed
  <2>2. todo[k].do \in BarrierEnds \ LoopEnds => Kind(o) \in {"let", "function"}
    BY <1>4, <1>7, Zenon DEF Placed
  <2> QED BY <1>6, <2>1, <2>2
<1> QED BY <1>8 DEF Barrier

LEMMA NewDeclaration ==
  ASSUME BinderInv, NEW what \in Declarers, Visiting(what), NEW kind, NEW name \in Key, NEW def, def = NoPointer,
         Adds(Node(kind, At, name, def)),
         what \notin InChunk => kind \in Variables,
         what \in InChunk => kind \in {"function", "type"}
  PROVE  /\ TreeInv' /\ Extended /\ DeclaresHere /\ Houses(1, Holder(1))
         /\ \A new : new = This =>
              /\ new = Len(nodes') /\ new \in 1..Len(nodes') /\ new # At
              /\ Kind(new)' = kind /\ nodes'[new].in = At /\ nodes'[new].name = name
              /\ Owner(new)' = Holder(1) /\ Bound(new)'
              /\ kind # "function" => Barriers(new)' = Barriers(At)
              /\ \A i \in (Len(nodes) + 1)..Len(nodes') : i = new
<1>1. what # "fundec" /\ what \in {"index", "formal", "vardec", "chunks", "typedec", "declare"}
  BY DEF Declarers
<1>2. PICK at : at = At
  OBVIOUS
<1>3. /\ TreeInv /\ TodoInv /\ todo # <<>> /\ todo[1].do = what /\ Fits(1)
      /\ at = todo[1].at /\ at \in 0..Len(nodes) /\ Len(nodes) \in Nat /\ 1 \in 1..Len(todo)
  BY <1>1, <1>2, OnVisit
<1>4. Houses(1, Holder(1))
  BY <1>1, <1>3 DEF Fits, Housed
<1>5. PICK o : o = Holder(1)
  OBVIOUS
<1>6. o = 0 \/ Kind(o) \in Barrier
  BY <1>3, <1>4, <1>5, HouseOpens
<1>7. what \notin InChunk => o = at
  BY <1>3, <1>5 DEF Holder, InChunk
<1>8. what \in InChunk => o = nodes[at].in /\ at > 0 /\ Kind(at) = "chunk"
  <2>1. SUFFICES ASSUME what \in InChunk PROVE o = nodes[at].in /\ at > 0 /\ Kind(at) = "chunk"
    OBVIOUS
  <2>2. todo[1].do \in {"typedec", "declare"}
    BY <1>3, <2>1 DEF InChunk
  <2>3. o = nodes[at].in
    BY <1>3, <1>5, <2>2 DEF Holder
  <2>4. at > 0
    BY <1>3, <2>2 DEF Fits, Placed
  <2>5. Kind(at) = "chunk"
    BY <1>3, <2>2 DEF Fits, Placed
  <2> QED BY <2>3, <2>4, <2>5
<1>9. /\ kind \in Kinds /\ kind \in Declarations /\ (kind \in Variables <=> what \notin InChunk)
      /\ (kind \in {"function", "type"} <=> what \in InChunk)
      /\ kind \notin Barrier \/ kind = "function"
  BY DEF Kinds, Declarations, Variables, Barrier
<1>10. PICK node : node = Node(kind, at, name, def)
  OBVIOUS
<1>11. Plantable(node)
  <2>1. Fields(node, kind, at, name, def)
    BY <1>10, NodeFields
  <2>2. def \in 0..Len(nodes)
    BY <1>3, BinderAssumption
  <2> QED BY <1>3, <1>6, <1>7, <1>8, <1>9, <2>1, <2>2 DEF Plantable, Fields
<1>12. Adds(Node(kind, at, name, def)) /\ Plantable(Node(kind, at, name, def))
  BY <1>2, <1>10, <1>11
<1>13. /\ TreeInv' /\ Extended
       /\ \A new : new = This =>
            /\ new = Len(nodes') /\ new \in 1..Len(nodes') /\ Len(nodes') = Len(nodes) + 1
            /\ Kind(new)' = kind /\ Fields(nodes'[new], kind, at, name, def)
            /\ \A d \in (Len(nodes) + 1)..Len(nodes') : d = new
  BY <1>3, <1>12, NewNode
<1>14. PICK new : new = This
  OBVIOUS
<1>15. /\ new = Len(nodes') /\ new \in 1..Len(nodes') /\ Kind(new)' = kind
       /\ nodes'[new].in = at /\ nodes'[new].name = name
       /\ \A d \in (Len(nodes) + 1)..Len(nodes') : d = new
  BY <1>13, <1>14 DEF Fields
<1>16. Owner(new)' = o
  <2>1. CASE what \notin InChunk
    <3>1. Kind(new)' \in {"var", "formal"}
      BY <1>15, <2>1 DEF Variables
    <3> QED BY <1>7, <1>15, <2>1, <3>1 DEF Owner
  <2>2. CASE what \in InChunk
    <3>1. Kind(new)' \notin {"var", "formal"}
      BY <1>9, <1>15, <2>2 DEF Variables
    <3>2. nodes'[at] = nodes[at]
      <4>1. at \in 1..Len(nodes)
        BY <1>3, <1>8, <2>2
      <4> QED BY <1>3, <1>13, <4>1, TreeKept
    <3>3. nodes'[nodes'[new].in].in = o
      BY <1>8, <1>15, <2>2, <3>2
    <3> QED BY <3>1, <3>3 DEF Owner
  <2> QED BY <2>1, <2>2
<1>17. DeclaresHere
  <2>1. todo[1].do \in {"index", "formal", "vardec", "typedec", "declare"}
    BY <1>3 DEF Declarers
  <2>2. ASSUME NEW d \in (Len(nodes) + 1)..Len(nodes') PROVE Owner(d)' = Holder(1)
    <3>1. d = new
      BY <1>15
    <3> QED BY <1>5, <1>16, <3>1
  <2> QED BY <2>1, <2>2 DEF DeclaresHere
<1>18. kind # "function" => Barriers(new)' = Barriers(at)
  <2>1. kind # "function" => Kind(new)' \notin Barrier
    BY <1>9, <1>15
  <2>2. TreeInv /\ Extended /\ new \in 1..Len(nodes') /\ at \in 0..Len(nodes) /\ nodes'[new].in = at
    BY <1>3, <1>13, <1>15
  <2>3. Barriers(new)' = (IF Kind(new)' \in Barrier THEN {new} ELSE {}) \cup Barriers(at)
    BY <1>14, <2>2, BarriersNew
  <2> QED BY <2>1, <2>3
<1>19. new # at /\ Bound(new)'
  <2>1. new # at
    BY <1>3, <1>14 DEF This
  <2>2. kind \notin {"variable", "call", "type name", "break"}
    BY DEF Variables
  <2> QED BY <1>15, <2>1, <2>2 DEF Bound
<1> QED BY <1>2, <1>4, <1>5, <1>13, <1>14, <1>15, <1>16, <1>17, <1>18, <1>19

\* What is declared is put in the map of its name space, and the visit goes on.
LEMMA DeclarationStep ==
  ASSUME BinderInv, NEW what \in Declarers, Visiting(what), NEW kind, NEW name \in Key, NEW def, def = NoPointer,
         Adds(Node(kind, At, name, def)),
         what \notin InChunk => kind \in Variables,
         what \in InChunk => kind \in {"function", "type"},
         NEW new, new = This,
         \/ kind \in Variables /\ map_vardec_' = put(map_vardec_, name, new)
         \/ kind \notin Variables /\ map_vardec_' = map_vardec_,
         \/ kind \in {"function"} /\ map_fundec_' = put(map_fundec_, name, new)
         \/ kind \notin {"function"} /\ map_fundec_' = map_fundec_,
         \/ kind \in {"type"} /\ map_typedec_' = put(map_typedec_, name, new)
         \/ kind \notin {"type"} /\ map_typedec_' = map_typedec_,
         loops_' = loops_, outcome' = outcome,
         NEW calls \in Seq(Calling), Goes(calls), \A i \in 1..Len(calls) : calls[i].do \in Visits,
         TodoInv', CallsInv', Fresh(new)'
  PROVE  BinderInv'
<1>1. /\ TreeInv /\ TodoInv /\ MapsInv /\ LoopsInv /\ outcome = "visiting"
      /\ todo # <<>> /\ todo[1].do = what
  BY OnVisit
<1>2. /\ TreeInv' /\ Extended /\ Houses(1, Holder(1))
      /\ new = Len(nodes') /\ Kind(new)' = kind /\ nodes'[new].name = name
      /\ Owner(new)' = Holder(1) /\ Bound(new)'
      /\ \A i \in (Len(nodes) + 1)..Len(nodes') : i = new
  BY NewDeclaration
<1>3. Pushed(calls)
  BY <1>1, GoesPushes
<1>4. what \notin ScopeEnds /\ what \notin LoopEnds
  BY DEF Declarers, ScopeEnds, LoopEnds
<1>5. \A i \in 1..Len(calls) : calls[i].do \notin ScopeEnds /\ calls[i].do \notin LoopEnds
  <2>1. \A x \in Visits : x \notin ScopeEnds /\ x \notin LoopEnds
    BY DEF Visits, ScopeEnds, LoopEnds
  <2> QED BY <2>1
<1>6. Picked(todo', ScopeEnds) = Picked(todo, ScopeEnds) /\ Picked(todo', LoopEnds) = Picked(todo, LoopEnds)
  BY <1>1, <1>3, <1>4, <1>5, PendingKept
<1>7. MapsInv'
  <2>1. todo[1].do \notin ScopeEnds /\ Houses(1, Owner(new)')
    BY <1>1, <1>2, <1>4
  <2>2. /\ \/ Kind(new)' \in Variables /\ map_vardec_' = put(map_vardec_, nodes'[new].name, new)
           \/ Kind(new)' \notin Variables /\ map_vardec_' = map_vardec_
        /\ \/ Kind(new)' \in {"function"} /\ map_fundec_' = put(map_fundec_, nodes'[new].name, new)
           \/ Kind(new)' \notin {"function"} /\ map_fundec_' = map_fundec_
        /\ \/ Kind(new)' \in {"type"} /\ map_typedec_' = put(map_typedec_, nodes'[new].name, new)
           \/ Kind(new)' \notin {"type"} /\ map_typedec_' = map_typedec_
    BY <1>2
  <2> QED BY <1>1, <1>2, <1>6, <2>1, <2>2, MapsPut
<1>8. LoopsInv'
  BY <1>1, <1>6, LoopsAre, LoopsAreNext
<1>9. \A i \in (Len(nodes) + 1)..Len(nodes') : Bound(i)' /\ Fresh(i)'
  BY <1>2
<1>10. outcome' \in {"visiting", "bound"} /\ outcome' = "visiting"
  BY <1>1
<1> QED BY <1>1, <1>2, <1>7, <1>8, <1>9, <1>10, GoesOn

\* A variable, before its type and its initial value.
LEMMA VariableStep ==
  ASSUME BinderInv, NEW what \in Declarers, what \notin InChunk, Visiting(what), NEW kind \in Variables,
         NEW name \in Key, NEW def, def = NoPointer, Adds(Node(kind, At, name, def)),
         map_vardec_' = put(map_vardec_, name, This),
         UNCHANGED <<map_fundec_, map_typedec_, in_loop_, loops_, outcome>>,
         NEW calls \in Seq(Calling), Goes(calls),
         \A i \in 1..Len(calls) : calls[i].do \in Visits /\ calls[i].at = This
  PROVE  BinderInv'
<1>1. /\ TreeInv /\ TodoInv /\ CallsInv /\ todo # <<>> /\ todo[1].do = what /\ At = todo[1].at
  BY OnVisit
<1>2. PICK new : new = This
  OBVIOUS
<1>3. what \notin BarrierEnds /\ what \notin {"declare", "fundec"}
  BY DEF Declarers, InChunk, BarrierEnds
<1>4. what \in InChunk => kind \in {"function", "type"}
  OBVIOUS
<1>5. kind \notin {"function"} /\ kind \notin {"type"} /\ kind # "function" /\ kind \notin {"function", "type"}
  BY DEF Variables
<1>6. /\ TreeInv' /\ Extended /\ DeclaresHere /\ new = Len(nodes') /\ new \in 1..Len(nodes')
      /\ Kind(new)' = kind /\ Barriers(new)' = Barriers(At)
  BY <1>2, <1>4, <1>5, NewDeclaration
<1>7. Fresh(new)'
  BY <1>5, <1>6 DEF Fresh
<1>8. Pushed(calls)
  BY <1>1, GoesPushes
<1>9. TodoInv' /\ CallsInv'
  <2>1. ASSUME NEW i \in 1..Len(calls)
        PROVE  /\ calls[i].do \in Plain
               /\ calls[i].at \in 0..Len(nodes')
               /\ Barriers(calls[i].at)' = Barriers(todo[1].at)
               /\ calls[i].do = "typedec" => calls[i].at > 0 /\ Kind(calls[i].at)' = "chunk"
               /\ Housed(i)'
    <3>1. PICK do, at : do = calls[i].do /\ at = calls[i].at
      OBVIOUS
    <3>2. at = new /\ do \in Visits
      BY <1>2, <3>1
    <3>3. /\ do \in Plain /\ do # "typedec"
          /\ do \notin {"index", "formal", "vardec", "chunks", "typedec", "declare"}
      BY <3>2 DEF Visits, Plain
    <3>4. at \in 0..Len(nodes') /\ Barriers(at)' = Barriers(todo[1].at)
      BY <1>1, <1>6, <3>2, FromZero
    <3>5. Housed(i)'
      <4>1. todo'[i].do = do
        BY <1>8, <3>1 DEF Pushed
      <4> QED BY <3>3, <4>1 DEF Housed
    <3> QED BY <3>1, <3>3, <3>4, <3>5
  <2>2. todo[1].do \notin BarrierEnds /\ todo[1].do \notin {"declare", "fundec"} /\ in_loop_' = in_loop_
    BY <1>1, <1>3
  <2> QED BY <1>1, <1>6, <1>8, <2>1, <2>2, PlainCalls
<1>10. /\ kind \in Variables /\ map_vardec_' = put(map_vardec_, name, new)
       /\ map_fundec_' = map_fundec_ /\ map_typedec_' = map_typedec_
       /\ loops_' = loops_ /\ outcome' = outcome
  BY <1>2
<1>11. \A i \in 1..Len(calls) : calls[i].do \in Visits
  OBVIOUS
<1> QED BY <1>2, <1>4, <1>5, <1>7, <1>9, <1>10, <1>11, DeclarationStep

LEMMA OneCall ==
  \A c \in Calling : \A calls : calls = <<c>> =>
    calls \in Seq(Calling) /\ \A i \in 1..Len(calls) : calls[i] = c
OBVIOUS

LEMMA VarDecStep ==
  ASSUME BinderInv, VarDec
  PROVE  BinderInv'
<1>1. PICK name \in Key, types \in 0..1 :
        /\ Adds(Node("var", At, name, NoPointer))
        /\ map_vardec_' = put(map_vardec_, name, This)
        /\ Goes(Calls("type", This, types) \o <<Call("exp", This)>>)
  BY DEF VarDec
<1>2. PICK what, kind, def : what = "vardec" /\ kind = "var" /\ def = NoPointer
  OBVIOUS
<1>3. PICK s, c : s = Calls("type", This, types) /\ c = Call("exp", This)
  OBVIOUS
<1>4. PICK calls : calls = s \o <<c>>
  OBVIOUS
<1>5. /\ Visiting(what) /\ Adds(Node(kind, At, name, def)) /\ Goes(calls)
      /\ map_vardec_' = put(map_vardec_, name, This)
      /\ UNCHANGED <<map_fundec_, map_typedec_, in_loop_, loops_, outcome>>
  BY <1>1, <1>2, <1>3, <1>4 DEF VarDec
<1>6. what \in Declarers /\ what \notin InChunk /\ kind \in Variables
  BY <1>2 DEF Declarers, InChunk, Variables
<1>7. "type" \in Handlers /\ "exp" \in Handlers /\ "type" \in Visits /\ "exp" \in Visits
  BY DEF Handlers, Visits
<1>8. This \in Nat /\ types \in Nat
  BY <1>5, NewAt
<1>9. s \in Seq(Calling) /\ \A i \in 1..Len(s) : s[i].do = "type" /\ s[i].at = This
  <2>1. s = Calls("type", This, types)
    BY <1>3
  <2> QED BY <1>7, <1>8, <2>1, CallsAre
<1>10. c \in Calling /\ c.do = "exp" /\ c.at = This
  BY <1>3, <1>7, <1>8, CallIs
<1>11. calls \in Seq(Calling) /\ \A i \in 1..Len(calls) : calls[i].do \in Visits /\ calls[i].at = This
  <2>1. /\ calls \in Seq(Calling) /\ \A i \in 1..Len(s) : calls[i] = s[i]
        /\ calls[Len(s) + 1] = c /\ \A i \in 1..Len(calls) : i \in 1..Len(s) \/ i = Len(s) + 1
    BY <1>4, <1>9, <1>10, JoinedOne
  <2> QED BY <1>7, <1>9, <1>10, <2>1, Zenon
<1>12. UNCHANGED <<map_fundec_, map_typedec_, in_loop_, loops_, outcome>>
  BY <1>5
<1> QED BY <1>2, <1>5, <1>6, <1>11, <1>12, VariableStep

LEMMA IndexStep ==
  ASSUME BinderInv, Index
  PROVE  BinderInv'
<1>1. PICK name \in Key : /\ Adds(Node("var", At, name, NoPointer))
                          /\ map_vardec_' = put(map_vardec_, name, This)
                          /\ Goes(<<Call("exp", This)>>)
  BY DEF Index
<1>2. PICK what, kind, def : what = "index" /\ kind = "var" /\ def = NoPointer
  OBVIOUS
<1>3. PICK c : c = Call("exp", This)
  OBVIOUS
<1>4. PICK calls : calls = <<c>>
  OBVIOUS
<1>5. /\ Visiting(what) /\ Adds(Node(kind, At, name, def)) /\ Goes(calls)
      /\ map_vardec_' = put(map_vardec_, name, This)
      /\ UNCHANGED <<map_fundec_, map_typedec_, in_loop_, loops_, outcome>>
  BY <1>1, <1>2, <1>3, <1>4 DEF Index
<1>6. what \in Declarers /\ what \notin InChunk /\ kind \in Variables
  BY <1>2 DEF Declarers, InChunk, Variables
<1>7. "exp" \in Handlers /\ "exp" \in Visits
  BY DEF Handlers, Visits
<1>8. This \in Nat
  BY <1>5, NewAt
<1>9. c \in Calling /\ c.do = "exp" /\ c.at = This
  BY <1>3, <1>7, <1>8, CallIs
<1>10. calls \in Seq(Calling) /\ \A i \in 1..Len(calls) : calls[i].do \in Visits /\ calls[i].at = This
  <2>1. calls \in Seq(Calling) /\ \A i \in 1..Len(calls) : calls[i] = c
    BY <1>4, <1>9, OneCall
  <2> QED BY <1>7, <1>9, <2>1
<1>11. UNCHANGED <<map_fundec_, map_typedec_, in_loop_, loops_, outcome>>
  BY <1>5
<1> QED BY <1>2, <1>5, <1>6, <1>10, <1>11, VariableStep

LEMMA FormalStep ==
  ASSUME BinderInv, Formal
  PROVE  BinderInv'
<1>1. PICK name \in Key : /\ Adds(Node("formal", At, name, NoPointer))
                          /\ map_vardec_' = put(map_vardec_, name, This)
                          /\ Goes(<<Call("type", This)>>)
  BY DEF Formal
<1>2. PICK what, kind, def : what = "formal" /\ kind = "formal" /\ def = NoPointer
  OBVIOUS
<1>3. PICK c : c = Call("type", This)
  OBVIOUS
<1>4. PICK calls : calls = <<c>>
  OBVIOUS
<1>5. /\ Visiting(what) /\ Adds(Node(kind, At, name, def)) /\ Goes(calls)
      /\ map_vardec_' = put(map_vardec_, name, This)
      /\ UNCHANGED <<map_fundec_, map_typedec_, in_loop_, loops_, outcome>>
  BY <1>1, <1>2, <1>3, <1>4 DEF Formal
<1>6. what \in Declarers /\ what \notin InChunk /\ kind \in Variables
  BY <1>2 DEF Declarers, InChunk, Variables
<1>7. "type" \in Handlers /\ "type" \in Visits
  BY DEF Handlers, Visits
<1>8. This \in Nat
  BY <1>5, NewAt
<1>9. c \in Calling /\ c.do = "type" /\ c.at = This
  BY <1>3, <1>7, <1>8, CallIs
<1>10. calls \in Seq(Calling) /\ \A i \in 1..Len(calls) : calls[i].do \in Visits /\ calls[i].at = This
  <2>1. calls \in Seq(Calling) /\ \A i \in 1..Len(calls) : calls[i] = c
    BY <1>4, <1>9, OneCall
  <2> QED BY <1>7, <1>9, <2>1
<1>11. UNCHANGED <<map_fundec_, map_typedec_, in_loop_, loops_, outcome>>
  BY <1>5
<1> QED BY <1>2, <1>5, <1>6, <1>10, <1>11, VariableStep

\* A type or a function sees one of its name if and only if the map has one.
LEMMA NewSees ==
  ASSUME BinderInv, NEW what \in InChunk, Visiting(what), NEW kind \in {"function", "type"},
         NEW name \in Key, NEW def, def = NoPointer, Adds(Node(kind, At, name, def)), NEW new, new = This,
         NEW map, MapInv(map, {kind})
  PROVE  Visible(new, {kind})' # {} <=> contains(map, name)
<1>1. what \in Declarers /\ what # "fundec" /\ (what \in InChunk => kind \in {"function", "type"})
  BY DEF Declarers, InChunk
<1>2. {kind} \in Spaces /\ {kind} \subseteq Declarations
  BY DEF Spaces, Declarations
<1>3. TreeInv /\ At = todo[1].at /\ At \in 0..Len(nodes)
  BY <1>1, OnVisit
<1>4. Extended /\ new \in 1..Len(nodes') /\ nodes'[new].in = At /\ nodes'[new].name = name
  BY <1>1, NewDeclaration
<1>5. Visible(new, {kind})' = Seen({kind}, name)
  <2>1. todo[1].at \in 0..Len(nodes) /\ nodes'[new].in = todo[1].at
    BY <1>3, <1>4
  <2>2. Visible(new, {kind})' = Seen({kind}, nodes'[new].name)
    BY <1>2, <1>3, <1>4, <2>1, VisibleNew
  <2> QED BY <1>4, <2>2
<1>6. contains(map, name) <=> Seen({kind}, name) # {}
  BY <1>1, <1>2, Found
<1> QED BY <1>5, <1>6

LEMMA TypeDecStep ==
  ASSUME BinderInv, TypeDec
  PROVE  BinderInv'
<1>1. PICK name \in Key :
        /\ Adds(Node("type", At, name, NoPointer))
        /\ IF contains(map_typedec_, name)
           THEN Diagnose("duplicated type") /\ UNCHANGED map_typedec_
           ELSE map_typedec_' = put(map_typedec_, name, This) /\ Goes(<<>>) /\ UNCHANGED outcome
  BY DEF TypeDec
<1>2. PICK what, kind, def, new : what = "typedec" /\ kind = "type" /\ def = NoPointer /\ new = This
  OBVIOUS
<1>3. /\ Visiting(what) /\ Adds(Node(kind, At, name, def))
      /\ map_vardec_' = map_vardec_ /\ map_fundec_' = map_fundec_ /\ in_loop_' = in_loop_ /\ loops_' = loops_
  BY <1>1, <1>2 DEF TypeDec
<1>4. /\ what \in Declarers /\ what \in InChunk /\ kind \in {"function", "type"}
      /\ kind \notin Variables /\ kind \notin {"function"} /\ kind \in {"type"} /\ kind # "function"
      /\ what \notin BarrierEnds /\ what \notin {"declare", "fundec"}
  BY <1>2 DEF Declarers, InChunk, Variables, BarrierEnds
<1>5. what \notin InChunk => kind \in Variables
  BY <1>4
<1>6. /\ TreeInv /\ TodoInv /\ CallsInv /\ MapsInv /\ outcome = "visiting" /\ todo # <<>> /\ todo[1].do = what
  BY <1>3, OnVisit
<1>7. /\ TreeInv' /\ Extended /\ DeclaresHere /\ new = Len(nodes') /\ Kind(new)' = kind /\ Bound(new)'
  BY <1>2, <1>3, <1>4, <1>5, NewDeclaration
<1>8. Visible(new, {Kind(new)})' # {} <=> contains(map_typedec_, name)
  <2>1. MapInv(map_typedec_, {kind})
    BY <1>2, <1>6, MapsHave
  <2>2. Visible(new, {kind})' # {} <=> contains(map_typedec_, name)
    BY <1>2, <1>3, <1>4, <2>1, NewSees
  <2> QED BY <1>7, <2>2 DEF Visible
<1>9. CASE contains(map_typedec_, name)
  <2>1. outcome' = "duplicated type" /\ todo' = <<>> /\ map_typedec_' = map_typedec_
    BY <1>1, <1>9 DEF Diagnose
  <2>2. Fresh(new)'
    <3>1. Kind(new)' = "type"
      BY <1>2, <1>7
    <3> QED BY <1>7, <1>8, <1>9, <2>1, <3>1 DEF Fresh
  <2>3. outcome' \notin {"visiting", "bound"} /\ maps' = maps
    BY <1>3, <2>1 DEF maps
  <2> QED BY <1>2, <1>3, <1>6, <1>7, <2>1, <2>2, <2>3, Fails
<1>10. CASE ~contains(map_typedec_, name)
  <2>1. map_typedec_' = put(map_typedec_, name, new) /\ Goes(<<>>) /\ outcome' = outcome
    BY <1>1, <1>2, <1>10
  <2>2. PICK calls : calls = <<>>
    OBVIOUS
  <2>3. calls \in Seq(Calling) /\ Goes(calls) /\ \A i \in 1..Len(calls) : FALSE
    BY <2>1, <2>2, NoCalls
  <2>4. Pushed(calls)
    BY <1>6, <2>3, GoesPushes
  <2>5. TodoInv' /\ CallsInv'
    <3>1. todo[1].do \notin BarrierEnds /\ todo[1].do \notin {"declare", "fundec"}
      BY <1>4, <1>6
    <3> QED BY <1>3, <1>6, <1>7, <2>3, <2>4, <3>1, PlainCalls
  <2>6. Fresh(new)'
    <3>1. outcome' \notin {"duplicated type", "duplicated function"}
      BY <1>6, <2>1
    <3> QED BY <1>8, <1>10, <3>1 DEF Fresh
  <2>7. \A i \in 1..Len(calls) : calls[i].do \in Visits
    BY <2>3
  <2> QED BY <1>2, <1>3, <1>4, <1>5, <2>1, <2>3, <2>5, <2>6, <2>7, DeclarationStep
<1> QED BY <1>9, <1>10

LEMMA DeclareStep ==
  ASSUME BinderInv, Declare
  PROVE  BinderInv'
<1>1. PICK name \in Key :
        /\ Adds(Node("function", At, name, NoPointer))
        /\ IF contains(map_fundec_, name)
           THEN Diagnose("duplicated function") /\ UNCHANGED map_fundec_
           ELSE map_fundec_' = put(map_fundec_, name, This) /\ Goes(<<>>) /\ UNCHANGED outcome
  BY DEF Declare
<1>2. PICK what, kind, def, new : what = "declare" /\ kind = "function" /\ def = NoPointer /\ new = This
  OBVIOUS
<1>3. /\ Visiting(what) /\ Adds(Node(kind, At, name, def))
      /\ map_vardec_' = map_vardec_ /\ map_typedec_' = map_typedec_ /\ in_loop_' = in_loop_ /\ loops_' = loops_
  BY <1>1, <1>2 DEF Declare
<1>4. /\ what \in Declarers /\ what \in InChunk /\ kind \in {"function", "type"}
      /\ kind \notin Variables /\ kind \in {"function"} /\ kind \notin {"type"}
  BY <1>2 DEF Declarers, InChunk, Variables
<1>5. what \notin InChunk => kind \in Variables
  BY <1>4
<1>6. /\ TreeInv /\ TodoInv /\ CallsInv /\ MapsInv /\ outcome = "visiting" /\ todo # <<>> /\ todo[1].do = what
      /\ At = todo[1].at
  BY <1>3, OnVisit
<1>7. /\ TreeInv' /\ Extended /\ DeclaresHere /\ new = Len(nodes') /\ Kind(new)' = kind /\ nodes'[new].in = At
      /\ Bound(new)'
  BY <1>2, <1>3, <1>4, <1>5, NewDeclaration
<1>8. Visible(new, {Kind(new)})' # {} <=> contains(map_fundec_, name)
  <2>1. MapInv(map_fundec_, {kind})
    BY <1>2, <1>6, MapsHave
  <2>2. Visible(new, {kind})' # {} <=> contains(map_fundec_, name)
    BY <1>2, <1>3, <1>4, <2>1, NewSees
  <2> QED BY <1>7, <2>2 DEF Visible
<1>9. CASE contains(map_fundec_, name)
  <2>1. outcome' = "duplicated function" /\ todo' = <<>> /\ map_fundec_' = map_fundec_
    BY <1>1, <1>9 DEF Diagnose
  <2>2. Fresh(new)'
    <3>1. Kind(new)' = "function"
      BY <1>2, <1>7
    <3> QED BY <1>7, <1>8, <1>9, <2>1, <3>1 DEF Fresh
  <2>3. outcome' \notin {"visiting", "bound"} /\ maps' = maps
    BY <1>3, <2>1 DEF maps
  <2> QED BY <1>2, <1>3, <1>6, <1>7, <2>1, <2>2, <2>3, Fails
<1>10. CASE ~contains(map_fundec_, name)
  <2>1. map_fundec_' = put(map_fundec_, name, new) /\ Goes(<<>>) /\ outcome' = outcome
    BY <1>1, <1>2, <1>10
  <2>2. PICK calls : calls = <<>>
    OBVIOUS
  <2>3. calls \in Seq(Calling) /\ Goes(calls) /\ \A i \in 1..Len(calls) : FALSE
    BY <2>1, <2>2, NoCalls
  <2>4. Pushed(calls)
    BY <1>6, <2>3, GoesPushes
  <2>5. TodoInv' /\ CallsInv'
    <3>1. todo[1].do = "declare" /\ Kind(new)' = "function" /\ nodes'[new].in = todo[1].at
      BY <1>2, <1>6, <1>7
    <3> QED BY <1>2, <1>3, <1>6, <1>7, <2>2, <2>4, <3>1, DeclareCalls
  <2>6. Fresh(new)'
    <3>1. outcome' \notin {"duplicated type", "duplicated function"}
      BY <1>6, <2>1
    <3> QED BY <1>8, <1>10, <3>1 DEF Fresh
  <2>7. \A i \in 1..Len(calls) : calls[i].do \in Visits
    BY <2>3
  <2> QED BY <1>2, <1>3, <1>4, <1>5, <2>1, <2>3, <2>5, <2>6, <2>7, DeclarationStep
<1> QED BY <1>9, <1>10

LEMMA DeclaringStep ==
  ASSUME BinderInv, Declaration
  PROVE  BinderInv'
BY VarDecStep, IndexStep, FormalStep, TypeDecStep, DeclareStep, FunctionDecStep, LeavesStep
DEF Declaration

-----------------------------------------------------------------------------
(* The end of the visit, and steps that change nothing.                    *)

LEMMA ReturnStep ==
  ASSUME BinderInv, Return
  PROVE  BinderInv'
<1>1. /\ outcome = "visiting" /\ todo = <<>> /\ todo' = <<>> /\ outcome' = "bound"
      /\ nodes' = nodes /\ maps' = maps /\ in_loop_' = in_loop_ /\ loops_' = loops_
  BY DEF Return
<1>2. TreeInv /\ TodoInv /\ CallsInv /\ MapsInv /\ LoopsInv
  BY <1>1 DEF BinderInv
<1>3. TreeInv' /\ Extended /\ Undeclared /\ \A i \in (Len(nodes) + 1)..Len(nodes') : FALSE
  BY <1>1, <1>2, NoNode
<1>4. Breakable(0) = FALSE /\ Breakable(0)' = FALSE
  BY <1>1 DEF Breakable
<1>5. in_loop_ = Breakable(0)
  BY <1>2, AllFit
<1>6. todo' \in Seq(Calling) /\ \A j \in 1..Len(todo') : FALSE
  BY <1>1
<1>7. (TodoInv /\ CallsInv)'
  BY <1>1, <1>4, <1>5, <1>6, AllFitNext
<1>8. MapsInv'
  BY <1>1, <1>2, <1>3, MapsStay
<1>9. LoopsInv'
  BY <1>1, <1>2, LoopsAre, LoopsAreNext
<1>10. outcome' \in {"visiting", "bound"}
  BY <1>1
<1> QED BY <1>1, <1>3, <1>7, <1>8, <1>9, <1>10, GoesOn

LEMMA StutterStep ==
  ASSUME BinderInv, UNCHANGED vars
  PROVE  BinderInv'
<1>1. /\ nodes' = nodes /\ todo' = todo /\ outcome' = outcome /\ in_loop_' = in_loop_ /\ loops_' = loops_
      /\ map_vardec_' = map_vardec_ /\ map_fundec_' = map_fundec_ /\ map_typedec_' = map_typedec_
  BY DEF vars, maps
<1>2. Ancestors' = Ancestors
  BY ONLY <1>1 DEF Ancestors
<1>3. TypeOK' /\ TreeInv'
  BY <1>1 DEF BinderInv, TypeOK, TreeInv, Kind, Owner, Planting, Declarations, Barrier
<1>4. ASSUME TodoInv, CallsInv PROVE (TodoInv /\ CallsInv)'
  <2>1. todo \in Seq(Calling) /\ in_loop_ = Breakable(0) /\ \A j \in 1..Len(todo) : Fits(j)
    BY <1>4, AllFit
  <2>2. ASSUME NEW j \in 1..Len(todo) PROVE Fits(j)'
    <3>1. Placed(j) /\ Enclosed(j) /\ Housed(j) /\ Once(j) /\ Empty(j) /\ Restores(j)
      BY <2>1 DEF Fits
    <3>2. Placed(j)'
      BY <1>1, <3>1 DEF Placed, Kind, BarrierEnds, LoopEnds
    <3>3. Enclosed(j)'
      <4>1. Around(j)' = Around(j) /\ Enders(j)' = Enders(j)
        BY <1>1 DEF Around, Enders, BarrierEnds
      <4>2. \A i : Barriers(i)' = Barriers(i)
        BY <1>1, <1>2 DEF Barriers, Kind, Barrier
      <4> QED BY <3>1, <4>1, <4>2 DEF Enclosed
    <3>4. Housed(j)'
      BY <1>1, <3>1 DEF Housed, Houses, Holder, NextEnd, ScopeEnds
    <3>5. Once(j)'
      BY <1>1, <3>1 DEF Once, BarrierEnds
    <3>6. Empty(j)'
      BY <1>1, <3>1 DEF Empty, DeclaredIn, Kind, Owner, Declarations
    <3>7. Restores(j)'
      BY <1>1, <3>1 DEF Restores, Breakable, NextEnd, BarrierEnds, LoopEnds
    <3> QED BY <3>2, <3>3, <3>4, <3>5, <3>6, <3>7 DEF Fits
  <2>3. in_loop_' = Breakable(0)'
    BY <1>1, <2>1 DEF Breakable, NextEnd, BarrierEnds, LoopEnds
  <2>4. todo' \in Seq(Calling) /\ \A j \in 1..Len(todo') : Fits(j)'
    BY <1>1, <2>1, <2>2
  <2> QED BY <2>3, <2>4, AllFitNext
<1>5. TreeInv /\ TreeInv' /\ Extended /\ Undeclared
  BY <1>1, NoNode DEF BinderInv
<1>6. ASSUME TodoInv, MapsInv PROVE MapsInv'
  BY <1>1, <1>5, <1>6, MapsStay DEF maps
<1>7. ASSUME LoopsInv PROVE LoopsInv'
  BY <1>1, <1>7, LoopsAre, LoopsAreNext
<1>8. UsesInv'
  <2>1. UsesInv
    BY UsesBound DEF BinderInv
  <2>2. ASSUME NEW i \in 1..Len(nodes), Bound(i) PROVE Bound(i)'
    <3>1. \A kinds : Visible(i, kinds)' = Visible(i, kinds)
      BY <1>1, <1>2 DEF Visible, Kind, Owner
    <3>2. Barriers(i)' = Barriers(i)
      BY <1>1, <1>2 DEF Barriers, Kind, Barrier
    <3> QED BY <1>1, <2>2, <3>1, <3>2 DEF Bound, Kind, Innermost, Variables
  <2>3. ASSUME NEW i \in 1..Len(nodes), Fresh(i) PROVE Fresh(i)'
    <3>1. \A kinds : Visible(i, kinds)' = Visible(i, kinds)
      BY <1>1, <1>2 DEF Visible, Kind, Owner
    <3> QED BY <1>1, <2>3, <3>1 DEF Fresh, Kind
  <2> QED BY <1>1, <2>1, <2>2, <2>3 DEF UsesInv
<1>9. (BoundLexically /\ RejectsVisibleNames /\ BreakInnermost)'
  BY <1>8, UsesBoundNext
<1> QED BY <1>1, <1>4, <1>6, <1>7, <1>9, <1>3 DEF BinderInv

-----------------------------------------------------------------------------
(* The invariant.                                                          *)

LEMMA InitInv ==
  Init => BinderInv
<1> SUFFICES ASSUME Init PROVE BinderInv
  OBVIOUS
<1>1. /\ nodes = <<>> /\ todo = <<[do |-> "chunks", at |-> 0, copy |-> FALSE]>>
      /\ map_vardec_ = NewMap /\ map_fundec_ = NewMap /\ map_typedec_ = NewMap
      /\ in_loop_ = FALSE /\ loops_ = <<>> /\ outcome = "visiting"
  BY DEF Init
<1>2. Len(nodes) = 0 /\ nodes \in Seq(Planting) /\ 1..Len(nodes) = {}
  BY <1>1
<1>3. TreeInv
  BY <1>2 DEF TreeInv
<1>4. UsesInv
  BY <1>2 DEF UsesInv
<1>5. todo \in Seq(Calling) /\ Len(todo) = 1 /\ todo[1].do = "chunks" /\ todo[1].at = 0 /\ 1..Len(todo) = {1}
  <2>1. PICK c : c = [do |-> "chunks", at |-> 0, copy |-> FALSE]
    OBVIOUS
  <2>2. c \in Calling /\ c.do = "chunks" /\ c.at = 0
    BY <2>1 DEF Calling
  <2>3. todo = <<c>>
    BY <1>1, <2>1
  <2> QED BY <2>2, <2>3
<1>6. todo[1].do \notin ScopeEnds /\ todo[1].do \notin LoopEnds /\ todo[1].do \notin BarrierEnds
  BY <1>5 DEF ScopeEnds, LoopEnds, BarrierEnds
<1>7. \A kinds : todo[1].do \notin kinds => Picked(todo, kinds) = <<>>
  <2>1. PICK c, t : c = todo[1] /\ t = <<>>
    OBVIOUS
  <2>2. c \in Calling /\ t \in Seq(Calling)
    BY <1>5, <2>1
  <2>3. todo = <<c>> \o t
    BY <1>5, <2>1, <2>2
  <2>4. \A kinds : Picked(<<c>> \o t, kinds) = IF c.do \in kinds THEN <<c>> \o Picked(t, kinds) ELSE Picked(t, kinds)
    BY <2>2, PickedCons
  <2>5. \A kinds : Picked(t, kinds) = <<>>
    BY <2>1, PickedNone
  <2> QED BY <2>1, <2>3, <2>4, <2>5, Zenon
<1>8. TodoInv /\ CallsInv
  <2>1. \A k \in 2..Len(todo) : FALSE
    BY <1>5
  <2>2. Placed(1)
    BY <1>2, <1>5 DEF Placed, BarrierEnds, LoopEnds
  <2>3. Enclosed(1)
    <3>1. Ancestors[0] = {0}
      BY <1>3, <1>2, TreeRooted, AncestorsDef
    <3>2. Barriers(Around(1)) = {}
      BY <1>5, <3>1 DEF Around, Barriers
    <3>3. Enders(1) = {}
      BY <1>5, <1>6 DEF Enders
    <3> QED BY <3>2, <3>3 DEF Enclosed
  <2>4. Housed(1)
    BY <1>5, <2>1 DEF Housed, Houses, Holder
  <2>5. Once(1) /\ Restores(1)
    BY <1>5, <1>6 DEF Once, Restores
  <2>6. Empty(1)
    BY <1>5 DEF Empty
  <2>7. Breakable(0) = FALSE
    BY <1>5, <1>6 DEF Breakable
  <2> QED BY <1>1, <1>5, <2>2, <2>3, <2>4, <2>5, <2>6, <2>7, AllFit DEF Fits
<1>9. MapsInv
  <2>1. PICK map, x : map = NewMap /\ x = [k \in {} |-> NoPointer]
    OBVIOUS
  <2>2. map \in Seq(Range(map)) /\ Len(map) = 1 /\ DOMAIN map[1] = {} /\ map[1] \in [DOMAIN map[1] -> {}]
    <3>1. map = <<x>>
      BY <2>1 DEF NewMap
    <3>2. map \in Seq({x}) /\ Len(map) = 1 /\ map[1] = x
      BY <3>1
    <3>3. map \in Seq(Range(map))
      BY <3>2, OwnRange
    <3>4. DOMAIN x = {} /\ x \in [DOMAIN x -> {}]
      BY <2>1
    <3> QED BY <3>2, <3>3, <3>4
  <2>3. \A kinds, o : DeclaredIn(kinds, o) = {}
    BY <1>2 DEF DeclaredIn
  <2>4. Len(Pending(ScopeEnds)) = 0
    BY <1>6, <1>7 DEF Pending
  <2>5. \A kinds : MapInv(map, kinds)
    BY <2>2, <2>3, <2>4 DEF MapInv
  <2> QED BY <1>1, <2>1, <2>2, <2>5 DEF MapsInv
<1>10. LoopsInv
  <2>1. Picked(todo, LoopEnds) = <<>>
    BY <1>6, <1>7
  <2> QED BY <1>1, <2>1 DEF LoopsInv, Pending, Reverse
<1>11. TypeOK
  BY <1>3, <1>8, <1>9, <1>10, TypesFollow
<1> QED BY <1>1, <1>3, <1>4, <1>8, <1>9, <1>10, <1>11, UsesBound DEF BinderInv

LEMMA NextInv ==
  BinderInv /\ [Next]_vars => BinderInv'
BY UseStep, WalkStep, LoopStep, ScopeStep, ChunkStep, DeclaringStep, ReturnStep, StutterStep
DEF Next

\* What the pending calls, the scoped maps and the tree say of each other
\* whenever the binder is between two calls of its handlers.
THEOREM Invariant == Spec => []BinderInv
<1>1. Init => BinderInv
  BY InitInv
<1>2. BinderInv /\ [Next]_vars => BinderInv'
  BY NextInv
<1> QED BY <1>1, <1>2, PTL DEF Spec

\* Each use is bound to the innermost and latest declaration of its name that it
\* can see, whatever the shape of the program: scoped_map::get, with the scopes
\* that Binder opens and closes, is lexical scoping.
THEOREM Lexical == Spec => []BoundLexically
<1>1. BinderInv => BoundLexically
  BY DEF BinderInv
<1> QED BY <1>1, Invariant, PTL

\* A break is bound to the innermost loop around it, and diagnosed if there is
\* none or if a let or the body of a function comes first.
THEOREM Breaks == Spec => []BreakInnermost
<1>1. BinderInv => BreakInnermost
  BY DEF BinderInv
<1> QED BY <1>1, Invariant, PTL

\* Scopes and loops are left as often as they are entered, and in the reverse
\* order: after a program that binds the maps, the stack of loops and in_loop_
\* are as they were before it.
THEOREM Balanced == Spec => []ScopesBalanced
<1>1. BinderInv => ScopesBalanced
  <2>1. SUFFICES ASSUME BinderInv, outcome \in {"visiting", "bound"}
                 PROVE  /\ \A map \in {map_vardec_, map_fundec_, map_typedec_} :
                             Len(map) = 1 + Len(Pending(ScopeEnds))
                        /\ LoopsInv
                        /\ outcome = "bound" => ~in_loop_
    BY DEF BinderInv, ScopesBalanced, LoopsInv, ScopeEnds, LoopEnds
  <2>2. TodoInv /\ CallsInv /\ MapsInv /\ LoopsInv
    BY <2>1 DEF BinderInv
  <2>3. ASSUME outcome = "bound" PROVE in_loop_ = FALSE
    <3>1. todo = <<>>
      BY <2>1, <2>3 DEF BinderInv
    <3>2. Breakable(0) = FALSE
      BY <3>1 DEF Breakable
    <3> QED BY <2>2, <3>2, AllFit
  <2>4. \A map \in {map_vardec_, map_fundec_, map_typedec_} : Len(map) = 1 + Len(Pending(ScopeEnds))
    BY <2>2 DEF MapsInv, MapInv
  <2> QED BY <2>2, <2>3, <2>4
<1> QED BY <1>1, Invariant, PTL
-----------------------------------------------------------------------------
(* Duplicates.                                                             *)

\* A duplicate is the last node, which is diagnosed as soon as it is met.
DuplicateIsLast ==
  \A kind \in {"function", "type"} :
    outcome = Duplicated(kind) => nodes # <<>> /\ Kind(Len(nodes)) = kind

LEMMA DuplicatesNamed ==
  /\ Duplicated("function") = "duplicated function"
  /\ Duplicated("type") = "duplicated type"
BY DEF Duplicated

\* Only Declare and TypeDec diagnose a duplicate; they add the node they diagnose.
LEMMA DuplicateMet ==
  ASSUME TreeInv, Next, NEW kind \in {"function", "type"}, outcome' = Duplicated(kind)
  PROVE  nodes' # <<>> /\ Kind(Len(nodes))' = kind
<1>1. outcome' \in {"duplicated function", "duplicated type"}
  BY DuplicatesNamed
<1>2. nodes \in Seq(Planting)
  BY DEF TreeInv
<1>3. Declare \/ TypeDec
  <2>1. CASE Use
    BY <1>1, <2>1 DEF Use, SimpleVar, CallExp, NameTy, BreakExp, Diagnose, Visiting
  <2>2. CASE Walk
    BY <1>1, <2>2 DEF Walk, Literal, Operands, TypedExp, Visiting
  <2>3. CASE Loop
    BY <1>1, <2>3 DEF Loop, ForExp, LeaveFor, WhileExp, LeaveWhile, Visiting
  <2>4. CASE Scope
    BY <1>1, <2>4 DEF Scope, SeqExp, ScopedExp, LeaveExp, LetExp, LeaveLet, Visiting
  <2>5. CASE Chunk
    BY <1>1, <2>5 DEF Chunk, NoMoreChunks, VarChunk, TypeChunk, FunctionChunk, Visiting
  <2>6. CASE VarDec \/ Index \/ Formal \/ FunctionDec \/ LeaveFunction
    BY <1>1, <2>6 DEF VarDec, Index, Formal, FunctionDec, LeaveFunction, Visiting
  <2>7. CASE Return
    BY <1>1, <2>7 DEF Return
  <2> QED BY <2>1, <2>2, <2>3, <2>4, <2>5, <2>6, <2>7 DEF Next, Declaration
<1>4. CASE Declare
  <2>1. PICK name \in Key : Adds(Node("function", At, name, NoPointer))
    BY <1>4 DEF Declare
  <2>2. outcome' # "duplicated type"
    BY <1>4 DEF Declare, Diagnose, Visiting
  <2>3. kind = "function"
    BY <2>2, DuplicatesNamed
  <2> QED BY <1>2, <2>1, <2>3 DEF Adds, Node, Kind
<1>5. CASE TypeDec
  <2>1. PICK name \in Key : Adds(Node("type", At, name, NoPointer))
    BY <1>5 DEF TypeDec
  <2>2. outcome' # "duplicated function"
    BY <1>5 DEF TypeDec, Diagnose, Visiting
  <2>3. kind = "type"
    BY <2>2, DuplicatesNamed
  <2> QED BY <1>2, <2>1, <2>3 DEF Adds, Node, Kind
<1> QED BY <1>3, <1>4, <1>5

LEMMA DuplicateStep == BinderInv /\ DuplicateIsLast /\ [Next]_vars => DuplicateIsLast'
<1> SUFFICES ASSUME BinderInv, DuplicateIsLast, [Next]_vars,
                    NEW kind \in {"function", "type"}, outcome' = Duplicated(kind)
             PROVE  nodes' # <<>> /\ Kind(Len(nodes))' = kind
  BY DEF DuplicateIsLast, Duplicated
<1>1. CASE Next
  BY <1>1, DuplicateMet DEF BinderInv
<1>2. CASE UNCHANGED vars
  BY <1>2 DEF vars, DuplicateIsLast, Kind, Duplicated
<1> QED BY <1>1, <1>2

\* The owner of a declaration in a chunk is around whatever is declared there.
LEMMA OwnerAround ==
  ASSUME TreeInv, NEW i \in 1..Len(nodes), Kind(i) \in {"function", "type"}
  PROVE  Owner(i) \in Ancestors[i]
<1>1. \A j \in 1..Len(nodes) : nodes[j].in < j /\ nodes[j].in \in Nat
  <2>1. nodes \in Seq(Planting) /\ \A j \in 1..Len(nodes) : nodes[j].in < j
    BY DEF TreeInv
  <2>2. \A j \in 1..Len(nodes) : nodes[j] \in Planting
    BY <2>1
  <2> QED BY <2>1, <2>2 DEF Planting
<1>2. nodes[i].in > 0
  BY DEF TreeInv
<1>3. PICK c : c = nodes[i].in
  OBVIOUS
<1>4. c \in 1..Len(nodes) /\ i \in 0..Len(nodes) /\ i # 0 /\ c \in 0..Len(nodes) /\ c # 0
  BY <1>1, <1>2, <1>3
<1>5. PICK o : o = nodes[c].in
  OBVIOUS
<1>6. o \in 0..Len(nodes)
  BY <1>1, <1>4, <1>5
<1>7. Owner(i) = o
  BY <1>3, <1>5 DEF Owner, Kind
<1>8. \A j \in 0..Len(nodes) :
        Ancestors[j] = IF j = 0 THEN {0} ELSE {j} \cup Ancestors[nodes[j].in]
  BY TreeRooted, AncestorsDef
<1>9. Ancestors[i] = {i} \cup Ancestors[c] /\ Ancestors[c] = {c} \cup Ancestors[o]
  BY <1>3, <1>4, <1>5, <1>8
<1>10. o \in Ancestors[o]
  BY <1>6, <1>8
<1> QED BY <1>7, <1>9, <1>10

LEMMA RejectsFrom == BinderInv /\ DuplicateIsLast => RejectsDuplicates
<1> SUFFICES ASSUME BinderInv, DuplicateIsLast PROVE RejectsDuplicates
  OBVIOUS
<1>1. TreeInv /\ RejectsVisibleNames
  BY DEF BinderInv
<1>2. ASSUME NEW d \in 1..Len(nodes), NEW i \in 1..Len(nodes), d < i,
             Kind(i) \in {"function", "type"}, Kind(d) = Kind(i),
             nodes[d].in = nodes[i].in, nodes[d].name = nodes[i].name
      PROVE  i = Len(nodes) /\ outcome = Duplicated(Kind(i))
  <2>1. Owner(d) = Owner(i)
    BY <1>2 DEF Owner
  <2>2. d \in Visible(i, {Kind(i)})
    BY <1>1, <1>2, <2>1, OwnerAround DEF Visible
  <2> QED BY <1>1, <1>2, <2>2 DEF RejectsVisibleNames, Duplicated
<1>3. ASSUME NEW kind \in {"function", "type"}, outcome = Duplicated(kind)
      PROVE  /\ nodes # <<>> /\ Kind(Len(nodes)) = kind
             /\ Visible(Len(nodes), {kind}) # {}
  <2>1. nodes # <<>> /\ Kind(Len(nodes)) = kind
    BY <1>3 DEF DuplicateIsLast
  <2>2. Len(nodes) \in 1..Len(nodes)
    BY <1>1, <2>1 DEF TreeInv
  <2> QED BY <1>1, <1>3, <2>1, <2>2 DEF RejectsVisibleNames, Duplicated
<1> QED BY <1>2, <1>3 DEF RejectsDuplicates

\* Of two functions or types of one name in a chunk the second is rejected, and
\* one is only rejected where another of its name is visible.
THEOREM Rejects == Spec => []RejectsDuplicates
<1>1. Init => DuplicateIsLast
  BY DEF Init, DuplicateIsLast, Duplicated
<1> QED BY <1>1, Invariant, DuplicateStep, RejectsFrom, PTL DEF Spec
=============================================================================
