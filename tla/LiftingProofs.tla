---------------------------- MODULE LiftingProofs ----------------------------
(***************************************************************************)
(* For any functions, variables and programs, what LiftingProps says of    *)
(* escape analysis and lambda lifting, but that the visitors return.       *)
(*                                                                         *)
(* The stack of the visit is a path down the program that meets no function*)
(* twice (WalkInv), so that what is inside a function that is behind has   *)
(* been visited as a whole and what is ahead has not.  FlagInv gives each  *)
(* frame the depth it starts at and each variable on the path the depth of *)
(* its place, CollectInv says what the functions that are behind are       *)
(* passed, TranslateInv what those on the path have an address of.  Each   *)
(* visitor relies on what the one before it left.                          *)
(***************************************************************************)
EXTENDS LiftingProps, FiniteSetTheorems, TLAPS

-----------------------------------------------------------------------------
(* The stack of the walk.                                                  *)

\* The top of a stack, and what is left when it returns.
LEMMA TopAndRest ==
  ASSUME NEW S, NEW s \in Seq(S), s # <<>>
  PROVE  /\ Len(s) \in Nat \ {0}
         /\ Head(s) = s[1] /\ Head(s) \in S
         /\ Tail(s) \in Seq(S) /\ Len(Tail(s)) = Len(s) - 1
         /\ \A i \in 1..Len(s) - 1 : Tail(s)[i] = s[i + 1]
OBVIOUS

\* A stack with another frame in place of the top.
LEMMA TopReplaced ==
  ASSUME NEW S, NEW s \in Seq(S), s # <<>>, NEW x \in S
  PROVE  LET t == <<x>> \o Tail(s)
         IN  /\ t \in Seq(S) /\ Len(t) = Len(s) /\ t[1] = x
             /\ \A i \in 2..Len(s) : t[i] = s[i]
<1> DEFINE t == <<x>> \o Tail(s)
           r == Tail(s)
<1>1. /\ Len(s) \in Nat \ {0} /\ r \in Seq(S) /\ Len(r) = Len(s) - 1
      /\ \A i \in 1..Len(s) - 1 : r[i] = s[i + 1]
  BY TopAndRest
<1> HIDE DEF r
<1>2. /\ <<x>> \o r \in Seq(S) /\ Len(<<x>> \o r) = Len(s)
      /\ (<<x>> \o r)[1] = x
      /\ \A i \in 2..Len(s) : (<<x>> \o r)[i] = r[i - 1]
  BY <1>1
<1>3. \A i \in 2..Len(s) : r[i - 1] = s[i]
  <2> TAKE i \in 2..Len(s)
  <2>1. i - 1 \in 1..Len(s) - 1 /\ (i - 1) + 1 = i
    BY <1>1
  <2> QED BY <1>1, <2>1
<1> QED BY <1>2, <1>3 DEF r

\* A stack with two frames in place of the top: a visit in progress.
LEMMA TopEntered ==
  ASSUME NEW S, NEW s \in Seq(S), s # <<>>, NEW x \in S, NEW y \in S
  PROVE  LET t == <<x, y>> \o Tail(s)
         IN  /\ t \in Seq(S) /\ Len(t) = Len(s) + 1 /\ t[1] = x /\ t[2] = y
             /\ \A i \in 3..Len(s) + 1 : t[i] = s[i - 1]
<1> DEFINE r == Tail(s)
<1>1. /\ Len(s) \in Nat \ {0} /\ r \in Seq(S) /\ Len(r) = Len(s) - 1
      /\ \A i \in 1..Len(s) - 1 : r[i] = s[i + 1]
  BY TopAndRest
<1> HIDE DEF r
<1>2. /\ <<x, y>> \o r \in Seq(S) /\ Len(<<x, y>> \o r) = Len(s) + 1
      /\ (<<x, y>> \o r)[1] = x /\ (<<x, y>> \o r)[2] = y
      /\ \A i \in 3..Len(s) + 1 : (<<x, y>> \o r)[i] = r[i - 2]
  BY <1>1
<1>3. \A i \in 3..Len(s) + 1 : r[i - 2] = s[i - 1]
  <2> TAKE i \in 3..Len(s) + 1
  <2>1. i - 2 \in 1..Len(s) - 1 /\ (i - 2) + 1 = i - 1
    BY <1>1
  <2> QED BY <1>1, <2>1
<1> QED BY <1>2, <1>3 DEF r

\* The levels of a stack of which the top is replaced, entered or left.
LEMMA LevelsReplaced ==
  ASSUME NEW S, NEW s \in Seq(S), s # <<>>, NEW x \in S
  PROVE  LET t == <<x>> \o Tail(s)
         IN  /\ t \in Seq(S) /\ Len(t) = Len(s) /\ Len(s) \in Nat \ {0} /\ t # <<>>
             /\ Level(s, Len(s)) = Head(s) /\ Head(s) \in S
             /\ Level(t, Len(s)) = x
             /\ \A d \in 1..Len(s) - 1 : Level(t, d) = Level(s, d)
<1> DEFINE t == <<x>> \o Tail(s)
<1>1. /\ t \in Seq(S) /\ Len(t) = Len(s) /\ t[1] = x
      /\ \A i \in 2..Len(s) : t[i] = s[i]
  BY TopReplaced
<1>2. Len(s) \in Nat \ {0} /\ Head(s) = s[1] /\ Head(s) \in S
  BY TopAndRest
<1> HIDE DEF t
<1>3. Len(s) + 1 - Len(s) = 1 /\ \A d \in 1..Len(s) - 1 : Len(s) + 1 - d \in 2..Len(s)
  BY <1>2
<1>4. t # <<>>
  BY <1>1, <1>2
<1> QED BY <1>1, <1>2, <1>3, <1>4 DEF Level, t

LEMMA LevelsEntered ==
  ASSUME NEW S, NEW s \in Seq(S), s # <<>>, NEW x \in S, NEW y \in S
  PROVE  LET t == <<x, y>> \o Tail(s)
         IN  /\ t \in Seq(S) /\ Len(t) = Len(s) + 1 /\ Len(s) \in Nat \ {0} /\ t # <<>>
             /\ Level(s, Len(s)) = Head(s) /\ Head(s) \in S
             /\ Level(t, Len(s) + 1) = x /\ Level(t, Len(s)) = y
             /\ \A d \in 1..Len(s) - 1 : Level(t, d) = Level(s, d)
<1> DEFINE t == <<x, y>> \o Tail(s)
<1>1. /\ t \in Seq(S) /\ Len(t) = Len(s) + 1 /\ t[1] = x /\ t[2] = y
      /\ \A i \in 3..Len(s) + 1 : t[i] = s[i - 1]
  BY TopEntered
<1>2. Len(s) \in Nat \ {0} /\ Head(s) = s[1] /\ Head(s) \in S
  BY TopAndRest
<1> HIDE DEF t
<1>3. /\ Len(s) + 1 - Len(s) = 1 /\ (Len(s) + 1) + 1 - (Len(s) + 1) = 1
      /\ (Len(s) + 1) + 1 - Len(s) = 2
      /\ \A d \in 1..Len(s) - 1 : /\ (Len(s) + 1) + 1 - d \in 3..Len(s) + 1
                                  /\ ((Len(s) + 1) + 1 - d) - 1 = Len(s) + 1 - d
  BY <1>2
<1>4. t # <<>>
  BY <1>1, <1>2
<1> QED BY <1>1, <1>2, <1>3, <1>4 DEF Level, t

LEMMA LevelsLeft ==
  ASSUME NEW S, NEW s \in Seq(S), s # <<>>
  PROVE  LET t == Tail(s)
         IN  /\ t \in Seq(S) /\ Len(t) = Len(s) - 1 /\ Len(s) \in Nat \ {0}
             /\ Level(s, Len(s)) = Head(s) /\ Head(s) \in S
             /\ \A d \in 1..Len(s) - 1 : Level(t, d) = Level(s, d)
             /\ t = <<>> <=> Len(s) = 1
<1> DEFINE t == Tail(s)
<1>1. /\ Len(s) \in Nat \ {0} /\ Head(s) = s[1] /\ Head(s) \in S
      /\ t \in Seq(S) /\ Len(t) = Len(s) - 1
      /\ \A i \in 1..Len(s) - 1 : t[i] = s[i + 1]
  BY TopAndRest
<1> HIDE DEF t
<1>2. /\ Len(s) + 1 - Len(s) = 1
      /\ \A d \in 1..Len(s) - 1 : /\ (Len(s) - 1) + 1 - d \in 1..Len(s) - 1
                                  /\ ((Len(s) - 1) + 1 - d) + 1 = Len(s) + 1 - d
  BY <1>1
<1>3. t = <<>> <=> Len(t) = 0
  BY <1>1
<1> QED BY <1>1, <1>2, <1>3 DEF Level, t

\* A level of a stack is one of its frames.
LEMMA LevelIn ==
  ASSUME NEW S, NEW s \in Seq(S), NEW d \in 1..Len(s)
  PROVE  Level(s, d) \in S
<1>1. Len(s) + 1 - d \in 1..Len(s)
  OBVIOUS
<1> QED BY <1>1 DEF Level

\* A frame is of a chunk or of a function, and goes on as the frame it was.
LEMMA FrameFacts ==
  ASSUME NEW x \in Frame
  PROVE  /\ x.is \in {"chunk", "function"} /\ x.at \in Nat \ {0}
         /\ x.is = "chunk" => x.functions \in Seq(Fun) /\ x.saved \in BOOLEAN
         /\ x.is = "function" => x.function \in Fun /\ x.saved \in Fun
         /\ Past(x) \in Frame /\ Past(x).is = x.is /\ Past(x).at = x.at + 1
         /\ x.is = "chunk" => Past(x).functions = x.functions
         /\ x.is = "function" => Past(x).function = x.function /\ Past(x).saved = x.saved
<1>1. CASE x \in ChunkFrame
  BY <1>1 DEF Past, Frame, ChunkFrame
<1>2. CASE x \in FunctionFrame
  BY <1>2 DEF Past, Frame, FunctionFrame
<1> QED BY <1>1, <1>2 DEF Frame

\* A chunk from the start.
LEMMA AgainFrame ==
  ASSUME NEW x \in Frame, x.is = "chunk"
  PROVE  LET again == [x EXCEPT !.at = 1]
         IN  /\ again \in Frame /\ again.is = "chunk" /\ again.at = 1
             /\ again.functions = x.functions
<1>1. x \in ChunkFrame
  BY DEF Frame, ChunkFrame, FunctionFrame
<1> QED BY <1>1 DEF Frame, ChunkFrame

-----------------------------------------------------------------------------
(* The text of a program.                                                  *)

\* What the items of a body are about has the type their kind asks for.
LEMMA ItemTypes ==
  ASSUME NEW p \in Programs, NEW f \in Fun
  PROVE  /\ Items(p, f) = 1..Len(p.body[f]) /\ Len(p.body[f]) \in Nat
         /\ p.formals[f] \in SUBSET Var
         /\ \A op : Where(p, f, op) \subseteq Items(p, f)
         /\ \A i \in Items(p, f) : OpAt(p, f, i) \in Op /\ i \in Where(p, f, OpAt(p, f, i))
         /\ \A i \in Where(p, f, "use") \cup Where(p, f, "var") : OfAt(p, f, i) \in Var
         /\ \A i \in Where(p, f, "call") : OfAt(p, f, i) \in Fun
         /\ \A i \in Where(p, f, "functions") :
              OfAt(p, f, i) \in Seq(Fun) /\ Elements(OfAt(p, f, i)) \subseteq Fun
         /\ Nested(p, f) \subseteq Fun
<1>1. /\ Items(p, f) = 1..Len(p.body[f]) /\ Len(p.body[f]) \in Nat
      /\ p.formals[f] \in SUBSET Var
  BY LiftingAssumption DEF Items
<1>2. \A i \in Items(p, f) : OpAt(p, f, i) \in Op
  BY LiftingAssumption DEF Items, OpAt
<1>3. \A i \in Where(p, f, "use") \cup Where(p, f, "var") : OfAt(p, f, i) \in Var
  BY LiftingAssumption DEF Where, Items, OpAt, OfAt
<1>4. \A i \in Where(p, f, "call") : OfAt(p, f, i) \in Fun
  BY LiftingAssumption DEF Where, Items, OpAt, OfAt
<1>5. \A i \in Where(p, f, "functions") : OfAt(p, f, i) \in Seq(Fun)
  BY LiftingAssumption DEF Where, Items, OpAt, OfAt
<1>6. \A c \in Seq(Fun) : Elements(c) \subseteq Fun
  BY DEF Elements
<1>7. Nested(p, f) \subseteq Fun
  BY <1>5, <1>6 DEF Nested
<1> QED BY <1>1, <1>2, <1>3, <1>4, <1>5, <1>6, <1>7 DEF Where

\* What is inside a function: itself, and what is inside those declared in it.
LEMMA InsideFacts ==
  ASSUME NEW p \in Programs, NEW f \in Fun
  PROVE  /\ f \in Inside(p, f) /\ Inside(p, f) \subseteq Fun
         /\ \A h \in Inside(p, f) : Nested(p, h) \subseteq Inside(p, f)
         /\ \A S \in SUBSET Fun :
              f \in S /\ (\A h \in S : Nested(p, h) \subseteq S) => Inside(p, f) \subseteq S
<1>1. \A h \in Fun : Nested(p, h) \subseteq Fun
  BY ItemTypes
<1> QED BY <1>1 DEF Inside, Closure

LEMMA InsideInside ==
  ASSUME NEW p \in Programs, NEW f \in Fun, NEW g \in Inside(p, f)
  PROVE  Inside(p, g) \subseteq Inside(p, f)
<1>1. g \in Fun /\ Inside(p, f) \in SUBSET Fun
  BY InsideFacts
<1> QED BY <1>1, InsideFacts

LEMMA InsideUnfolded ==
  ASSUME NEW p \in Programs, NEW f \in Fun
  PROVE  Inside(p, f) = {f} \cup UNION {Inside(p, g) : g \in Nested(p, f)}
<1> DEFINE S == {f} \cup UNION {Inside(p, g) : g \in Nested(p, f)}
<1>1. Nested(p, f) \subseteq Fun /\ Nested(p, f) \subseteq Inside(p, f) /\ f \in Inside(p, f)
  BY ItemTypes, InsideFacts
<1>2. S \subseteq Inside(p, f)
  BY <1>1, InsideInside
<1>3. S \in SUBSET Fun
  BY <1>2, InsideFacts
<1>4. ASSUME NEW h \in S PROVE Nested(p, h) \subseteq S
  <2>1. CASE h = f
    BY <1>1, <2>1, InsideFacts
  <2>2. CASE h # f
    <3>1. PICK g \in Nested(p, f) : h \in Inside(p, g)
      BY <1>4, <2>2
    <3> QED BY <1>1, <3>1, InsideFacts
  <2> QED BY <2>1, <2>2
<1>5. f \in S
  OBVIOUS
<1> HIDE DEF S
<1>6. Inside(p, f) \subseteq S
  BY <1>3, <1>4, <1>5, InsideFacts
<1> QED BY <1>2, <1>6 DEF S

\* A function that is not around a set of functions is around none inside it:
\* what is inside x meets a set only if the way to it from x does.
LEMMA NoWayIn ==
  ASSUME NEW p \in Programs, NEW x \in Fun, NEW S, x \notin S,
         \A g \in S : \A h \in Fun : g \in Nested(p, h) => h \in S
  PROVE  Inside(p, x) \cap S = {}
<1>1. \A h \in Fun \ S : Nested(p, h) \subseteq Fun \ S
  BY ItemTypes
<1> QED BY <1>1, InsideFacts

-----------------------------------------------------------------------------
(* The stack is a path.                                                    *)

\* Below a function is the chunk it is of, and below that the function the
\* chunk is in; below _main is the bottom.
LEMMA Below ==
  ASSUME NEW p \in Programs, NEW s \in Seq(Frame), Path(p, s), NEW d \in Bodies(s)
  PROVE  /\ d - 1 \in 1..Len(s) /\ Level(s, d - 1).is = "chunk"
         /\ Level(s, d - 1).at - 1 \in DOMAIN Level(s, d - 1).functions
         /\ Level(s, d).function = Level(s, d - 1).functions[Level(s, d - 1).at - 1]
         /\ d = 2 => Level(s, d).function = Main
         /\ d # 2 => /\ d - 2 \in Bodies(s)
                     /\ Level(s, d - 2).at - 1 \in Where(p, Level(s, d - 2).function, "functions")
                     /\ Level(s, d - 1).functions
                          = OfAt(p, Level(s, d - 2).function, Level(s, d - 2).at - 1)
<1>1. d \in 1..Len(s) /\ Level(s, d).is = "function" /\ s # <<>>
  BY DEF Bodies
<1>2. Level(s, 1).is = "chunk" /\ Level(s, 1).functions = <<Main>>
  BY <1>1 DEF Path
<1>3. d # 1
  BY <1>1, <1>2
<1>4. d - 1 \in 1..Len(s) - 1 /\ (d - 1) + 1 = d
  BY <1>1, <1>3
<1>5. InVisit(p, Level(s, d - 1), Level(s, d))
  BY <1>4 DEF Path
<1>6. /\ Level(s, d - 1).is = "chunk"
      /\ Level(s, d - 1).at - 1 \in DOMAIN Level(s, d - 1).functions
      /\ Level(s, d).function = Level(s, d - 1).functions[Level(s, d - 1).at - 1]
  BY <1>1, <1>5 DEF InVisit
<1>7. d = 2 => Level(s, d).function = Main
  BY <1>2, <1>6
<1>8. ASSUME d # 2
      PROVE  /\ d - 2 \in Bodies(s)
             /\ Level(s, d - 2).at - 1 \in Where(p, Level(s, d - 2).function, "functions")
             /\ Level(s, d - 1).functions
                  = OfAt(p, Level(s, d - 2).function, Level(s, d - 2).at - 1)
  <2>1. d - 2 \in 1..Len(s) - 1 /\ (d - 2) + 1 = d - 1 /\ d - 2 \in 1..Len(s)
    BY <1>4, <1>8
  <2>2. InVisit(p, Level(s, d - 2), Level(s, d - 1))
    BY <2>1 DEF Path
  <2> QED BY <1>6, <2>1, <2>2 DEF InVisit, Bodies
<1>9. d - 1 \in 1..Len(s)
  BY <1>4
<1> QED BY <1>6, <1>7, <1>8, <1>9

\* The one place of a function on the stack is where the levels below it are.
LEMMA PlaceOnStack ==
  ASSUME NEW p \in Programs, NEW s \in Seq(Frame), Path(p, s), NEW d \in Bodies(s),
         NEW h \in Fun, NEW i \in Where(p, h, "functions"), NEW k \in DOMAIN OfAt(p, h, i),
         OfAt(p, h, i)[k] = Level(s, d).function
  PROVE  /\ d - 2 \in Bodies(s) /\ Level(s, d - 2).function = h
         /\ Level(s, d - 2).at - 1 = i /\ Level(s, d - 1).at - 1 = k
<1>1. OnePlaceEach(p)
  BY ScopingAssumption
<1>2. OfAt(p, h, i)[k] # Main
  BY <1>1 DEF OnePlaceEach
<1>3. d # 2
  BY <1>2, Below
<1> DEFINE g == Level(s, d - 2).function
           j == Level(s, d - 2).at - 1
           l == Level(s, d - 1).at - 1
<1>4. /\ d - 2 \in Bodies(s) /\ j \in Where(p, g, "functions")
      /\ l \in DOMAIN OfAt(p, g, j) /\ OfAt(p, g, j)[l] = Level(s, d).function
  BY <1>3, Below
<1>5. g \in Fun
  BY <1>4, LevelIn, FrameFacts DEF Bodies
<1> HIDE DEF g, j, l
<1>6. g = h /\ j = i /\ l = k
  BY <1>1, <1>4, <1>5 DEF OnePlaceEach
<1> QED BY <1>4, <1>6 DEF g, j, l

\* What is around a function on the stack is on the stack: a function that is
\* not has none inside that is.
LEMMA OffTheStack ==
  ASSUME NEW p \in Programs, NEW s \in Seq(Frame), Path(p, s), NEW x \in Fun, x \notin OnStack(s)
  PROVE  Inside(p, x) \cap OnStack(s) = {}
<1>1. ASSUME NEW g \in OnStack(s), NEW h \in Fun, g \in Nested(p, h)
      PROVE  h \in OnStack(s)
  <2>1. PICK d \in Bodies(s) : g = Level(s, d).function
    BY <1>1 DEF OnStack
  <2>2. PICK i \in Where(p, h, "functions") : g \in Elements(OfAt(p, h, i))
    BY <1>1 DEF Nested
  <2>3. PICK k \in DOMAIN OfAt(p, h, i) : g = OfAt(p, h, i)[k]
    BY <2>2 DEF Elements
  <2>4. OfAt(p, h, i)[k] = Level(s, d).function
    BY <2>1, <2>3
  <2>5. d - 2 \in Bodies(s) /\ Level(s, d - 2).function = h
    BY <2>4, PlaceOnStack
  <2> QED BY <2>5 DEF OnStack
<1> DEFINE S == OnStack(s)
<1>2. \A g \in S : \A h \in Fun : g \in Nested(p, h) => h \in S
  BY <1>1
<1> HIDE DEF S
<1>3. x \notin S => Inside(p, x) \cap S = {}
  BY <1>2, NoWayIn
<1> QED BY <1>3 DEF S

\* What a frame has passed are functions that are not on the stack.
LEMMA PassedIsOver ==
  ASSUME NEW p \in Programs, NEW s \in Seq(Frame), Path(p, s), NEW d \in 1..Len(s),
         NEW g \in Passed(p, Level(s, d), Reached(s, d))
  PROVE  g \in Fun /\ g \notin OnStack(s)
<1> DEFINE x == Level(s, d)
           n == Reached(s, d)
<1>1. x \in Frame /\ x.is \in {"chunk", "function"} /\ x.at \in Nat \ {0}
  BY LevelIn, FrameFacts
<1>2. /\ d = Len(s) => n = x.at
      /\ d # Len(s) => n = x.at - 1 /\ d \in 1..Len(s) - 1
  BY DEF Reached
<1>3. CASE x.is = "chunk"
  <2>1. PICK k \in DOMAIN x.functions : k < n /\ g = x.functions[k]
    BY <1>3 DEF Passed
  <2>2. g \in Fun /\ k \in Nat
    BY <1>1, <1>3, <2>1, FrameFacts
  <2>3. ASSUME NEW e \in Bodies(s), g = Level(s, e).function
        PROVE  FALSE
    <3>1. CASE d = 1
      <4>1. x.functions = <<Main>> /\ k = 1
        BY <2>1, <3>1 DEF Path
      <4>2. e \in 1..Len(s) /\ e # 1
        BY <1>3, <2>3, <3>1 DEF Bodies
      <4>3. d \in 1..Len(s) - 1
        BY <3>1, <4>2
      <4>4. InVisit(p, x, Level(s, d + 1))
        BY <4>3 DEF Path
      <4>5. x.at - 1 \in DOMAIN x.functions
        BY <1>3, <4>4 DEF InVisit
      <4>6. x.at - 1 = 1
        <5>1. DOMAIN <<Main>> = {1}
          OBVIOUS
        <5> QED BY <4>1, <4>5, <5>1
      <4> QED BY <1>1, <1>2, <2>1, <4>1, <4>3, <4>6
    <3>2. CASE d # 1
      <4>1. d - 1 \in 1..Len(s) - 1 /\ (d - 1) + 1 = d
        BY <3>2
      <4>2. InVisit(p, Level(s, d - 1), x)
        BY <4>1 DEF Path
      <4>3. /\ Level(s, d - 1).is = "function"
            /\ Level(s, d - 1).at - 1 \in Where(p, Level(s, d - 1).function, "functions")
            /\ x.functions = OfAt(p, Level(s, d - 1).function, Level(s, d - 1).at - 1)
        BY <1>3, <4>2 DEF InVisit
      <4>4. d - 1 \in Bodies(s) /\ Level(s, d - 1).function \in Fun
        BY <4>1, <4>3, LevelIn, FrameFacts DEF Bodies
      <4>5. /\ e - 2 \in Bodies(s) /\ Level(s, e - 2).function = Level(s, d - 1).function
            /\ Level(s, e - 1).at - 1 = k
        <5> DEFINE h == Level(s, d - 1).function
                   i == Level(s, d - 1).at - 1
        <5>1. h \in Fun /\ i \in Where(p, h, "functions") /\ k \in DOMAIN OfAt(p, h, i)
          BY <4>3, <4>4
        <5>2. OfAt(p, h, i)[k] = Level(s, e).function
          BY <2>1, <2>3, <4>3
        <5> HIDE DEF h, i
        <5>3. e - 2 \in Bodies(s) /\ Level(s, e - 2).function = h /\ Level(s, e - 1).at - 1 = k
          BY <5>1, <5>2, PlaceOnStack
        <5> QED BY <5>3 DEF h
      <4>6. e - 2 = d - 1
        BY <4>4, <4>5 DEF Path
      <4>7. e \in 1..Len(s)
        BY <2>3 DEF Bodies
      <4>8. e - 1 = d /\ d # Len(s)
        BY <4>6, <4>7
      <4> QED BY <1>1, <1>2, <2>1, <2>2, <4>5, <4>8
    <3> QED BY <3>1, <3>2
  <2> QED BY <2>2, <2>3 DEF OnStack
<1>4. CASE x.is = "function"
  <2>1. x.function \in Fun /\ d \in Bodies(s)
    BY <1>1, <1>4, FrameFacts DEF Bodies
  <2>2. PICK i \in Where(p, x.function, "functions") : i < n /\ g \in Elements(OfAt(p, x.function, i))
    BY <1>4 DEF Passed
  <2>3. g \in Fun /\ i \in Nat
    BY <2>1, <2>2, ItemTypes
  <2>4. PICK k \in DOMAIN OfAt(p, x.function, i) : g = OfAt(p, x.function, i)[k]
    BY <2>2 DEF Elements
  <2>5. ASSUME NEW e \in Bodies(s), g = Level(s, e).function
        PROVE  FALSE
    <3>1. /\ e - 2 \in Bodies(s) /\ Level(s, e - 2).function = x.function
          /\ Level(s, e - 2).at - 1 = i
      <4> DEFINE h == x.function
      <4>1. h \in Fun /\ i \in Where(p, h, "functions") /\ k \in DOMAIN OfAt(p, h, i)
        BY <2>1, <2>2, <2>4
      <4>2. OfAt(p, h, i)[k] = Level(s, e).function
        BY <2>4, <2>5
      <4> HIDE DEF h
      <4>3. e - 2 \in Bodies(s) /\ Level(s, e - 2).function = h /\ Level(s, e - 2).at - 1 = i
        BY <2>5, <4>1, <4>2, PlaceOnStack
      <4> QED BY <4>3 DEF h
    <3>2. e - 2 = d
      BY <2>1, <3>1 DEF Path
    <3>3. e \in 1..Len(s)
      BY <2>5 DEF Bodies
    <3>4. d # Len(s)
      BY <3>2, <3>3
    <3> QED BY <1>1, <1>2, <2>2, <2>3, <3>1, <3>2, <3>4
  <2> QED BY <2>3, <2>5 DEF OnStack
<1> QED BY <1>1, <1>3, <1>4

\* A function whose visit is over is not on the stack.
LEMMA VisitedIsOver ==
  ASSUME NEW p \in Programs, NEW s \in Seq(Frame), Path(p, s), s # <<>>
  PROVE  Visited(p, s) \subseteq Fun /\ Visited(p, s) \cap OnStack(s) = {}
<1>1. ASSUME NEW f \in Visited(p, s) PROVE f \in Fun /\ f \notin OnStack(s)
  <2>1. PICK d \in 1..Len(s) : f \in Over(p, s, d)
    BY <1>1 DEF Visited
  <2>2. PICK g \in Passed(p, Level(s, d), Reached(s, d)) : f \in Inside(p, g)
    BY <2>1 DEF Over
  <2>3. g \in Fun /\ g \notin OnStack(s)
    BY <2>2, PassedIsOver
  <2> QED BY <2>2, <2>3, InsideFacts, OffTheStack
<1> QED BY <1>1

-----------------------------------------------------------------------------
(* The moves of a visitor, from a stack s to a stack t.                    *)

\* A frame of the same visit.
Alike(x, y) ==
  /\ y.is = x.is
  /\ x.is = "chunk" => y.functions = x.functions
  /\ x.is = "function" => y.function = x.function /\ y.saved = x.saved

SameBelow(s, t, n) == \A d \in 1..n - 1 : Level(t, d) = Level(s, d)

\* The top goes on as y; it goes on and y is visited; its visit is over.
Moves(s, t, y) ==
  /\ s # <<>> /\ t # <<>> /\ t \in Seq(Frame) /\ Len(t) = Len(s) /\ SameBelow(s, t, Len(s))
  /\ Level(t, Len(s)) = y /\ y \in Frame /\ Alike(Level(s, Len(s)), y)
Enters(p, s, t, y) ==
  /\ s # <<>> /\ t # <<>> /\ t \in Seq(Frame) /\ Len(t) = Len(s) + 1 /\ SameBelow(s, t, Len(s))
  /\ Level(t, Len(s)) = Past(Level(s, Len(s)))
  /\ Level(t, Len(s) + 1) = y /\ y \in Frame /\ y.at = 1
  /\ InVisit(p, Past(Level(s, Len(s))), y)
Leaves(s, t) ==
  /\ s # <<>> /\ t \in Seq(Frame) /\ Len(t) = Len(s) - 1 /\ SameBelow(s, t, Len(s))
  /\ t = <<>> <=> Len(s) = 1

\* A visit of the same upper or lower frame.
LEMMA AlikeVisit ==
  ASSUME NEW p, NEW x, NEW y, NEW z, Alike(y, z)
  PROVE  InVisit(p, x, y) => InVisit(p, x, z)
BY DEF Alike, InVisit

LEMMA PathMoves ==
  ASSUME NEW p \in Programs, NEW s \in Seq(Frame), Path(p, s), NEW t, NEW y, Moves(s, t, y),
         y.is = "function" => y.at <= Len(p.body[y.function]) + 1
  PROVE  /\ Path(p, t) /\ Bodies(t) = Bodies(s) /\ OnStack(t) = OnStack(s)
         /\ \A d \in Bodies(s) : Level(t, d).function = Level(s, d).function
<1> DEFINE n == Len(s)
           x == Level(s, n)
<1>1. /\ n \in Nat \ {0} /\ Len(t) = n /\ Level(t, n) = y /\ Alike(x, y)
      /\ s # <<>> /\ t # <<>> /\ \A d \in 1..n - 1 : Level(t, d) = Level(s, d)
  BY DEF Moves, SameBelow
<1> HIDE DEF n, x
<1>2. \A d \in 1..n : Alike(Level(s, d), Level(t, d)) /\ (d # n => Level(t, d) = Level(s, d))
  <2>1. \A d \in 1..n : d = n \/ d \in 1..n - 1
    BY <1>1
  <2> QED BY <1>1, <2>1 DEF Alike, x
<1>3. Bodies(t) = Bodies(s)
  BY <1>1, <1>2 DEF Bodies, Alike, n
<1>4. \A d \in Bodies(s) : Level(t, d).function = Level(s, d).function
  BY <1>1, <1>2 DEF Bodies, Alike, n
<1>5. Level(t, 1).is = "chunk" /\ Level(t, 1).functions = <<Main>>
  <2>1. 1 \in 1..n
    BY <1>1
  <2> QED BY <1>1, <1>2, <2>1 DEF Path, Alike
<1>6. ASSUME NEW d \in 1..n - 1
      PROVE  InVisit(p, Level(t, d), Level(t, d + 1))
  <2>1. d \in 1..n /\ d # n /\ d + 1 \in 1..n
    BY <1>1, <1>6
  <2>2. InVisit(p, Level(s, d), Level(s, d + 1))
    BY DEF Path, n
  <2> QED BY <1>2, <2>1, <2>2, AlikeVisit
<1>7. ASSUME NEW d \in Bodies(t)
      PROVE  /\ Level(t, d).function \in Inside(p, Main)
             /\ Level(t, d).at <= Len(p.body[Level(t, d).function]) + 1
             /\ \A e \in Bodies(t) : Level(t, d).function = Level(t, e).function => d = e
  <2>1. Level(t, d).at <= Len(p.body[Level(t, d).function]) + 1
    <3>1. CASE d = n
      BY <1>1, <1>7, <3>1 DEF Bodies
    <3>2. CASE d # n
      <4>1. Level(t, d) = Level(s, d)
        BY <1>1, <1>2, <3>2 DEF Bodies
      <4> QED BY <1>3, <4>1 DEF Path
    <3> QED BY <3>1, <3>2
  <2> QED BY <1>3, <1>4, <2>1 DEF Path
<1>8. Path(p, t)
  BY <1>1, <1>5, <1>6, <1>7 DEF Path
<1> QED BY <1>3, <1>4, <1>8 DEF OnStack

LEMMA PathEnters ==
  ASSUME NEW p \in Programs, NEW s \in Seq(Frame), Path(p, s), NEW t, NEW y, Enters(p, s, t, y),
         y.is = "function" => y.function \in Inside(p, Main) \ OnStack(s),
         Level(s, Len(s)).is = "function" =>
           Level(s, Len(s)).at <= Len(p.body[Level(s, Len(s)).function])
  PROVE  /\ Path(p, t)
         /\ Bodies(t) = Bodies(s) \cup {d \in {Len(s) + 1} : y.is = "function"}
         /\ \A d \in Bodies(s) : Level(t, d).function = Level(s, d).function
<1> DEFINE n == Len(s)
           x == Level(s, n)
<1>1. /\ n \in Nat \ {0} /\ Len(t) = n + 1 /\ Level(t, n) = Past(x) /\ Level(t, n + 1) = y
      /\ s # <<>> /\ t # <<>> /\ \A d \in 1..n - 1 : Level(t, d) = Level(s, d)
      /\ y \in Frame /\ y.at = 1 /\ InVisit(p, Past(x), y)
  BY DEF Enters, SameBelow
<1>2. x \in Frame
  BY <1>1, LevelIn
<1>3. Alike(x, Past(x)) /\ Past(x).at = x.at + 1
  BY <1>2, FrameFacts DEF Alike
<1>a. n + 1 # n /\ 1 \in 1..n /\ n \in 1..n
  BY <1>1
<1> HIDE DEF n, x
<1>4. \A d \in 1..n : Alike(Level(s, d), Level(t, d)) /\ (d # n => Level(t, d) = Level(s, d))
  <2>1. \A d \in 1..n : d = n \/ d \in 1..n - 1
    BY <1>1
  <2> QED BY <1>1, <1>3, <2>1 DEF Alike, x
<1>5. Bodies(t) = Bodies(s) \cup {d \in {n + 1} : y.is = "function"}
  <2>1. 1..Len(t) = 1..n \cup {n + 1}
    BY <1>1
  <2> QED BY <1>1, <1>4, <2>1 DEF Bodies, Alike, n
<1>6. \A d \in Bodies(s) : d \in 1..n /\ Level(t, d).function = Level(s, d).function
  BY <1>1, <1>4 DEF Bodies, Alike, n
<1>7. Level(t, 1).is = "chunk" /\ Level(t, 1).functions = <<Main>>
  BY <1>1, <1>4, <1>a DEF Path, Alike
<1>8. ASSUME NEW d \in 1..n
      PROVE  InVisit(p, Level(t, d), Level(t, d + 1))
  <2>1. CASE d = n
    BY <1>1, <2>1
  <2>2. CASE d # n
    <3>1. d \in 1..n - 1 /\ d + 1 \in 1..n
      BY <1>1, <2>2
    <3>2. InVisit(p, Level(s, d), Level(s, d + 1))
      BY <3>1 DEF Path, n
    <3> QED BY <1>4, <2>2, <3>1, <3>2, AlikeVisit
  <2> QED BY <2>1, <2>2
<1>9. ASSUME NEW d \in Bodies(t)
      PROVE  /\ Level(t, d).function \in Inside(p, Main)
             /\ Level(t, d).at <= Len(p.body[Level(t, d).function]) + 1
             /\ \A e \in Bodies(t) : Level(t, d).function = Level(t, e).function => d = e
  <2>1. CASE d = n + 1
    <3>1. Level(t, d) = y /\ y.is = "function" /\ y.function \in Inside(p, Main) \ OnStack(s)
      BY <1>1, <1>9, <2>1 DEF Bodies
    <3>2. y.function \in Fun
      BY <1>1, <3>1, FrameFacts
    <3>3. Len(p.body[y.function]) \in Nat
      BY <3>2, ItemTypes
    <3>4. 1 <= Len(p.body[y.function]) + 1
      BY <3>3
    <3>5. \A e \in Bodies(t) : Level(t, d).function = Level(t, e).function => d = e
      <4> TAKE e \in Bodies(t)
      <4>1. e = n + 1 \/ e \in Bodies(s)
        BY <1>5
      <4> QED BY <1>6, <2>1, <3>1, <4>1 DEF OnStack
    <3> QED BY <1>1, <3>1, <3>4, <3>5
  <2>2. CASE d # n + 1
    <3>1. d \in Bodies(s) /\ d \in 1..n /\ Level(t, d).function = Level(s, d).function
      BY <1>5, <1>6, <2>2
    <3>2. /\ Level(s, d).function \in Inside(p, Main)
          /\ Level(s, d).at <= Len(p.body[Level(s, d).function]) + 1
          /\ \A e \in Bodies(s) : Level(s, d).function = Level(s, e).function => d = e
      BY <3>1 DEF Path
    <3>3. Level(t, d).at <= Len(p.body[Level(t, d).function]) + 1
      <4>1. CASE d = n
        <5>1. x.is = "function" /\ x.function \in Fun /\ x.at \in Nat
          BY <1>2, <3>1, <4>1, FrameFacts DEF Bodies, x
        <5>2. Len(p.body[x.function]) \in Nat /\ x.at <= Len(p.body[x.function])
          BY <5>1, ItemTypes DEF x, n
        <5>3. x.at + 1 <= Len(p.body[x.function]) + 1
          BY <5>1, <5>2
        <5> QED BY <1>1, <1>3, <3>1, <4>1, <5>3 DEF x
      <4>2. CASE d # n
        BY <1>4, <3>1, <3>2, <4>2
      <4> QED BY <4>1, <4>2
    <3>4. \A e \in Bodies(t) : Level(t, d).function = Level(t, e).function => d = e
      <4> TAKE e \in Bodies(t)
      <4>1. CASE e \in Bodies(s)
        BY <1>6, <3>1, <3>2, <4>1
      <4>2. CASE e \notin Bodies(s)
        <5>1. e = n + 1 /\ y.is = "function" /\ Level(t, e) = y
          BY <1>1, <1>5, <4>2
        <5> QED BY <3>1, <5>1 DEF OnStack
      <4> QED BY <4>1, <4>2
    <3> QED BY <3>1, <3>2, <3>3, <3>4
  <2> QED BY <2>1, <2>2
<1>10. \A d \in 1..Len(t) - 1 : d \in 1..n
  BY <1>1
<1>11. Path(p, t)
  BY <1>1, <1>7, <1>8, <1>9, <1>10 DEF Path
<1> QED BY <1>5, <1>6, <1>11 DEF n

LEMMA PathLeaves ==
  ASSUME NEW p \in Programs, NEW s \in Seq(Frame), Path(p, s), NEW t, Leaves(s, t)
  PROVE  /\ Path(p, t) /\ Bodies(t) = Bodies(s) \ {Len(s)}
         /\ \A d \in Bodies(t) : Level(t, d) = Level(s, d)
<1> DEFINE n == Len(s)
<1>1. /\ n \in Nat \ {0} /\ Len(t) = n - 1 /\ s # <<>>
      /\ \A d \in 1..n - 1 : Level(t, d) = Level(s, d)
      /\ t = <<>> <=> n = 1
  BY DEF Leaves, SameBelow
<1> HIDE DEF n
<1>2. 1..n = 1..n - 1 \cup {n} /\ n \notin 1..n - 1
  BY <1>1
<1>3. Bodies(t) = Bodies(s) \ {n} /\ \A d \in Bodies(t) : Level(t, d) = Level(s, d)
  BY <1>1, <1>2 DEF Bodies, n
<1>4. t # <<>> => Level(t, 1).is = "chunk" /\ Level(t, 1).functions = <<Main>>
  <2>1. n # 1 => 1 \in 1..n - 1
    BY <1>1
  <2> QED BY <1>1, <2>1 DEF Path
<1>5. \A d \in 1..Len(t) - 1 : /\ d \in 1..n - 1 /\ d + 1 \in 1..n - 1
  BY <1>1
<1>6. \A d \in 1..Len(t) - 1 : InVisit(p, Level(t, d), Level(t, d + 1))
  BY <1>1, <1>5 DEF Path, n
<1>7. Path(p, t)
  BY <1>3, <1>4, <1>6 DEF Path
<1> QED BY <1>3, <1>7 DEF n

\* The function that a chunk comes to is in the program, and not on the stack.
LEMMA NextIsNew ==
  ASSUME NEW p \in Programs, NEW s \in Seq(Frame), Path(p, s), s # <<>>,
         Level(s, Len(s)).is = "chunk",
         NEW k \in DOMAIN Level(s, Len(s)).functions, k = Level(s, Len(s)).at
  PROVE  Level(s, Len(s)).functions[k] \in Inside(p, Main) \ OnStack(s)
<1> DEFINE n == Len(s)
           f == Level(s, n).functions[k]
<1>1. n \in Nat \ {0}
  BY TopAndRest
<1>2. CASE n = 1
  <2>1. Level(s, n).functions = <<Main>> /\ Level(s, n).is = "chunk"
    BY <1>2 DEF Path
  <2>2. DOMAIN <<Main>> = {1}
    OBVIOUS
  <2>3. f = Main
    BY <2>1, <2>2
  <2>4. Bodies(s) = {}
    BY <1>2, <2>1 DEF Bodies
  <2> QED BY <2>3, <2>4, InsideFacts, LiftingAssumption DEF OnStack
<1>3. CASE n # 1
  <2> DEFINE h == Level(s, n - 1).function
             i == Level(s, n - 1).at - 1
  <2>1. n - 1 \in 1..n - 1 /\ (n - 1) + 1 = n /\ n - 1 \in 1..n
    <3> HIDE DEF n
    <3> QED BY <1>1, <1>3
  <2>2. InVisit(p, Level(s, n - 1), Level(s, n))
    BY <2>1 DEF Path
  <2>3. /\ Level(s, n - 1).is = "function" /\ i \in Where(p, h, "functions")
        /\ Level(s, n).functions = OfAt(p, h, i)
    BY <2>2 DEF InVisit
  <2>4. n - 1 \in Bodies(s) /\ h \in Fun
    BY <2>1, <2>3, LevelIn, FrameFacts DEF Bodies
  <2>5. h \in Inside(p, Main)
    BY <2>4 DEF Path
  <2> HIDE DEF h, i
  <2>6. f = OfAt(p, h, i)[k] /\ k \in DOMAIN OfAt(p, h, i)
    BY <2>3
  <2>7. f \in Nested(p, h)
    BY <2>3, <2>6 DEF Nested, Elements
  <2>8. f \in Inside(p, Main)
    BY <2>5, <2>7, InsideFacts, LiftingAssumption
  <2>9. ASSUME NEW e \in Bodies(s), f = Level(s, e).function PROVE FALSE
    <3>1. OfAt(p, h, i)[k] = Level(s, e).function
      BY <2>6, <2>9
    <3>2. e - 2 \in Bodies(s) /\ Level(s, e - 2).function = h
      BY <2>3, <2>4, <2>6, <3>1, PlaceOnStack
    <3>3. e - 2 = n - 1
      BY <2>4, <3>2 DEF Path, h
    <3>4. e \in 1..n
      BY DEF Bodies
    <3> QED BY <1>1, <3>3, <3>4
  <2> QED BY <2>8, <2>9 DEF OnStack
<1> QED BY <1>2, <1>3

-----------------------------------------------------------------------------
(* What a frame has passed.                                                *)

LEMMA PassedAlike ==
  ASSUME NEW p, NEW x \in Frame, NEW y, Alike(x, y), NEW to
  PROVE  Passed(p, y, to) = Passed(p, x, to)
<1>1. x.is \in {"chunk", "function"}
  BY FrameFacts
<1> QED BY <1>1 DEF Alike, Passed

LEMMA PassedNone ==
  ASSUME NEW p \in Programs, NEW x \in Frame
  PROVE  Passed(p, x, 1) = {}
<1>1. CASE x.is = "chunk"
  <2>1. x.functions \in Seq(Fun)
    BY <1>1, FrameFacts
  <2>2. \A k \in DOMAIN x.functions : ~(k < 1)
    BY <2>1
  <2> QED BY <1>1, <2>2 DEF Passed
<1>2. CASE x.is # "chunk"
  <2>1. x.function \in Fun
    BY <1>2, FrameFacts
  <2>2. \A i \in Where(p, x.function, "functions") : i \in Nat \ {0}
    BY <2>1, ItemTypes
  <2>3. \A i \in Where(p, x.function, "functions") : ~(i < 1)
    BY <2>2
  <2> QED BY <1>2, <2>3 DEF Passed
<1> QED BY <1>1, <1>2

LEMMA PassedOne ==
  ASSUME NEW p \in Programs, NEW x \in Frame, NEW i \in Nat
  PROVE  /\ x.is = "chunk" /\ i \in DOMAIN x.functions =>
              Passed(p, x, i + 1) = Passed(p, x, i) \cup {x.functions[i]}
         /\ x.is = "function" /\ i \in Where(p, x.function, "functions") =>
              Passed(p, x, i + 1) = Passed(p, x, i) \cup Elements(OfAt(p, x.function, i))
         /\ x.is = "function" /\ i \notin Where(p, x.function, "functions") =>
              Passed(p, x, i + 1) = Passed(p, x, i)
<1>1. ASSUME x.is = "chunk", i \in DOMAIN x.functions
      PROVE  Passed(p, x, i + 1) = Passed(p, x, i) \cup {x.functions[i]}
  <2>1. x.functions \in Seq(Fun)
    BY <1>1, FrameFacts
  <2>2. \A k \in DOMAIN x.functions : k < i + 1 <=> k < i \/ k = i
    BY <2>1
  <2>3. {k \in DOMAIN x.functions : k < i + 1} = {k \in DOMAIN x.functions : k < i} \cup {i}
    BY <1>1, <2>2
  <2>4. {x.functions[k] : k \in {k \in DOMAIN x.functions : k < i + 1}}
          = {x.functions[k] : k \in {k \in DOMAIN x.functions : k < i}} \cup {x.functions[i]}
    BY <2>3
  <2> QED BY <1>1, <2>4 DEF Passed
<1>2. ASSUME x.is = "function"
      PROVE  \A k \in Where(p, x.function, "functions") : k < i + 1 <=> k < i \/ k = i
  <2>1. x.function \in Fun
    BY <1>2, FrameFacts
  <2>2. \A k \in Where(p, x.function, "functions") : k \in Nat
    BY <2>1, ItemTypes
  <2> QED BY <2>2
<1>3. ASSUME x.is = "function", i \in Where(p, x.function, "functions")
      PROVE  Passed(p, x, i + 1) = Passed(p, x, i) \cup Elements(OfAt(p, x.function, i))
  <2>1. {k \in Where(p, x.function, "functions") : k < i + 1}
          = {k \in Where(p, x.function, "functions") : k < i} \cup {i}
    BY <1>2, <1>3
  <2> QED BY <1>3, <2>1 DEF Passed
<1>4. ASSUME x.is = "function", i \notin Where(p, x.function, "functions")
      PROVE  Passed(p, x, i + 1) = Passed(p, x, i)
  <2>1. {k \in Where(p, x.function, "functions") : k < i + 1}
          = {k \in Where(p, x.function, "functions") : k < i}
    BY <1>2, <1>4
  <2> QED BY <1>4, <2>1 DEF Passed
<1> QED BY <1>1, <1>3, <1>4

LEMMA PassedAll ==
  ASSUME NEW p \in Programs, NEW x \in Frame, NEW i \in Nat
  PROVE  /\ x.is = "chunk" /\ i > Len(x.functions) => Passed(p, x, i) = Elements(x.functions)
         /\ x.is = "function" /\ i > Len(p.body[x.function]) =>
              Passed(p, x, i) = Nested(p, x.function)
<1>1. ASSUME x.is = "chunk", i > Len(x.functions)
      PROVE  Passed(p, x, i) = Elements(x.functions)
  <2>1. x.functions \in Seq(Fun)
    BY <1>1, FrameFacts
  <2>2. \A k \in DOMAIN x.functions : k < i
    BY <1>1, <2>1
  <2> QED BY <1>1, <2>2 DEF Passed, Elements
<1>2. ASSUME x.is = "function", i > Len(p.body[x.function])
      PROVE  Passed(p, x, i) = Nested(p, x.function)
  <2>1. x.function \in Fun
    BY <1>2, FrameFacts
  <2>2. /\ Len(p.body[x.function]) \in Nat
        /\ \A k \in Where(p, x.function, "functions") : k \in 1..Len(p.body[x.function])
    BY <2>1, ItemTypes
  <2>3. \A k \in Where(p, x.function, "functions") : k < i
    BY <1>2, <2>2
  <2> QED BY <1>2, <2>3 DEF Passed, Nested
<1> QED BY <1>1, <1>2

-----------------------------------------------------------------------------
(* Whose visit is over after a move.                                       *)

\* The levels below the top are not the top.
LEMMA OverBelow ==
  ASSUME NEW p, NEW s, NEW t, NEW d, d # Len(s), d # Len(t), Level(t, d) = Level(s, d)
  PROVE  Over(p, t, d) = Over(p, s, d)
BY DEF Over, Reached

\* The same functions as before, or fewer when a chunk starts again.
LEMMA VisitedMoves ==
  ASSUME NEW p \in Programs, NEW s \in Seq(Frame), NEW t, NEW y, Moves(s, t, y)
  PROVE  LET x == Level(s, Len(s))
         IN  /\ Passed(p, y, y.at) \subseteq Passed(p, x, x.at) => Visited(p, t) \subseteq Visited(p, s)
             /\ Passed(p, y, y.at) = Passed(p, x, x.at) => Visited(p, t) = Visited(p, s)
<1> DEFINE n == Len(s)
           x == Level(s, n)
<1>1. /\ n \in Nat \ {0} /\ Len(t) = n /\ Level(t, n) = y /\ s # <<>> /\ t # <<>>
      /\ \A d \in 1..n - 1 : Level(t, d) = Level(s, d)
  BY DEF Moves, SameBelow
<1>2. Over(p, t, n) = UNION {Inside(p, g) : g \in Passed(p, y, y.at)}
  BY <1>1 DEF Over, Reached
<1>3. Over(p, s, n) = UNION {Inside(p, g) : g \in Passed(p, x, x.at)}
  BY DEF Over, Reached
<1> HIDE DEF n, x
<1>4. \A d \in 1..n - 1 : d # n
  BY <1>1
<1>5. \A d \in 1..n - 1 : Over(p, t, d) = Over(p, s, d)
  BY <1>1, <1>4, OverBelow DEF n
<1>6. 1..n = 1..n - 1 \cup {n}
  BY <1>1
<1>7. Visited(p, t) = UNION {Over(p, t, d) : d \in 1..n}
  BY <1>1 DEF Visited
<1>8. Visited(p, s) = UNION {Over(p, s, d) : d \in 1..n}
  BY <1>1 DEF Visited, n
<1>9. Passed(p, y, y.at) \subseteq Passed(p, x, x.at) => Visited(p, t) \subseteq Visited(p, s)
  BY <1>2, <1>3, <1>5, <1>6, <1>7, <1>8
<1>10. Passed(p, y, y.at) = Passed(p, x, x.at) => Visited(p, t) = Visited(p, s)
  BY <1>2, <1>3, <1>5, <1>6, <1>7, <1>8
<1> QED BY <1>9, <1>10 DEF n, x

LEMMA VisitedEnters ==
  ASSUME NEW p \in Programs, NEW s \in Seq(Frame), NEW t, NEW y, Enters(p, s, t, y)
  PROVE  Visited(p, t) = Visited(p, s)
<1> DEFINE n == Len(s)
           x == Level(s, n)
<1>1. /\ n \in Nat \ {0} /\ Len(t) = n + 1 /\ Level(t, n) = Past(x) /\ Level(t, n + 1) = y
      /\ s # <<>> /\ t # <<>> /\ \A d \in 1..n - 1 : Level(t, d) = Level(s, d)
      /\ y \in Frame /\ y.at = 1
  BY DEF Enters, SameBelow
<1>2. x \in Frame
  BY <1>1, LevelIn
<1>3. Alike(x, Past(x)) /\ Past(x).at = x.at + 1 /\ x.at \in Nat
  BY <1>2, FrameFacts DEF Alike
<1>4. Over(p, s, n) = UNION {Inside(p, g) : g \in Passed(p, x, x.at)}
  BY DEF Over, Reached
<1> HIDE DEF n, x
<1>5. Over(p, t, n) = Over(p, s, n)
  <2>1. n # Len(t) /\ (x.at + 1) - 1 = x.at
    BY <1>1, <1>3
  <2>2. Reached(t, n) = x.at
    BY <1>1, <1>3, <2>1 DEF Reached
  <2>3. Passed(p, Past(x), x.at) = Passed(p, x, x.at)
    BY <1>2, <1>3, PassedAlike
  <2> QED BY <1>1, <1>4, <2>2, <2>3 DEF Over
<1>6. Over(p, t, n + 1) = {}
  <2>1. Reached(t, n + 1) = 1
    BY <1>1 DEF Reached
  <2>2. Passed(p, y, 1) = {}
    BY <1>1, PassedNone
  <2> QED BY <1>1, <2>1, <2>2 DEF Over
<1>7. \A d \in 1..n - 1 : d # n /\ d # n + 1
  BY <1>1
<1>8. \A d \in 1..n - 1 : Over(p, t, d) = Over(p, s, d)
  BY <1>1, <1>7, OverBelow DEF n
<1>9. 1..n = 1..n - 1 \cup {n} /\ 1..n + 1 = 1..n - 1 \cup {n} \cup {n + 1}
  BY <1>1
<1>10. Visited(p, t) = UNION {Over(p, t, d) : d \in 1..n + 1}
  BY <1>1 DEF Visited
<1>11. Visited(p, s) = UNION {Over(p, s, d) : d \in 1..n}
  BY <1>1 DEF Visited, n
<1> QED BY <1>5, <1>6, <1>8, <1>9, <1>10, <1>11

\* The visit of a function that is over is one more; the visit of a chunk was
\* that of its functions.
LEMMA VisitedLeaves ==
  ASSUME NEW p \in Programs, NEW s \in Seq(Frame), Path(p, s), NEW t, Leaves(s, t)
  PROVE  LET x == Level(s, Len(s))
         IN  /\ x.is = "function" /\ x.at > Len(p.body[x.function]) =>
                  Visited(p, t) = Visited(p, s) \cup {x.function}
             /\ x.is = "chunk" /\ x.at > Len(x.functions) => Visited(p, t) = Visited(p, s)
<1> DEFINE n == Len(s)
           x == Level(s, n)
           y == Level(s, n - 1)
<1>1. /\ n \in Nat \ {0} /\ Len(t) = n - 1 /\ s # <<>>
      /\ \A d \in 1..n - 1 : Level(t, d) = Level(s, d)
      /\ t = <<>> <=> n = 1
  BY DEF Leaves, SameBelow
<1>2. x \in Frame
  BY <1>1, LevelIn
<1>3. x.at \in Nat /\ x.is \in {"chunk", "function"}
  BY <1>2, FrameFacts
<1>4. Over(p, s, n) = UNION {Inside(p, g) : g \in Passed(p, x, x.at)}
  BY DEF Over, Reached
<1>5. Visited(p, s) = UNION {Over(p, s, d) : d \in 1..n}
  BY <1>1 DEF Visited
<1> HIDE DEF n, x, y
<1>6. n = 1 => x.is = "chunk" /\ x.functions = <<Main>>
  BY <1>1 DEF Path, x
<1>7. CASE n = 1
  <2>1. Elements(<<Main>>) = {Main}
    <3>1. DOMAIN <<Main>> = {1}
      OBVIOUS
    <3> QED BY <3>1 DEF Elements
  <2>2. x.at > Len(x.functions) => Passed(p, x, x.at) = {Main}
    BY <1>2, <1>3, <1>6, <1>7, <2>1, PassedAll
  <2>3. Visited(p, t) = Inside(p, Main)
    BY <1>1, <1>7 DEF Visited
  <2>4. 1..n = {n}
    BY <1>7
  <2>5. x.at > Len(x.functions) => Visited(p, s) = Inside(p, Main)
    BY <1>4, <1>5, <2>2, <2>4
  <2> QED BY <1>6, <1>7, <2>3, <2>5 DEF n, x
<1>8. CASE n # 1
  <2>1. n - 1 \in 1..n - 1 /\ (n - 1) + 1 = n /\ n - 1 # n /\ n - 1 \in 1..n
    BY <1>1, <1>8
  <2>2. InVisit(p, y, x)
    BY <2>1 DEF Path, n, x, y
  <2>3. y \in Frame /\ y.at - 1 \in Nat /\ y.at = (y.at - 1) + 1
    <3>1. y \in Frame
      BY <2>1, LevelIn DEF n, y
    <3>2. y.at \in Nat \ {0}
      BY <3>1, FrameFacts
    <3> QED BY <3>1, <3>2
  <2>4. /\ Over(p, s, n - 1) = UNION {Inside(p, g) : g \in Passed(p, y, y.at - 1)}
        /\ Over(p, t, n - 1) = UNION {Inside(p, g) : g \in Passed(p, y, y.at)}
    BY <1>1, <2>1 DEF Over, Reached, n, y
  <2>5. \A d \in 1..n - 2 : d # n /\ d # n - 1 /\ d \in 1..n - 1
    BY <1>1
  <2>6. \A d \in 1..n - 2 : Over(p, t, d) = Over(p, s, d)
    BY <1>1, <2>5, OverBelow DEF n
  <2>7. 1..n - 1 = 1..n - 2 \cup {n - 1} /\ 1..n = 1..n - 2 \cup {n - 1} \cup {n}
    BY <1>1, <1>8
  <2>8. Visited(p, t) = UNION {Over(p, t, d) : d \in 1..n - 1}
    BY <1>1, <1>8 DEF Visited
  <2>9. ASSUME x.is = "function", x.at > Len(p.body[x.function])
        PROVE  Visited(p, t) = Visited(p, s) \cup {x.function}
    <3>1. y.is = "chunk" /\ y.at - 1 \in DOMAIN y.functions /\ x.function = y.functions[y.at - 1]
      BY <2>2, <2>9 DEF InVisit
    <3>2. Passed(p, y, (y.at - 1) + 1) = Passed(p, y, y.at - 1) \cup {x.function}
      <4>1. PICK i \in Nat : i = y.at - 1
        BY <2>3
      <4>2. i \in DOMAIN y.functions /\ x.function = y.functions[i]
        BY <3>1, <4>1
      <4>3. Passed(p, y, i + 1) = Passed(p, y, i) \cup {x.function}
        BY <2>3, <3>1, <4>2, PassedOne
      <4> QED BY <4>1, <4>3
    <3>3. Passed(p, x, x.at) = Nested(p, x.function)
      BY <1>2, <1>3, <2>9, PassedAll
    <3>4. x.function \in Fun
      BY <1>2, <2>9, FrameFacts
    <3>5. Inside(p, x.function) = {x.function} \cup Over(p, s, n)
      BY <1>4, <3>3, <3>4, InsideUnfolded
    <3>6. Over(p, t, n - 1) = Over(p, s, n - 1) \cup Inside(p, x.function)
      BY <2>3, <2>4, <3>2
    <3> QED BY <1>5, <2>6, <2>7, <2>8, <3>5, <3>6
  <2>10. ASSUME x.is = "chunk", x.at > Len(x.functions)
         PROVE  Visited(p, t) = Visited(p, s)
    <3>1. /\ y.is = "function" /\ y.at - 1 \in Where(p, y.function, "functions")
          /\ x.functions = OfAt(p, y.function, y.at - 1)
      BY <2>2, <2>10 DEF InVisit
    <3>2. Passed(p, y, (y.at - 1) + 1) = Passed(p, y, y.at - 1) \cup Elements(x.functions)
      <4>1. PICK i \in Nat : i = y.at - 1
        BY <2>3
      <4>2. i \in Where(p, y.function, "functions") /\ x.functions = OfAt(p, y.function, i)
        BY <3>1, <4>1
      <4>3. Passed(p, y, i + 1) = Passed(p, y, i) \cup Elements(x.functions)
        BY <2>3, <3>1, <4>2, PassedOne
      <4> QED BY <4>1, <4>3
    <3>3. Passed(p, x, x.at) = Elements(x.functions)
      BY <1>2, <1>3, <2>10, PassedAll
    <3>4. Over(p, t, n - 1) = Over(p, s, n - 1) \cup Over(p, s, n)
      BY <1>4, <2>3, <2>4, <3>2, <3>3
    <3> QED BY <1>5, <2>6, <2>7, <2>8, <3>4
  <2> QED BY <2>9, <2>10 DEF n, x
<1> QED BY <1>7, <1>8

-----------------------------------------------------------------------------
(* Whose visit it is after a move.                                         *)

LEMMA ChargedMoves ==
  ASSUME NEW p \in Programs, NEW s \in Seq(Frame), Path(p, s), NEW t, NEW y, Moves(s, t, y),
         NEW fun, Charged(s, fun)
  PROVE  Charged(t, fun)
<1> DEFINE n == Len(s)
<1>1. /\ n \in Nat \ {0} /\ Len(t) = n /\ Alike(Level(s, n), Level(t, n))
      /\ \A d \in 1..n - 1 : Level(t, d) = Level(s, d)
  BY DEF Moves, SameBelow
<1> HIDE DEF n
<1>2. \A d \in 1..n : Alike(Level(s, d), Level(t, d))
  <2>1. \A d \in 1..n : d = n \/ d \in 1..n - 1
    BY <1>1
  <2> QED BY <1>1, <2>1 DEF Alike
<1>3. Bodies(t) = Bodies(s) /\ \A d \in Bodies(s) : d \in 1..n
  BY <1>1, <1>2 DEF Bodies, Alike, n
<1>4. \A d \in Bodies(s) : /\ Level(t, d).saved = Level(s, d).saved
                           /\ Level(t, d).function = Level(s, d).function
  BY <1>2, <1>3 DEF Bodies, Alike
<1>5. ASSUME NEW d \in Bodies(t)
      PROVE  /\ Level(t, d).saved = IF d = 2 THEN Main ELSE Level(t, d - 2).function
             /\ d >= Len(t) - 1 => fun = Level(t, d).function
  <2>1. d \in Bodies(s)
    BY <1>3
  <2>2. d # 2 => d - 2 \in Bodies(s)
    BY <2>1, Below
  <2>3. /\ Level(s, d).saved = IF d = 2 THEN Main ELSE Level(s, d - 2).function
        /\ d >= n - 1 => fun = Level(s, d).function
    BY <2>1 DEF Charged, n
  <2> QED BY <1>1, <1>4, <2>1, <2>2, <2>3
<1>6. n <= 1 => fun = Main
  BY DEF Charged, n
<1> QED BY <1>1, <1>5, <1>6 DEF Charged

\* A chunk is visited for the function it is in, a function for itself.
LEMMA ChargedEnters ==
  ASSUME NEW p \in Programs, NEW s \in Seq(Frame), Path(p, s), NEW t, NEW y, Enters(p, s, t, y),
         NEW fun, Charged(s, fun), y.is = "function" => y.saved = fun
  PROVE  Charged(t, IF y.is = "function" THEN y.function ELSE fun)
<1> DEFINE n == Len(s)
           x == Level(s, n)
           to == IF y.is = "function" THEN y.function ELSE fun
<1>1. /\ n \in Nat \ {0} /\ Len(t) = n + 1 /\ Level(t, n) = Past(x) /\ Level(t, n + 1) = y
      /\ s # <<>> /\ t # <<>> /\ \A d \in 1..n - 1 : Level(t, d) = Level(s, d)
      /\ InVisit(p, Past(x), y)
  BY DEF Enters, SameBelow
<1>2. x \in Frame
  BY <1>1, LevelIn
<1>3. Alike(x, Past(x)) /\ Past(x).is = x.is
  BY <1>2, FrameFacts DEF Alike
<1>4. n \in Bodies(s) <=> x.is = "function"
  BY <1>1 DEF Bodies
<1>5. y.is = "chunk" <=> x.is = "function"
  BY <1>1, <1>3 DEF InVisit
<1>6. y.is = "function" <=> x.is = "chunk"
  BY <1>1, <1>3 DEF InVisit
<1>7. y.is = "function" /\ n # 1 => n - 1 \in Bodies(s)
  <2>1. SUFFICES ASSUME y.is = "function", n # 1 PROVE n - 1 \in Bodies(s)
    OBVIOUS
  <2> HIDE DEF n
  <2>2. n - 1 \in 1..n - 1 /\ (n - 1) + 1 = n /\ n - 1 \in 1..n
    BY <1>1, <2>1
  <2>3. InVisit(p, Level(s, n - 1), x)
    BY <2>2 DEF Path, n
  <2> QED BY <1>6, <2>1, <2>2, <2>3 DEF InVisit, Bodies, n
<1> HIDE DEF n, x
<1>8. \A d \in 1..n : Alike(Level(s, d), Level(t, d))
  <2>1. \A d \in 1..n : d = n \/ d \in 1..n - 1
    BY <1>1
  <2> QED BY <1>1, <1>3, <2>1 DEF Alike, x
<1>9. Bodies(t) = Bodies(s) \cup {d \in {n + 1} : y.is = "function"}
  <2>1. 1..Len(t) = 1..n \cup {n + 1}
    BY <1>1
  <2> QED BY <1>1, <1>8, <2>1 DEF Bodies, Alike, n
<1>10. \A d \in Bodies(s) : /\ d \in 1..n /\ Level(t, d).saved = Level(s, d).saved
                            /\ Level(t, d).function = Level(s, d).function
  BY <1>8 DEF Bodies, Alike, n
<1>11. /\ n <= 1 => fun = Main
       /\ \A d \in Bodies(s) :
            /\ Level(s, d).saved = IF d = 2 THEN Main ELSE Level(s, d - 2).function
            /\ d >= n - 1 => fun = Level(s, d).function
  BY DEF Charged, n
<1>12. ASSUME NEW d \in Bodies(t)
       PROVE  /\ Level(t, d).saved = IF d = 2 THEN Main ELSE Level(t, d - 2).function
              /\ d >= Len(t) - 1 => to = Level(t, d).function
  <2>1. CASE d \in Bodies(s)
    <3>1. d # 2 => d - 2 \in Bodies(s)
      BY <2>1, Below
    <3>2. Level(t, d).saved = IF d = 2 THEN Main ELSE Level(t, d - 2).function
      BY <1>10, <1>11, <2>1, <3>1
    <3>3. ASSUME d >= Len(t) - 1 PROVE to = Level(t, d).function
      <4>1. d = n
        BY <1>1, <1>10, <2>1, <3>3
      <4>2. y.is # "function"
        BY <1>4, <1>6, <2>1, <4>1
      <4>3. n >= n - 1
        BY <1>1
      <4> QED BY <1>10, <1>11, <2>1, <4>1, <4>2, <4>3
    <3> QED BY <3>2, <3>3
  <2>2. CASE d \notin Bodies(s)
    <3>1. d = n + 1 /\ y.is = "function" /\ Level(t, d) = y
      BY <1>1, <1>9, <2>2
    <3>2. CASE n = 1
      BY <1>1, <1>11, <3>1, <3>2
    <3>3. CASE n # 1
      <4>1. n - 1 \in Bodies(s)
        BY <1>7, <3>1, <3>3
      <4>2. d - 2 = n - 1 /\ d # 2 /\ n - 1 >= n - 1
        BY <1>1, <3>1, <3>3
      <4>3. fun = Level(t, d - 2).function
        BY <1>10, <1>11, <4>1, <4>2
      <4> QED BY <3>1, <4>2, <4>3
    <3> QED BY <3>2, <3>3
  <2> QED BY <2>1, <2>2
<1>13. ~(Len(t) <= 1)
  BY <1>1
<1> QED BY <1>12, <1>13 DEF Charged

\* After a function it is the one it has saved; after a chunk the same.
LEMMA ChargedLeaves ==
  ASSUME NEW p \in Programs, NEW s \in Seq(Frame), Path(p, s), NEW t, Leaves(s, t),
         NEW fun, Charged(s, fun)
  PROVE  Charged(t, IF Level(s, Len(s)).is = "function" THEN Level(s, Len(s)).saved ELSE fun)
<1> DEFINE n == Len(s)
           x == Level(s, n)
           to == IF x.is = "function" THEN x.saved ELSE fun
<1>1. /\ n \in Nat \ {0} /\ Len(t) = n - 1 /\ s # <<>>
      /\ \A d \in 1..n - 1 : Level(t, d) = Level(s, d)
  BY DEF Leaves, SameBelow
<1>2. n \in Bodies(s) <=> x.is = "function"
  BY <1>1 DEF Bodies
<1>3. Bodies(t) = Bodies(s) \ {n} /\ \A d \in Bodies(t) : Level(t, d) = Level(s, d)
  BY PathLeaves
<1>4. /\ n <= 1 => fun = Main
      /\ \A d \in Bodies(s) :
           /\ Level(s, d).saved = IF d = 2 THEN Main ELSE Level(s, d - 2).function
           /\ d >= n - 1 => fun = Level(s, d).function
  BY DEF Charged
<1>5. \A d \in Bodies(s) : d \in 1..n /\ (d # 2 => d - 2 \in Bodies(s)) /\ Level(s, d - 1).is = "chunk"
  BY Below DEF Bodies
<1>6. x.is = "chunk" /\ n # 1 => n - 1 \in Bodies(s)
  <2>1. SUFFICES ASSUME x.is = "chunk", n # 1 PROVE n - 1 \in Bodies(s)
    OBVIOUS
  <2> HIDE DEF n
  <2>2. n - 1 \in 1..n - 1 /\ (n - 1) + 1 = n /\ n - 1 \in 1..n
    BY <1>1, <2>1
  <2>3. InVisit(p, Level(s, n - 1), x)
    BY <2>2 DEF Path, n
  <2> QED BY <2>1, <2>2, <2>3 DEF InVisit, Bodies, n
<1>7. n = 1 => x.is = "chunk"
  BY <1>1 DEF Path
<1>8. x.is \in {"chunk", "function"}
  <2>1. x \in Frame
    BY <1>1, LevelIn
  <2> HIDE DEF x
  <2> QED BY <2>1, FrameFacts
<1> HIDE DEF n, x
<1>9. ASSUME NEW d \in Bodies(t)
      PROVE  /\ Level(t, d).saved = IF d = 2 THEN Main ELSE Level(t, d - 2).function
             /\ d >= Len(t) - 1 => to = Level(t, d).function
  <2>1. d \in Bodies(s) /\ d # n /\ d \in 1..n - 1
    <3>1. d \in Bodies(s) /\ d # n
      BY <1>3
    <3>2. d \in 1..n
      BY <1>5, <3>1
    <3> QED BY <1>1, <3>1, <3>2
  <2>2. d # 2 => d - 2 \in Bodies(s) /\ d - 2 # n
    BY <1>1, <1>5, <2>1
  <2>3. Level(t, d).saved = IF d = 2 THEN Main ELSE Level(t, d - 2).function
    BY <1>3, <1>4, <2>1, <2>2
  <2>4. ASSUME d >= Len(t) - 1 PROVE to = Level(t, d).function
    <3>1. d = n - 1 \/ d = n - 2
      BY <1>1, <2>1, <2>4
    <3>2. CASE x.is = "chunk"
      <4>1. d # n - 2
        <5>1. SUFFICES ASSUME d = n - 2 PROVE FALSE
          OBVIOUS
        <5>2. n # 1 /\ (n - 1) - 1 = d
          BY <1>1, <2>1, <5>1
        <5> QED BY <1>5, <1>6, <2>1, <3>2, <5>2 DEF Bodies
      <4>2. d >= n - 1
        BY <1>1, <3>1, <4>1
      <4> QED BY <1>3, <1>4, <2>1, <3>2, <4>2
    <3>3. CASE x.is = "function"
      <4>1. d # n - 1
        BY <1>2, <1>5, <2>1, <3>3 DEF Bodies
      <4>2. d = n - 2 /\ n # 2
        BY <1>1, <2>1, <3>1, <4>1
      <4>3. x.saved = Level(s, n - 2).function
        BY <1>2, <1>4, <3>3, <4>2 DEF x
      <4> QED BY <1>3, <3>3, <4>2, <4>3
    <3> QED BY <1>8, <3>2, <3>3
  <2> QED BY <2>3, <2>4
<1>10. Len(t) <= 1 => to = Main
  <2>1. SUFFICES ASSUME Len(t) <= 1 PROVE to = Main
    OBVIOUS
  <2>2. n = 1 \/ n = 2
    BY <1>1, <2>1
  <2>3. CASE n = 1
    BY <1>4, <1>7, <2>3
  <2>4. CASE n = 2
    <3>1. CASE x.is = "chunk"
      <4>1. n - 1 \in Bodies(s) /\ n - 1 = 1
        BY <1>6, <2>4, <3>1
      <4> QED BY <1>1, <4>1 DEF Path, Bodies
    <3>2. CASE x.is = "function"
      BY <1>2, <1>4, <2>4, <3>2 DEF x
    <3> QED BY <1>8, <3>1, <3>2
  <2> QED BY <2>2, <2>3, <2>4
<1> QED BY <1>9, <1>10 DEF Charged, n, x

-----------------------------------------------------------------------------
(* The moves of the specification.                                         *)

LEMMA StackTop ==
  ASSUME WalkInv, stack # <<>>
  PROVE  /\ program \in Programs /\ stack \in Seq(Frame) /\ Path(program, stack)
         /\ Len(stack) \in Nat \ {0} /\ Top = Level(stack, Len(stack)) /\ Top \in Frame
<1>1. program \in Programs /\ stack \in Seq(Frame) /\ Path(program, stack)
  BY DEF WalkInv
<1>2. Len(stack) \in Nat \ {0} /\ Head(stack) = stack[1] /\ Head(stack) \in Frame
  BY <1>1, TopAndRest
<1>3. Len(stack) + 1 - Len(stack) = 1
  BY <1>2
<1> QED BY <1>1, <1>2, <1>3 DEF Top, Level

\* What a visitor meets is an item of the function on top.
LEMMA MetItem ==
  ASSUME WalkInv, NEW op, Meets(op)
  PROVE  /\ stack # <<>> /\ Len(stack) \in Bodies(stack) /\ Top.is = "function"
         /\ Top.function \in Fun /\ Top.function \in Present
         /\ Top.at \in Where(program, Top.function, op)
         /\ Top.at <= Len(program.body[Top.function])
         /\ What = OfAt(program, Top.function, Top.at)
<1>1. stack # <<>> /\ Top.is = "function"
  BY DEF Meets, InFunction
<1>2. /\ program \in Programs /\ Path(program, stack) /\ Len(stack) \in Nat \ {0}
      /\ Top = Level(stack, Len(stack)) /\ Top \in Frame
  BY <1>1, StackTop
<1>3. Top.function \in Fun /\ Top.at \in Nat \ {0}
  BY <1>1, <1>2, FrameFacts
<1>4. Len(stack) \in Bodies(stack)
  BY <1>1, <1>2 DEF Bodies
<1>5. Top.function \in Present
  BY <1>2, <1>4 DEF Path, Present
<1>6. Items(program, Top.function) = 1..Len(program.body[Top.function])
      /\ Len(program.body[Top.function]) \in Nat
  BY <1>2, <1>3, ItemTypes
<1>7. Top.at <= Len(program.body[Top.function]) /\ OpAt(program, Top.function, Top.at) = op
  BY DEF Meets, Code, OpAt
<1>8. Top.at \in Where(program, Top.function, op)
  BY <1>3, <1>6, <1>7 DEF Where
<1>9. What = OfAt(program, Top.function, Top.at)
  BY DEF What, Code, OfAt
<1> QED BY <1>1, <1>3, <1>4, <1>5, <1>7, <1>8, <1>9

\* An item of the function on top is visited.
PastItem(p, s, t) ==
  /\ t \in Seq(Frame) /\ t # <<>> /\ Path(p, t)
  /\ Bodies(t) = Bodies(s) /\ OnStack(t) = OnStack(s) /\ Visited(p, t) = Visited(p, s)
  /\ Level(t, Len(s)) = Past(Level(s, Len(s)))
  /\ \A d \in Bodies(s) \ {Len(s)} : Level(t, d) = Level(s, d)

LEMMA OnPastItem ==
  ASSUME WalkInv, NEW op, Meets(op), op # "functions", GoesOn
  PROVE  /\ Moves(stack, stack', Past(Top)) /\ PastItem(program, stack, stack')
         /\ UNCHANGED <<program, phase>>
         /\ \A fun : Charged(stack, fun) => Charged(stack', fun)
<1> DEFINE s == stack
           t == stack'
           y == Past(Top)
<1>1. /\ s # <<>> /\ Len(s) \in Bodies(s) /\ Top.is = "function" /\ Top.function \in Fun
      /\ Top.at \in Where(program, Top.function, op)
      /\ Top.at <= Len(program.body[Top.function])
  BY MetItem
<1>2. /\ program \in Programs /\ s \in Seq(Frame) /\ Path(program, s)
      /\ Len(s) \in Nat \ {0} /\ Top = Level(s, Len(s)) /\ Top \in Frame
  BY <1>1, StackTop
<1>3. t = <<y>> \o Tail(s) /\ UNCHANGED <<program, phase>>
  BY DEF GoesOn
<1>4. y \in Frame /\ Alike(Top, y) /\ y.at = Top.at + 1 /\ Top.at \in Nat
  BY <1>2, FrameFacts DEF Alike
<1>5. /\ t \in Seq(Frame) /\ Len(t) = Len(s) /\ t # <<>> /\ Level(t, Len(s)) = y
      /\ \A d \in 1..Len(s) - 1 : Level(t, d) = Level(s, d)
  BY <1>1, <1>2, <1>3, <1>4, LevelsReplaced
<1>6. Moves(s, t, y)
  BY <1>1, <1>2, <1>4, <1>5 DEF Moves, SameBelow
<1>7. y.function = Top.function /\ Len(program.body[Top.function]) \in Nat
  BY <1>1, <1>2, <1>4, ItemTypes DEF Alike
<1> HIDE DEF s, t, y
<1>8. y.at <= Len(program.body[y.function]) + 1
  BY <1>1, <1>4, <1>7
<1>9. Path(program, t) /\ Bodies(t) = Bodies(s) /\ OnStack(t) = OnStack(s)
  BY <1>2, <1>6, <1>8, PathMoves
<1>10. Top.at \notin Where(program, Top.function, "functions")
  BY <1>1 DEF Where
<1>11. Passed(program, Top, Top.at + 1) = Passed(program, Top, Top.at)
  BY <1>1, <1>2, <1>4, <1>10, PassedOne
<1>12. Passed(program, y, y.at) = Passed(program, Top, Top.at)
  BY <1>2, <1>4, <1>11, PassedAlike
<1>13. Visited(program, t) = Visited(program, s)
  BY <1>2, <1>6, <1>12, VisitedMoves
<1>14. \A d \in Bodies(s) \ {Len(s)} : d \in 1..Len(s) - 1
  BY <1>2 DEF Bodies
<1>15. PastItem(program, s, t)
  BY <1>2, <1>5, <1>9, <1>13, <1>14 DEF PastItem, y
<1>16. \A fun : Charged(s, fun) => Charged(t, fun)
  BY <1>2, <1>6, ChargedMoves
<1> QED BY <1>3, <1>6, <1>15, <1>16 DEF s, t, y

LEMMA IntoChunk ==
  ASSUME WalkInv, EntersChunk
  PROVE  /\ Enters(program, stack, stack', Chunk(What)) /\ PastItem(program, stack, stack')
         /\ UNCHANGED <<program, phase>>
         /\ \A fun : Charged(stack, fun) => Charged(stack', fun)
<1> DEFINE s == stack
           t == stack'
           y == Chunk(What)
<1>0. Meets("functions")
  BY DEF EntersChunk
<1>1. /\ s # <<>> /\ Len(s) \in Bodies(s) /\ Top.is = "function" /\ Top.function \in Fun
      /\ Top.at \in Where(program, Top.function, "functions")
      /\ Top.at <= Len(program.body[Top.function])
      /\ What = OfAt(program, Top.function, Top.at)
  BY <1>0, MetItem
<1>2. /\ program \in Programs /\ s \in Seq(Frame) /\ Path(program, s)
      /\ Len(s) \in Nat \ {0} /\ Top = Level(s, Len(s)) /\ Top \in Frame
  BY <1>1, StackTop
<1>3. t = <<y, Past(Top)>> \o Tail(s) /\ UNCHANGED <<program, phase>>
  BY DEF EntersChunk, GoesInto
<1>4. /\ Past(Top) \in Frame /\ Past(Top).is = "function" /\ Past(Top).at = Top.at + 1
      /\ Past(Top).function = Top.function /\ Top.at \in Nat
  BY <1>1, <1>2, FrameFacts
<1>5. y \in Frame /\ y.is = "chunk" /\ y.at = 1 /\ y.functions = What
  <2>1. What \in Seq(Fun) /\ did_modify_ \in BOOLEAN
    BY <1>1, <1>2, ItemTypes DEF WalkInv
  <2> QED BY <2>1 DEF Chunk, Frame, ChunkFrame
<1>6. /\ t \in Seq(Frame) /\ Len(t) = Len(s) + 1 /\ t # <<>>
      /\ Level(t, Len(s) + 1) = y /\ Level(t, Len(s)) = Past(Top)
      /\ \A d \in 1..Len(s) - 1 : Level(t, d) = Level(s, d)
  BY <1>1, <1>2, <1>3, <1>4, <1>5, LevelsEntered
<1>7. InVisit(program, Past(Top), y)
  <2>1. (Top.at + 1) - 1 = Top.at
    BY <1>4
  <2> QED BY <1>1, <1>4, <1>5, <2>1 DEF InVisit
<1>8. Enters(program, s, t, y)
  BY <1>1, <1>2, <1>5, <1>6, <1>7 DEF Enters, SameBelow
<1> HIDE DEF s, t, y
<1>9. /\ Path(program, t) /\ Bodies(t) = Bodies(s)
      /\ \A d \in Bodies(s) : Level(t, d).function = Level(s, d).function
  <2>1. /\ y.is # "function"
        /\ Level(s, Len(s)).at <= Len(program.body[Level(s, Len(s)).function])
    BY <1>1, <1>2, <1>5
  <2>2. /\ Path(program, t)
        /\ Bodies(t) = Bodies(s) \cup {d \in {Len(s) + 1} : y.is = "function"}
        /\ \A d \in Bodies(s) : Level(t, d).function = Level(s, d).function
    BY <1>2, <1>8, <2>1, PathEnters
  <2> QED BY <2>1, <2>2
<1>10. Visited(program, t) = Visited(program, s)
  BY <1>2, <1>8, VisitedEnters
<1>11. \A d \in Bodies(s) \ {Len(s)} : d \in 1..Len(s) - 1
  BY <1>2 DEF Bodies
<1>12. PastItem(program, s, t)
  BY <1>2, <1>6, <1>9, <1>10, <1>11 DEF PastItem, OnStack
<1>13. \A fun : Charged(s, fun) => Charged(t, fun)
  BY <1>2, <1>5, <1>8, ChargedEnters
<1> QED BY <1>3, <1>8, <1>12, <1>13 DEF s, t, y

\* The visit of a function begins.
FunctionEntered(p, s, t, f) ==
  /\ t \in Seq(Frame) /\ t # <<>> /\ Path(p, t)
  /\ f \in Inside(p, Main) \ (OnStack(s) \cup Visited(p, s))
  /\ Len(t) = Len(s) + 1 /\ Len(s) + 1 \notin Bodies(s)
  /\ Bodies(t) = Bodies(s) \cup {Len(s) + 1} /\ OnStack(t) = OnStack(s) \cup {f}
  /\ Visited(p, t) = Visited(p, s)
  /\ Level(t, Len(s) + 1).function = f /\ Level(t, Len(s) + 1).at = 1
  /\ \A d \in Bodies(s) : Level(t, d) = Level(s, d)

LEMMA IntoFunction ==
  ASSUME WalkInv, NEW f \in Fun, EntersFunction(f)
  PROVE  /\ Enters(program, stack, stack', Body(f)) /\ FunctionEntered(program, stack, stack', f)
         /\ UNCHANGED <<program, phase>>
         /\ Charged(stack, function_) => Charged(stack', f)
<1> DEFINE s == stack
           t == stack'
           y == Body(f)
<1>1. /\ s # <<>> /\ Top.is = "chunk" /\ Top.at <= Len(Top.functions)
      /\ f = Top.functions[Top.at]
  BY DEF EntersFunction, InChunk
<1>2. /\ program \in Programs /\ s \in Seq(Frame) /\ Path(program, s)
      /\ Len(s) \in Nat \ {0} /\ Top = Level(s, Len(s)) /\ Top \in Frame
  BY <1>1, StackTop
<1>3. t = <<y, Past(Top)>> \o Tail(s) /\ UNCHANGED <<program, phase>>
  BY DEF EntersFunction, GoesInto
<1>4. /\ Past(Top) \in Frame /\ Past(Top).is = "chunk" /\ Past(Top).at = Top.at + 1
      /\ Past(Top).functions = Top.functions /\ Top.at \in Nat \ {0}
      /\ Top.functions \in Seq(Fun)
  BY <1>1, <1>2, FrameFacts
<1>5. /\ y \in Frame /\ y.is = "function" /\ y.at = 1 /\ y.function = f
      /\ y.saved = function_
  BY DEF Body, Frame, FunctionFrame, WalkInv
<1>6. /\ t \in Seq(Frame) /\ Len(t) = Len(s) + 1 /\ t # <<>>
      /\ Level(t, Len(s) + 1) = y /\ Level(t, Len(s)) = Past(Top)
      /\ \A d \in 1..Len(s) - 1 : Level(t, d) = Level(s, d)
  BY <1>1, <1>2, <1>3, <1>4, <1>5, LevelsEntered
<1>7. Top.at \in DOMAIN Top.functions /\ (Top.at + 1) - 1 = Top.at
  BY <1>1, <1>4
<1>8. InVisit(program, Past(Top), y)
  BY <1>1, <1>4, <1>5, <1>7 DEF InVisit
<1>9. Enters(program, s, t, y)
  BY <1>1, <1>2, <1>5, <1>6, <1>8 DEF Enters, SameBelow
<1>10. f \in Inside(program, Main) \ OnStack(s)
  <2>1. Level(s, Len(s)).is = "chunk" /\ Top.at \in DOMAIN Level(s, Len(s)).functions
        /\ Top.at = Level(s, Len(s)).at
    BY <1>1, <1>2, <1>7
  <2>2. Level(s, Len(s)).functions[Top.at] \in Inside(program, Main) \ OnStack(s)
    BY <1>1, <1>2, <2>1, NextIsNew
  <2> QED BY <1>1, <1>2, <2>2
<1>a. Level(s, Len(s)).is # "function" /\ Len(s) \notin Bodies(s)
  BY <1>1, <1>2 DEF Bodies
<1> HIDE DEF s, t, y
<1>11. /\ Path(program, t) /\ Bodies(t) = Bodies(s) \cup {Len(s) + 1}
       /\ \A d \in Bodies(s) : Level(t, d).function = Level(s, d).function
  BY <1>2, <1>5, <1>9, <1>10, <1>a, PathEnters
<1>12. Visited(program, t) = Visited(program, s)
  BY <1>2, <1>9, VisitedEnters
<1>13. OnStack(t) = OnStack(s) \cup {f}
  BY <1>5, <1>6, <1>11 DEF OnStack
<1>14. f \notin Visited(program, s)
  BY <1>2, <1>6, <1>11, <1>12, <1>13, VisitedIsOver
<1>15. \A d \in Bodies(s) : d \in 1..Len(s)
  BY DEF Bodies
<1>16. Len(s) + 1 \notin Bodies(s) /\ \A d \in Bodies(s) : d \in 1..Len(s) - 1
  BY <1>2, <1>15, <1>a
<1>17. FunctionEntered(program, s, t, f)
  BY <1>5, <1>6, <1>10, <1>11, <1>12, <1>13, <1>14, <1>16 DEF FunctionEntered
<1>18. Charged(s, function_) => Charged(t, f)
  BY <1>2, <1>5, <1>9, ChargedEnters
<1> QED BY <1>3, <1>9, <1>17, <1>18 DEF s, t, y

\* The same functions are visited up to where they were.
SameBodies(p, s, t) ==
  /\ t \in Seq(Frame) /\ Path(p, t)
  /\ Bodies(t) = Bodies(s) /\ OnStack(t) = OnStack(s)
  /\ \A d \in Bodies(s) : Level(t, d) = Level(s, d)

LEMMA OutOfChunk ==
  ASSUME WalkInv, LeavesChunk
  PROVE  /\ Leaves(stack, stack') /\ SameBodies(program, stack, stack')
         /\ Visited(program, stack') = Visited(program, stack)
         /\ UNCHANGED <<program, phase>>
         /\ \A fun : Charged(stack, fun) => Charged(stack', fun)
<1> DEFINE s == stack
           t == stack'
<1>1. s # <<>> /\ Top.is = "chunk" /\ Top.at > Len(Top.functions)
  BY DEF LeavesChunk, ChunkVisited, InChunk
<1>2. /\ program \in Programs /\ s \in Seq(Frame) /\ Path(program, s)
      /\ Len(s) \in Nat \ {0} /\ Top = Level(s, Len(s)) /\ Top \in Frame
  BY <1>1, StackTop
<1>3. t = Tail(s) /\ UNCHANGED <<program, phase>>
  BY DEF LeavesChunk, Returns
<1>4. /\ t \in Seq(Frame) /\ Len(t) = Len(s) - 1 /\ (t = <<>> <=> Len(s) = 1)
      /\ \A d \in 1..Len(s) - 1 : Level(t, d) = Level(s, d)
  BY <1>1, <1>2, <1>3, LevelsLeft
<1>5. Leaves(s, t)
  BY <1>1, <1>4 DEF Leaves, SameBelow
<1>6. Len(s) \notin Bodies(s)
  BY <1>1, <1>2 DEF Bodies
<1> HIDE DEF s, t
<1>7. /\ Path(program, t) /\ Bodies(t) = Bodies(s) \ {Len(s)}
      /\ \A d \in Bodies(t) : Level(t, d) = Level(s, d)
  BY <1>2, <1>5, PathLeaves
<1>8. SameBodies(program, s, t)
  BY <1>4, <1>6, <1>7 DEF SameBodies, OnStack
<1>9. Visited(program, t) = Visited(program, s)
  BY <1>1, <1>2, <1>5, VisitedLeaves
<1>10. \A fun : Charged(s, fun) => Charged(t, fun)
  BY <1>1, <1>2, <1>5, ChargedLeaves
<1> QED BY <1>3, <1>5, <1>8, <1>9, <1>10 DEF s, t

\* The loop of the collector: what was visited will be visited again.
LEMMA AgainChunk ==
  ASSUME WalkInv, ChunkVisited, stack' = <<[Top EXCEPT !.at = 1]>> \o Tail(stack)
  PROVE  /\ SameBodies(program, stack, stack') /\ stack' # <<>>
         /\ Visited(program, stack') \subseteq Visited(program, stack)
         /\ \A fun : Charged(stack, fun) => Charged(stack', fun)
<1> DEFINE s == stack
           t == stack'
           y == [Top EXCEPT !.at = 1]
<1>1. s # <<>> /\ Top.is = "chunk"
  BY DEF ChunkVisited, InChunk
<1>2. /\ program \in Programs /\ s \in Seq(Frame) /\ Path(program, s)
      /\ Len(s) \in Nat \ {0} /\ Top = Level(s, Len(s)) /\ Top \in Frame
  BY <1>1, StackTop
<1>3. y \in Frame /\ y.is = "chunk" /\ y.at = 1 /\ Alike(Top, y)
  BY <1>1, <1>2, AgainFrame DEF Alike
<1>a. t = <<y>> \o Tail(s)
  OBVIOUS
<1> HIDE DEF s, t, y
<1>4. /\ t \in Seq(Frame) /\ Len(t) = Len(s) /\ t # <<>> /\ Level(t, Len(s)) = y
      /\ \A d \in 1..Len(s) - 1 : Level(t, d) = Level(s, d)
  BY <1>1, <1>2, <1>3, <1>a, LevelsReplaced
<1>5. Moves(s, t, y)
  BY <1>1, <1>2, <1>3, <1>4 DEF Moves, SameBelow
<1>6. Path(program, t) /\ Bodies(t) = Bodies(s) /\ OnStack(t) = OnStack(s)
  BY <1>2, <1>3, <1>5, PathMoves
<1>7. Passed(program, y, y.at) = {}
  BY <1>2, <1>3, PassedNone
<1>8. Visited(program, t) \subseteq Visited(program, s)
  BY <1>2, <1>5, <1>7, VisitedMoves
<1>9. \A d \in Bodies(s) : d \in 1..Len(s) - 1
  <2>1. Len(s) \notin Bodies(s)
    BY <1>1, <1>2 DEF Bodies
  <2> QED BY <1>2, <2>1 DEF Bodies
<1>10. SameBodies(program, s, t)
  BY <1>4, <1>6, <1>9 DEF SameBodies
<1>11. \A fun : Charged(s, fun) => Charged(t, fun)
  BY <1>2, <1>5, ChargedMoves
<1> QED BY <1>4, <1>8, <1>10, <1>11 DEF s, t

\* The visit of a function is over.
FunctionLeft(p, s, t, f) ==
  /\ t \in Seq(Frame) /\ Path(p, t) /\ t # <<>>
  /\ Len(s) \in Bodies(s) /\ Level(s, Len(s)).function = f
  /\ Level(s, Len(s)).at = Len(p.body[f]) + 1
  /\ Bodies(t) = Bodies(s) \ {Len(s)} /\ OnStack(t) = OnStack(s) \ {f}
  /\ Visited(p, t) = Visited(p, s) \cup {f}
  /\ \A d \in Bodies(t) : Level(t, d) = Level(s, d)

LEMMA OutOfFunction ==
  ASSUME WalkInv, BodyVisited, Returns
  PROVE  /\ Leaves(stack, stack') /\ FunctionLeft(program, stack, stack', Top.function)
         /\ Top.is = "function" /\ Top.function \in Fun /\ Top.function \in Present
         /\ Top.saved \in Fun
         /\ UNCHANGED <<program, phase>>
         /\ \A fun : Charged(stack, fun) => Charged(stack', Top.saved)
<1> DEFINE s == stack
           t == stack'
           f == Top.function
<1>1. s # <<>> /\ Top.is = "function" /\ Top.at > Len(program.body[f])
  BY DEF BodyVisited, InFunction, Code
<1>2. /\ program \in Programs /\ s \in Seq(Frame) /\ Path(program, s)
      /\ Len(s) \in Nat \ {0} /\ Top = Level(s, Len(s)) /\ Top \in Frame
  BY <1>1, StackTop
<1>3. t = Tail(s) /\ UNCHANGED <<program, phase>>
  BY DEF Returns
<1>4. /\ t \in Seq(Frame) /\ Len(t) = Len(s) - 1 /\ (t = <<>> <=> Len(s) = 1)
      /\ \A d \in 1..Len(s) - 1 : Level(t, d) = Level(s, d)
  BY <1>1, <1>2, <1>3, LevelsLeft
<1>5. Leaves(s, t)
  BY <1>1, <1>4 DEF Leaves, SameBelow
<1>6. Len(s) \in Bodies(s) /\ Level(s, Len(s)).function = f
  BY <1>1, <1>2 DEF Bodies
<1>7. Len(s) # 1
  BY <1>1, <1>2 DEF Path
<1>8. f \in Fun /\ Top.saved \in Fun /\ Top.at \in Nat
  BY <1>1, <1>2, FrameFacts
<1> HIDE DEF s, t
<1>9. f \in Inside(program, Main) /\ Top.at <= Len(program.body[f]) + 1
  BY <1>2, <1>6 DEF Path
<1>10. Len(program.body[f]) \in Nat
  BY <1>2, <1>8, ItemTypes
<1>11. Top.at = Len(program.body[f]) + 1
  BY <1>1, <1>8, <1>9, <1>10
<1>12. /\ Path(program, t) /\ Bodies(t) = Bodies(s) \ {Len(s)}
       /\ \A d \in Bodies(t) : Level(t, d) = Level(s, d)
  BY <1>2, <1>5, PathLeaves
<1>13. Visited(program, t) = Visited(program, s) \cup {f}
  BY <1>1, <1>2, <1>5, VisitedLeaves
<1>14. \A d \in Bodies(s) : Level(s, d).function = f => d = Len(s)
  BY <1>2, <1>6 DEF Path
<1>15. OnStack(t) = OnStack(s) \ {f}
  BY <1>6, <1>12, <1>14 DEF OnStack
<1>16. FunctionLeft(program, s, t, f)
  BY <1>2, <1>4, <1>6, <1>7, <1>11, <1>12, <1>13, <1>15 DEF FunctionLeft
<1>17. \A fun : Charged(s, fun) => Charged(t, Top.saved)
  BY <1>1, <1>2, <1>5, ChargedLeaves
<1> QED BY <1>1, <1>3, <1>5, <1>8, <1>9, <1>16, <1>17 DEF s, t, Present

-----------------------------------------------------------------------------
(* The walk.                                                               *)

\* A visitor starts with _main.
LEMMA Start ==
  ASSUME NEW p \in Programs, NEW x \in Frame, x.is = "chunk", x.functions = <<Main>>, x.at = 1
  PROVE  LET s == <<x>>
         IN  /\ s \in Seq(Frame) /\ s # <<>> /\ Len(s) = 1 /\ Level(s, 1) = x /\ Path(p, s)
             /\ Bodies(s) = {} /\ OnStack(s) = {} /\ Visited(p, s) = {} /\ Charged(s, Main)
<1> DEFINE s == <<x>>
<1>1. s \in Seq(Frame) /\ s # <<>> /\ Len(s) = 1 /\ s[1] = x
  OBVIOUS
<1> HIDE DEF s
<1>2. Level(s, 1) = x
  BY <1>1 DEF Level
<1>3. 1..Len(s) = {1} /\ 1..Len(s) - 1 = {}
  BY <1>1
<1>4. Bodies(s) = {}
  BY <1>2, <1>3 DEF Bodies
<1>5. OnStack(s) = {}
  BY <1>4 DEF OnStack
<1>6. Path(p, s)
  BY <1>2, <1>3, <1>4 DEF Path
<1>7. Reached(s, 1) = 1
  BY <1>1, <1>2 DEF Reached
<1>8. Passed(p, x, 1) = {}
  BY PassedNone
<1>9. Visited(p, s) = {}
  BY <1>1, <1>2, <1>3, <1>7, <1>8 DEF Visited, Over
<1>10. Charged(s, Main)
  BY <1>4 DEF Charged
<1> QED BY <1>1, <1>2, <1>4, <1>5, <1>6, <1>9, <1>10 DEF s

LEMMA StartVisitor ==
  ASSUME program \in Programs, did_modify_ \in BOOLEAN
  PROVE  LET s == <<Chunk(<<Main>>)>>
         IN  /\ s \in Seq(Frame) /\ s # <<>> /\ Len(s) = 1 /\ Path(program, s)
             /\ Level(s, 1).is = "chunk" /\ Level(s, 1).at = 1
             /\ Bodies(s) = {} /\ OnStack(s) = {} /\ Visited(program, s) = {} /\ Charged(s, Main)
<1>1. <<Main>> \in Seq(Fun)
  BY LiftingAssumption
<1> DEFINE x == Chunk(<<Main>>)
<1>2. x \in Frame /\ x.is = "chunk" /\ x.functions = <<Main>> /\ x.at = 1
  BY <1>1 DEF Chunk, Frame, ChunkFrame
<1> HIDE DEF x
<1>3. QED BY <1>2, Start DEF x

LEMMA WalkInit == Init => WalkInv
<1> SUFFICES ASSUME Init PROVE WalkInv
  OBVIOUS
<1>1. /\ program \in Programs /\ did_modify_ \in BOOLEAN /\ function_ = Main
      /\ phase = "escapes" /\ stack = <<Chunk(<<Main>>)>>
  BY DEF Init
<1>2. stack \in Seq(Frame) /\ Path(program, stack)
  BY <1>1, StartVisitor
<1> QED BY <1>1, <1>2, LiftingAssumption DEF WalkInv

\* What EscapesVisitor does is to move.
LEMMA FlagMoves ==
  ASSUME WalkInv, Escapes
  PROVE  stack' \in Seq(Frame) /\ Path(program, stack') /\ UNCHANGED <<program, phase>>
<1>1. CASE \/ FlagVarDec \/ FlagSimpleVar \/ FlagLet \/ FlagLetEnd
           \/ Flagging /\ Meets("call") /\ GoesOn
  <2>1. PICK op \in {"var", "use", "open", "close", "call"} : Meets(op) /\ GoesOn
    BY <1>1 DEF FlagVarDec, FlagSimpleVar, FlagLet, FlagLetEnd
  <2>2. op # "functions"
    BY <2>1
  <2> QED BY <2>1, <2>2, OnPastItem DEF PastItem
<1>2. CASE FlagFunctionDec
  <2>1. PICK f \in Fun : EntersFunction(f)
    BY <1>2 DEF FlagFunctionDec
  <2> QED BY <2>1, IntoFunction DEF FunctionEntered
<1>3. CASE FlagFunctionDecEnd
  BY <1>3, OutOfFunction DEF FlagFunctionDecEnd, FunctionLeft
<1>4. CASE EntersChunk
  BY <1>4, IntoChunk DEF PastItem
<1>5. CASE LeavesChunk
  BY <1>5, OutOfChunk DEF SameBodies
<1> QED BY <1>1, <1>2, <1>3, <1>4, <1>5 DEF Escapes, FlagWalk

LEMMA CollectMoves ==
  ASSUME WalkInv, Charged(stack, function_), Collect
  PROVE  /\ stack' \in Seq(Frame) /\ Path(program, stack') /\ UNCHANGED <<program, phase>>
         /\ Charged(stack', function_')
         /\ function_' \in Fun /\ did_modify_' \in BOOLEAN
<1>0. function_ \in Fun /\ did_modify_ \in BOOLEAN
  BY DEF WalkInv
<1>1. CASE CollectCallExp \/ CollectSimpleVar \/ CollectWalk
  <2>1. PICK op \in {"var", "use", "open", "close", "call"} : Meets(op) /\ GoesOn
    BY <1>1 DEF CollectCallExp, CollectSimpleVar, CollectWalk
  <2>2. op # "functions"
    BY <2>1
  <2>3. UNCHANGED function_
    BY <1>1 DEF CollectCallExp, CollectSimpleVar, CollectWalk
  <2>4. did_modify_' \in BOOLEAN
    BY <1>0, <1>1 DEF CollectCallExp, CollectSimpleVar, CollectWalk, sets
  <2> QED BY <1>0, <2>1, <2>2, <2>3, <2>4, OnPastItem DEF PastItem
<1>2. CASE CollectChunk
  BY <1>0, <1>2, IntoChunk DEF CollectChunk, PastItem
<1>3. CASE CollectAgain
  <2>1. /\ ChunkVisited /\ stack' = <<[Top EXCEPT !.at = 1]>> \o Tail(stack)
        /\ UNCHANGED <<program, phase, function_>> /\ did_modify_' \in BOOLEAN
    BY <1>3 DEF CollectAgain
  <2> QED BY <1>0, <2>1, AgainChunk DEF SameBodies
<1>4. CASE CollectChunkEnd
  <2>1. stack # <<>> /\ Top.is = "chunk" /\ LeavesChunk /\ did_modify_' = Top.saved
    BY <1>4 DEF CollectChunkEnd, LeavesChunk, ChunkVisited, InChunk
  <2>2. Top \in Frame
    BY <2>1, StackTop
  <2>3. Top.saved \in BOOLEAN
    BY <2>1, <2>2, FrameFacts
  <2> QED BY <1>0, <1>4, <2>1, <2>3, OutOfChunk DEF CollectChunkEnd, SameBodies
<1>5. CASE CollectFunctionDec
  <2>1. PICK f \in Fun : EntersFunction(f) /\ function_' = f
    BY <1>5 DEF CollectFunctionDec
  <2> QED BY <1>0, <1>5, <2>1, IntoFunction DEF CollectFunctionDec, FunctionEntered, sets
<1>6. CASE CollectFunctionDecEnd
  BY <1>0, <1>6, OutOfFunction DEF CollectFunctionDecEnd, FunctionLeft, sets
<1> QED BY <1>1, <1>2, <1>3, <1>4, <1>5, <1>6 DEF Collect

LEMMA TranslateMoves ==
  ASSUME WalkInv, Charged(stack, function_), Translate, phase' # "thrown"
  PROVE  /\ stack' \in Seq(Frame) /\ Path(program, stack') /\ UNCHANGED <<program, phase>>
         /\ Charged(stack', function_') /\ function_' \in Fun
<1>0. function_ \in Fun
  BY DEF WalkInv
<1>1. CASE TranslateVarDec \/ access_var \/ TranslateCallExp \/ TranslateWalk
  <2>1. PICK op \in {"var", "use", "open", "close", "call"} : Meets(op) /\ GoesOn
    BY <1>1 DEF TranslateVarDec, access_var, TranslateCallExp, TranslateWalk, Throws
  <2>2. op # "functions"
    BY <2>1
  <2>3. UNCHANGED function_
    BY <1>1 DEF TranslateVarDec, access_var, TranslateCallExp, TranslateWalk
  <2> QED BY <1>0, <2>1, <2>2, <2>3, OnPastItem DEF PastItem
<1>2. CASE TranslateChunk
  BY <1>0, <1>2, IntoChunk DEF TranslateChunk, PastItem
<1>3. CASE TranslateChunkEnd
  BY <1>0, <1>3, OutOfChunk DEF TranslateChunkEnd, SameBodies
<1>4. CASE TranslateBody
  <2>1. PICK f \in Fun : EntersFunction(f) /\ function_' = f
    BY <1>4 DEF TranslateBody
  <2> QED BY <1>0, <2>1, IntoFunction DEF FunctionEntered
<1>5. CASE TranslateBodyEnd
  BY <1>0, <1>5, OutOfFunction DEF TranslateBodyEnd, FunctionLeft
<1> QED BY <1>1, <1>2, <1>3, <1>4, <1>5 DEF Translate

\* What the translator does when it throws.
LEMMA ThrowsAt ==
  ASSUME Translate, phase = "translate", phase' = "thrown"
  PROVE  /\ Throws /\ UNCHANGED <<program, function_, locals_>>
         /\ \/ Meets("use") /\ What \notin Known
            \/ Meets("call") /\ ~(escaped_[What] \subseteq Known)
<1>1. "translate" # "thrown"
  OBVIOUS
<1>2. CASE access_var \/ TranslateCallExp
  BY <1>1, <1>2 DEF access_var, TranslateCallExp, Throws, GoesOn, Translating
<1>3. CASE ~(access_var \/ TranslateCallExp)
  <2>1. phase' = phase
    BY <1>3 DEF Translate, TranslateChunk, TranslateChunkEnd, TranslateBody, TranslateBodyEnd,
      TranslateVarDec, TranslateWalk, EntersChunk, LeavesChunk, EntersFunction,
      GoesOn, GoesInto, Returns
  <2> QED BY <1>1, <2>1
<1> QED BY <1>2, <1>3

LEMMA WalkStep == WalkInv /\ [Next]_vars => WalkInv'
<1> SUFFICES ASSUME WalkInv, [Next]_vars PROVE WalkInv'
  OBVIOUS
<1>1. /\ program \in Programs /\ stack \in Seq(Frame) /\ Path(program, stack)
      /\ phase \in {"escapes", "collect", "translate", "done", "thrown"}
      /\ function_ \in Fun /\ did_modify_ \in BOOLEAN
  BY DEF WalkInv
<1>2. CASE Escapes
  <2>1. phase = "escapes" /\ UNCHANGED <<function_, did_modify_>>
    BY <1>2 DEF Escapes, Flagging, FlagVarDec, FlagSimpleVar, FlagLet, FlagLetEnd,
      FlagFunctionDec, FlagFunctionDecEnd, FlagWalk, sets
  <2>2. stack' \in Seq(Frame) /\ Path(program, stack') /\ UNCHANGED <<program, phase>>
    BY <1>2, FlagMoves
  <2> QED BY <1>1, <2>1, <2>2 DEF WalkInv
<1>3. CASE Collect
  <2>1. phase = "collect"
    BY <1>3 DEF Collect, Collecting, CollectChunk, CollectAgain, CollectChunkEnd,
      CollectFunctionDec, CollectFunctionDecEnd, CollectCallExp, CollectSimpleVar, CollectWalk
  <2>2. Charged(stack, function_)
    BY <2>1 DEF WalkInv
  <2> QED BY <1>1, <1>3, <2>1, <2>2, CollectMoves DEF WalkInv
<1>4. CASE Translate
  <2>1. phase = "translate" /\ UNCHANGED did_modify_
    BY <1>4 DEF Translate, Translating, TranslateChunk, TranslateChunkEnd, TranslateBody,
      TranslateBodyEnd, TranslateVarDec, access_var, TranslateCallExp, TranslateWalk, sets
  <2>2. Charged(stack, function_)
    BY <2>1 DEF WalkInv
  <2>3. CASE phase' = "thrown"
    <3>1. Throws /\ UNCHANGED <<program, function_>> /\ stack # <<>>
      BY <1>4, <2>1, <2>3, ThrowsAt DEF Meets, InFunction
    <3> QED BY <1>1, <2>1, <2>3, <3>1 DEF WalkInv, Throws
  <2>4. CASE phase' # "thrown"
    BY <1>1, <1>4, <2>1, <2>2, <2>4, TranslateMoves DEF WalkInv
  <2> QED BY <2>3, <2>4
<1>5. CASE NextVisitor
  <2>1. stack = <<>> /\ UNCHANGED <<program, function_, did_modify_>>
    BY <1>5 DEF NextVisitor, sets
  <2>2. phase \in {"escapes", "collect", "translate"}
    BY <1>5 DEF NextVisitor
  <2>3. function_ = Main
    <3>1. Len(stack) <= 1
      BY <2>1
    <3> QED BY <2>2, <3>1 DEF WalkInv, Charged
  <2>4. CASE phase' \in {"collect", "translate"} /\ stack' = <<Chunk(<<Main>>)>>
    <3>1. stack' \in Seq(Frame) /\ Path(program, stack') /\ Charged(stack', Main)
      BY <1>1, <2>4, StartVisitor
    <3> QED BY <1>1, <2>1, <2>3, <2>4, <3>1 DEF WalkInv
  <2>5. CASE phase' = "done" /\ UNCHANGED stack
    BY <1>1, <2>1, <2>3, <2>5 DEF WalkInv
  <2> QED BY <1>5, <2>4, <2>5 DEF NextVisitor
<1>6. CASE UNCHANGED vars
  BY <1>6 DEF vars, walk, depths, sets, WalkInv
<1> QED BY <1>2, <1>3, <1>4, <1>5, <1>6 DEF Next

-----------------------------------------------------------------------------
(* Where an item is: the functions around it are on the stack.             *)

\* What is inside the function that is visited at d is in the chunk that is visited
\* at e - 1, in the function at e - 2.
LEMMA Around ==
  ASSUME NEW p \in Programs, NEW s \in Seq(Frame), Path(p, s), NEW d \in Bodies(s),
         NEW h \in Fun, NEW m \in Where(p, h, "functions"), NEW g \in Elements(OfAt(p, h, m)),
         Level(s, d).function \in Inside(p, g)
  PROVE  \E e \in Bodies(s) :
           /\ Level(s, e).function = g
           /\ e - 2 \in Bodies(s) /\ Level(s, e - 2).function = h /\ Level(s, e - 2).at - 1 = m
           /\ Level(s, e - 1).functions = OfAt(p, h, m)
           /\ Level(s, e - 1).at - 1 \in DOMAIN OfAt(p, h, m)
           /\ OfAt(p, h, m)[Level(s, e - 1).at - 1] = g
           /\ Level(s, e - 1).is = "chunk" /\ Level(s, e - 2).is = "function"
<1>1. Elements(OfAt(p, h, m)) \subseteq Fun
  BY ItemTypes
<1>2. g \in Fun
  BY <1>1
<1>3. Level(s, d).function \in OnStack(s)
  BY DEF OnStack
<1>4. g \in OnStack(s)
  BY <1>2, <1>3, OffTheStack
<1>5. PICK e \in Bodies(s) : Level(s, e).function = g
  BY <1>4 DEF OnStack
<1>6. PICK k \in DOMAIN OfAt(p, h, m) : OfAt(p, h, m)[k] = Level(s, e).function
  BY <1>5 DEF Elements
<1>7. /\ e - 2 \in Bodies(s) /\ Level(s, e - 2).function = h
      /\ Level(s, e - 2).at - 1 = m /\ Level(s, e - 1).at - 1 = k
  BY <1>6, PlaceOnStack
<1>8. e # 2
  <2>1. 0 \notin Bodies(s)
    BY DEF Bodies
  <2> QED BY <1>7, <2>1
<1>9. Level(s, e - 1).is = "chunk" /\ Level(s, e - 1).functions = OfAt(p, h, m)
  BY <1>7, <1>8, Below
<1>10. Level(s, e - 2).is = "function"
  BY <1>7 DEF Bodies
<1> QED BY <1>5, <1>6, <1>7, <1>9, <1>10

\* What a level under the top has passed has been visited, and so has what the
\* top has passed.
LEMMA PassedIsVisited ==
  ASSUME NEW p \in Programs, NEW s \in Seq(Frame), s # <<>>, NEW d \in 1..Len(s), NEW g \in Fun,
         g \in Passed(p, Level(s, d), Reached(s, d))
  PROVE  g \in Visited(p, s)
<1>1. g \in Inside(p, g)
  BY InsideFacts
<1>2. g \in Over(p, s, d)
  BY <1>1 DEF Over
<1> QED BY <1>2 DEF Visited

\* Where callees come first, the function that is called has been visited.
LEMMA CalleeVisited ==
  ASSUME WalkInv, CalleesFirst, Meets("call")
  PROVE  What \in Visited(program, stack) /\ What \in Fun
<1> DEFINE s == stack
           n == Len(stack)
           f == Top.function
           i == Top.at
           g == What
<1>1. /\ s # <<>> /\ n \in Bodies(s) /\ Top.is = "function" /\ f \in Fun
      /\ i \in Where(program, f, "call") /\ g = OfAt(program, f, i)
  BY MetItem
<1>2. /\ program \in Programs /\ s \in Seq(Frame) /\ Path(program, s)
      /\ n \in Nat \ {0} /\ Top = Level(s, n) /\ Top \in Frame
  BY <1>1, StackTop
<1>3. g \in Fun
  BY <1>1, <1>2, ItemTypes
<1>4. Lexical(program)
  BY <1>2, ScopingAssumption
<1>a. PICK h \in Fun : \E m \in Items(program, h) :
        Within(program, f, i, h, m) /\ SeesFun(program, g, h, m)
  BY <1>1, <1>4 DEF Lexical
<1>5. PICK m \in Items(program, h) : Within(program, f, i, h, m) /\ SeesFun(program, g, h, m)
  BY <1>a
<1>6. PICK j \in Where(program, h, "functions") : j <= m /\ g \in Elements(OfAt(program, h, j))
  BY <1>5 DEF SeesFun
<1>7. Items(program, h) \subseteq Nat /\ j \in Nat /\ m \in Nat
  <2>1. Items(program, h) = 1..Len(program.body[h]) /\ Len(program.body[h]) \in Nat
    BY <1>2, ItemTypes
  <2> QED BY <2>1 DEF Where
<1>8. n \in 1..n
  BY <1>2
<1> HIDE DEF s, n, f, i, g
<1>9. CASE f = h /\ i = m
  <2>1. j # i
    <3>1. "functions" # "call"
      OBVIOUS
    <3> QED BY <1>1, <1>9, <3>1 DEF Where
  <2>2. j < i
    BY <1>6, <1>7, <1>9, <2>1
  <2>3. Reached(s, n) = i
    BY <1>2 DEF Reached, n, s, i
  <2>4. g \in Passed(program, Top, i)
    BY <1>1, <1>6, <1>9, <2>2 DEF Passed, f
  <2>5. g \in Passed(program, Level(s, n), Reached(s, n))
    BY <1>2, <2>3, <2>4
  <2>6. n \in 1..Len(s)
    BY <1>8 DEF n, s
  <2>7. g \in Visited(program, s)
    BY <1>1, <1>2, <1>3, <2>5, <2>6, PassedIsVisited
  <2> QED BY <1>3, <2>7 DEF g, s
<1>10. CASE m \in Where(program, h, "functions")
            /\ \E k \in Elements(OfAt(program, h, m)) : f \in Inside(program, k)
  <2>1. PICK k \in Elements(OfAt(program, h, m)) : f \in Inside(program, k)
    BY <1>10
  <2>2. Level(s, n).function = f
    BY <1>2 DEF f
  <2>3. PICK e \in Bodies(s) :
           /\ Level(s, e).function = k
           /\ e - 2 \in Bodies(s) /\ Level(s, e - 2).function = h /\ Level(s, e - 2).at - 1 = m
           /\ Level(s, e - 1).functions = OfAt(program, h, m)
           /\ Level(s, e - 1).at - 1 \in DOMAIN OfAt(program, h, m)
           /\ OfAt(program, h, m)[Level(s, e - 1).at - 1] = k
           /\ Level(s, e - 1).is = "chunk" /\ Level(s, e - 2).is = "function"
    BY <1>1, <1>2, <1>10, <2>1, <2>2, Around
  <2>4. e - 2 \in 1..Len(s) /\ e - 1 \in 1..Len(s) /\ e - 2 # Len(s) /\ e - 1 # Len(s)
    <3>1. e \in 1..Len(s) /\ e - 2 \in 1..Len(s)
      BY <2>3 DEF Bodies
    <3> QED BY <3>1
  <2>5. CASE j < m
    <3>1. Reached(s, e - 2) = m
      BY <2>3, <2>4 DEF Reached
    <3>2. g \in Passed(program, Level(s, e - 2), m)
      BY <1>6, <2>3, <2>5 DEF Passed
    <3>3. g \in Visited(program, s)
      BY <1>1, <1>2, <1>3, <2>4, <3>1, <3>2, PassedIsVisited
    <3> QED BY <1>3, <3>3 DEF g, s
  <2>6. CASE j = m
    <3> DEFINE c == OfAt(program, h, m)
               l == Level(s, e - 1).at - 1
    <3>1. PICK r \in DOMAIN c : g = c[r]
      BY <1>6, <2>6 DEF Elements
    <3>2. l \in DOMAIN c /\ f \in Inside(program, c[l])
      BY <2>1, <2>3
    <3>3. c \in Chunks /\ c \in Seq(Fun)
      BY <1>2, <1>10, ItemTypes DEF Chunks
    <3>4. g \in Calls(f)
      BY <1>1 DEF Calls
    <3>a. Level(s, e - 1).functions = c /\ Level(s, e - 1).is = "chunk" /\ Level(s, e - 1).at - 1 = l
      BY <2>3
    <3> HIDE DEF c, l
    <3>5. ~(l <= r)
      BY <3>1, <3>2, <3>3, <3>4 DEF CalleesFirst
    <3>6. r < l
      <4>1. r \in Nat /\ l \in Nat
        BY <3>1, <3>2, <3>3
      <4> QED BY <3>5, <4>1
    <3>7. Reached(s, e - 1) = l
      BY <2>4, <3>a DEF Reached
    <3>8. g \in Passed(program, Level(s, e - 1), l)
      BY <3>1, <3>6, <3>a DEF Passed
    <3>9. g \in Visited(program, s)
      BY <1>1, <1>2, <1>3, <2>4, <3>7, <3>8, PassedIsVisited
    <3> QED BY <1>3, <3>9 DEF g, s
  <2> QED BY <1>6, <1>7, <2>5, <2>6
<1> QED BY <1>5, <1>9, <1>10 DEF Within

-----------------------------------------------------------------------------
(* What a function needs.                                                  *)

LEMMA CallClosure ==
  ASSUME program \in Programs, NEW f \in Fun
  PROVE  /\ Calls(f) \subseteq Fun
         /\ f \in Called(f) /\ Called(f) \subseteq Fun
         /\ \A h \in Called(f) : Calls(h) \subseteq Called(f)
         /\ \A S \in SUBSET Fun :
              f \in S /\ (\A h \in S : Calls(h) \subseteq S) => Called(f) \subseteq S
<1>1. \A h \in Fun : Calls(h) \subseteq Fun
  BY ItemTypes DEF Calls
<1> QED BY <1>1 DEF Called, Closure

\* Its own variables, and what the functions it calls need.
LEMMA NeededUnfolded ==
  ASSUME program \in Programs, NEW f \in Fun
  PROVE  Needed(f) = Escaping(f) \cup UNION {Needed(g) : g \in Calls(f)}
<1> DEFINE S == {f} \cup UNION {Called(g) : g \in Calls(f)}
<1>1. Calls(f) \subseteq Fun /\ f \in Called(f) /\ Calls(f) \subseteq Called(f)
  BY CallClosure
<1>2. \A g \in Calls(f) : Called(g) \subseteq Called(f)
  <2> TAKE g \in Calls(f)
  <2> DEFINE C == Called(f)
  <2>1. C \in SUBSET Fun /\ g \in C /\ (\A h \in C : Calls(h) \subseteq C) /\ g \in Fun
    BY <1>1, CallClosure
  <2> HIDE DEF C
  <2>2. Called(g) \subseteq C
    BY <2>1, CallClosure
  <2> QED BY <2>2 DEF C
<1>3. S \in SUBSET Fun
  BY <1>1, CallClosure
<1>4. ASSUME NEW h \in S PROVE Calls(h) \subseteq S
  <2>1. CASE h = f
    BY <1>1, <2>1, CallClosure
  <2>2. CASE h # f
    <3>1. PICK g \in Calls(f) : h \in Called(g)
      BY <1>4, <2>2
    <3> QED BY <1>1, <3>1, CallClosure
  <2> QED BY <2>1, <2>2
<1>5. f \in S
  OBVIOUS
<1> HIDE DEF S
<1>6. Called(f) \subseteq S
  BY <1>3, <1>4, <1>5, CallClosure
<1>7. Called(f) = {f} \cup UNION {Called(g) : g \in Calls(f)}
  BY <1>1, <1>2, <1>6 DEF S
<1> QED BY <1>7 DEF Needed

LEMMA SameNeeds ==
  ASSUME UNCHANGED <<program, escape_>>
  PROVE  /\ \A f \in Fun : Needed(f)' = Needed(f)
         /\ CalleesFirst' = CalleesFirst
         /\ \A passed, f, to : /\ OwnUpTo(passed, f, to)' = OwnUpTo(passed, f, to)
                               /\ CalleesUpTo(passed, f, to)' = CalleesUpTo(passed, f, to)
<1>1. \A f : Needed(f)' = Needed(f)
  BY DEF Needed, Escaping, Called, Closure, Calls, Uses
<1>2. CalleesFirst' = CalleesFirst
  BY DEF CalleesFirst, Chunks, Calls
<1>3. \A passed, f, to : OwnUpTo(passed, f, to)' = OwnUpTo(passed, f, to)
  BY DEF OwnUpTo
<1>4. \A passed, f, to : CalleesUpTo(passed, f, to)' = CalleesUpTo(passed, f, to)
  BY <1>1 DEF CalleesUpTo
<1> QED BY <1>1, <1>2, <1>3, <1>4

-----------------------------------------------------------------------------
(* The collector.                                                          *)

\* One item more; none at the start; and a set that has grown.
LEMMA UpToNext ==
  ASSUME program \in Programs, NEW e, NEW f \in Fun, NEW i \in Nat
  PROVE  /\ /\ OwnUpTo(e, f, i)
            /\ i \in Where(program, f, "use") /\ escape_[OfAt(program, f, i)] => OfAt(program, f, i) \in e[f]
            => OwnUpTo(e, f, i + 1)
         /\ /\ CalleesUpTo(e, f, i)
            /\ i \in Where(program, f, "call") => Needed(OfAt(program, f, i)) \subseteq e[f]
            => CalleesUpTo(e, f, i + 1)
         /\ OwnUpTo(e, f, 1) /\ CalleesUpTo(e, f, 1)
<1>1. \A op : \A j \in Where(program, f, op) : j \in Nat \ {0}
  BY ItemTypes
<1>2. \A op : \A j \in Where(program, f, op) : /\ ~(j < 1)
                                               /\ j < i + 1 => j < i \/ j = i
  BY <1>1
<1> QED BY <1>2 DEF OwnUpTo, CalleesUpTo

LEMMA UpToGrown ==
  ASSUME NEW e, NEW e1, NEW f, e[f] \subseteq e1[f], NEW i
  PROVE  /\ OwnUpTo(e, f, i) => OwnUpTo(e1, f, i)
         /\ CalleesUpTo(e, f, i) => CalleesUpTo(e1, f, i)
BY DEF OwnUpTo, CalleesUpTo

\* A function that is visited up to its end is passed all it needs.
LEMMA AllNeeded ==
  ASSUME program \in Programs, NEW e, NEW f \in Fun, e[f] \subseteq Needed(f),
         OwnUpTo(e, f, Len(program.body[f]) + 1), CalleesUpTo(e, f, Len(program.body[f]) + 1)
  PROVE  e[f] = Needed(f)
<1>1. \A op : \A j \in Where(program, f, op) : j < Len(program.body[f]) + 1
  <2>1. Len(program.body[f]) \in Nat
        /\ \A op : Where(program, f, op) \subseteq 1..Len(program.body[f])
    BY ItemTypes
  <2> QED BY <2>1
<1>2. Escaping(f) \subseteq e[f]
  BY <1>1 DEF Escaping, Uses, OwnUpTo
<1>3. \A g \in Calls(f) : Needed(g) \subseteq e[f]
  BY <1>1 DEF Calls, CalleesUpTo
<1>4. Needed(f) = Escaping(f) \cup UNION {Needed(g) : g \in Calls(f)}
  BY NeededUnfolded
<1> QED BY <1>2, <1>3, <1>4

\* What has to be shown of a step of the collector.
LEMMA CollectKept ==
  ASSUME program \in Programs, CollectInv, phase = "collect", UNCHANGED <<program, phase, escape_>>,
         escaped_' \in [Fun -> SUBSET Var],
         \A f \in Fun : escaped_[f] \subseteq escaped_'[f] /\ escaped_'[f] \subseteq Needed(f),
         \A f \in Visited(program, stack') : f \in Fun,
         \A f \in Visited(program, stack') \ Visited(program, stack) :
           /\ OwnUpTo(escaped_, f, Len(program.body[f]) + 1)
           /\ CalleesFirst => CalleesUpTo(escaped_, f, Len(program.body[f]) + 1),
         \A d \in Bodies(stack') :
           /\ OwnUpTo(escaped_', Level(stack', d).function, Level(stack', d).at)
           /\ CalleesFirst => CalleesUpTo(escaped_', Level(stack', d).function, Level(stack', d).at)
  PROVE  CollectInv'
<1>1. /\ \A f \in Fun : escaped_[f] \subseteq Needed(f)
      /\ \A f \in Visited(program, stack) : OwnUpTo(escaped_, f, Len(program.body[f]) + 1)
      /\ CalleesFirst => \A f \in Visited(program, stack) : escaped_[f] = Needed(f)
  BY DEF CollectInv
<1>2. /\ \A f \in Fun : Needed(f)' = Needed(f)
      /\ CalleesFirst' = CalleesFirst
      /\ \A passed, f, to : /\ OwnUpTo(passed, f, to)' = OwnUpTo(passed, f, to)
                            /\ CalleesUpTo(passed, f, to)' = CalleesUpTo(passed, f, to)
  BY SameNeeds
<1>3. ASSUME NEW f \in Visited(program, stack')
      PROVE  /\ OwnUpTo(escaped_', f, Len(program.body[f]) + 1)
             /\ CalleesFirst => escaped_'[f] = Needed(f)
  <2>1. f \in Fun /\ escaped_[f] \subseteq escaped_'[f] /\ escaped_'[f] \subseteq Needed(f)
    BY <1>3
  <2>2. CASE f \in Visited(program, stack)
    <3>1. OwnUpTo(escaped_, f, Len(program.body[f]) + 1)
      BY <1>1, <2>2
    <3>2. OwnUpTo(escaped_', f, Len(program.body[f]) + 1)
      BY <2>1, <3>1, UpToGrown
    <3> QED BY <1>1, <2>1, <2>2, <3>2
  <2>3. CASE f \notin Visited(program, stack)
    <3>1. /\ OwnUpTo(escaped_, f, Len(program.body[f]) + 1)
          /\ CalleesFirst => CalleesUpTo(escaped_, f, Len(program.body[f]) + 1)
      BY <1>3, <2>3
    <3>2. /\ OwnUpTo(escaped_', f, Len(program.body[f]) + 1)
          /\ CalleesFirst => CalleesUpTo(escaped_', f, Len(program.body[f]) + 1)
      BY <2>1, <3>1, UpToGrown
    <3> QED BY <2>1, <3>2, AllNeeded
  <2> QED BY <2>2, <2>3
<1>4. \A f \in Fun : escaped_'[f] \subseteq Needed(f)'
  BY <1>2
<1>5. \A f \in Visited(program, stack)' : OwnUpTo(escaped_, f, Len(program.body[f]) + 1)'
  BY <1>3 DEF OwnUpTo
<1>6. CalleesFirst' => \A f \in Visited(program, stack)' : escaped_'[f] = Needed(f)'
  BY <1>2, <1>3
<1>7. \A d \in Bodies(stack') :
        /\ OwnUpTo(escaped_, Level(stack, d).function, Level(stack, d).at)'
        /\ CalleesFirst' => CalleesUpTo(escaped_, Level(stack, d).function, Level(stack, d).at)'
  <2>1. \A d \in Bodies(stack') : OwnUpTo(escaped_, Level(stack, d).function, Level(stack, d).at)'
    BY DEF OwnUpTo
  <2>2. CalleesFirst' => \A d \in Bodies(stack') :
          CalleesUpTo(escaped_, Level(stack, d).function, Level(stack, d).at)'
    BY <1>2 DEF CalleesUpTo
  <2> QED BY <2>1, <2>2
<1>8. /\ phase' # "escapes" /\ phase' \in {"escapes", "collect"}
  OBVIOUS
<1> QED BY <1>4, <1>5, <1>6, <1>7, <1>8 DEF CollectInv

\* It goes past an item, from which the function takes S.
Takes(op, S) ==
  /\ Meets(op) /\ PastItem(program, stack, stack')
  /\ S \subseteq Needed(Top.function)
  /\ op = "use" /\ escape_[What] => What \in S
  /\ op = "call" /\ CalleesFirst => Needed(What) \subseteq S
  /\ escaped_' = [escaped_ EXCEPT ![function_] = @ \cup S]

LEMMA CollectItem ==
  ASSUME WalkInv, CollectInv, phase = "collect", UNCHANGED <<program, phase, escape_>>,
         NEW op \in Op, NEW S \in SUBSET Var, Takes(op, S)
  PROVE  CollectInv'
<1> DEFINE n == Len(stack)
           f == Top.function
           i == Top.at
<1>a. /\ Meets(op) /\ PastItem(program, stack, stack')
      /\ S \subseteq Needed(Top.function)
      /\ op = "use" /\ escape_[What] => What \in S
      /\ op = "call" /\ CalleesFirst => Needed(What) \subseteq S
      /\ escaped_' = [escaped_ EXCEPT ![function_] = @ \cup S]
  BY DEF Takes
<1>1. /\ stack # <<>> /\ n \in Bodies(stack) /\ f \in Fun
      /\ i \in Where(program, f, op) /\ What = OfAt(program, f, i)
  BY <1>a, MetItem
<1>2. /\ program \in Programs /\ stack \in Seq(Frame) /\ n \in Nat \ {0}
      /\ Top = Level(stack, n) /\ Top \in Frame /\ Path(program, stack)
  BY <1>1, StackTop
<1>3. function_ = f
  <2>1. Charged(stack, function_) /\ n >= n - 1
    BY <1>2 DEF WalkInv
  <2> QED BY <1>1, <1>2, <2>1 DEF Charged
<1>4. /\ escaped_ \in [Fun -> SUBSET Var]
      /\ \A g \in Fun : escaped_[g] \subseteq Needed(g)
      /\ \A d \in Bodies(stack) :
           /\ OwnUpTo(escaped_, Level(stack, d).function, Level(stack, d).at)
           /\ CalleesFirst => CalleesUpTo(escaped_, Level(stack, d).function, Level(stack, d).at)
  BY DEF CollectInv
<1>5. /\ stack' \in Seq(Frame) /\ stack' # <<>> /\ Path(program, stack')
      /\ Bodies(stack') = Bodies(stack) /\ Visited(program, stack') = Visited(program, stack)
      /\ Level(stack', n) = Past(Top)
      /\ \A d \in Bodies(stack) \ {n} : Level(stack', d) = Level(stack, d)
  BY <1>2, <1>a DEF PastItem
<1>6. i \in Nat /\ Past(Top).at = i + 1 /\ Past(Top).function = f
  <2>1. Top.is = "function"
    BY <1>a, MetItem
  <2> QED BY <1>2, <2>1, FrameFacts
<1>7. \A d \in Bodies(stack) : Level(stack, d).function \in Fun
  BY <1>2, LevelIn, FrameFacts DEF Bodies
<1> HIDE DEF n, f, i
<1>8. /\ escaped_' \in [Fun -> SUBSET Var] /\ escaped_'[f] = escaped_[f] \cup S
      /\ \A g \in Fun : escaped_[g] \subseteq escaped_'[g]
  BY <1>1, <1>3, <1>4, <1>a
<1>9. \A g \in Fun : escaped_'[g] \subseteq Needed(g)
  BY <1>1, <1>3, <1>4, <1>8, <1>a DEF f
<1>10. \A g \in Visited(program, stack') : g \in Fun
  BY <1>2, <1>5, VisitedIsOver
<1>11. OwnUpTo(escaped_', f, i + 1)
  <2>1. OwnUpTo(escaped_, f, i)
    BY <1>1, <1>2, <1>4 DEF f, i
  <2>2. OwnUpTo(escaped_', f, i)
    BY <1>1, <1>8, <2>1, UpToGrown
  <2>3. i \in Where(program, f, "use") /\ escape_[OfAt(program, f, i)] => OfAt(program, f, i) \in escaped_'[f]
    BY <1>1, <1>8, <1>a DEF Where
  <2> QED BY <1>1, <1>2, <1>6, <2>2, <2>3, UpToNext
<1>12. CalleesFirst => CalleesUpTo(escaped_', f, i + 1)
  <2> SUFFICES ASSUME CalleesFirst PROVE CalleesUpTo(escaped_', f, i + 1)
    OBVIOUS
  <2>1. CalleesUpTo(escaped_, f, i)
    BY <1>1, <1>2, <1>4 DEF f, i
  <2>2. CalleesUpTo(escaped_', f, i)
    BY <1>1, <1>8, <2>1, UpToGrown
  <2>3. i \in Where(program, f, "call") => Needed(OfAt(program, f, i)) \subseteq escaped_'[f]
    BY <1>1, <1>8, <1>a DEF Where
  <2> QED BY <1>1, <1>2, <1>6, <2>2, <2>3, UpToNext
<1>13. ASSUME NEW d \in Bodies(stack')
       PROVE  /\ OwnUpTo(escaped_', Level(stack', d).function, Level(stack', d).at)
              /\ CalleesFirst => CalleesUpTo(escaped_', Level(stack', d).function, Level(stack', d).at)
  <2>1. CASE d = n
    BY <1>5, <1>6, <1>11, <1>12, <2>1
  <2>2. CASE d # n
    <3>1. d \in Bodies(stack) /\ Level(stack', d) = Level(stack, d)
      BY <1>5, <2>2
    <3>2. Level(stack, d).function \in Fun
      BY <1>7, <3>1
    <3>3. escaped_[Level(stack, d).function] \subseteq escaped_'[Level(stack, d).function]
      BY <1>8, <3>2
    <3> QED BY <1>4, <3>1, <3>3, UpToGrown
  <2> QED BY <2>1, <2>2
<1> QED BY <1>2, <1>5, <1>8, <1>9, <1>10, <1>13, CollectKept

\* It moves from one body to another, and takes nothing.
LEMMA CollectQuiet ==
  ASSUME WalkInv, CollectInv, phase = "collect", UNCHANGED <<program, phase, escape_, escaped_>>,
         stack # <<>>,
         \/ SameBodies(program, stack, stack') /\ Visited(program, stack') \subseteq Visited(program, stack)
         \/ \E f \in Fun : FunctionEntered(program, stack, stack', f)
         \/ \E f \in Fun : FunctionLeft(program, stack, stack', f)
  PROVE  CollectInv'
<1>1. /\ escaped_ \in [Fun -> SUBSET Var]
      /\ \A g \in Fun : escaped_[g] \subseteq Needed(g)
      /\ \A d \in Bodies(stack) :
           /\ OwnUpTo(escaped_, Level(stack, d).function, Level(stack, d).at)
           /\ CalleesFirst => CalleesUpTo(escaped_, Level(stack, d).function, Level(stack, d).at)
  BY DEF CollectInv
<1>2. program \in Programs /\ stack \in Seq(Frame) /\ Path(program, stack)
  BY StackTop
<1>3. \A g \in Visited(program, stack) : g \in Fun
  BY <1>2, VisitedIsOver
<1>4. CASE SameBodies(program, stack, stack') /\ Visited(program, stack') \subseteq Visited(program, stack)
  BY <1>1, <1>2, <1>3, <1>4, CollectKept DEF SameBodies
<1>5. CASE \E f \in Fun : FunctionEntered(program, stack, stack', f)
  <2>1. PICK f \in Fun : FunctionEntered(program, stack, stack', f)
    BY <1>5
  <2>2. /\ Bodies(stack') = Bodies(stack) \cup {Len(stack) + 1}
        /\ Visited(program, stack') = Visited(program, stack)
        /\ Level(stack', Len(stack) + 1).function = f /\ Level(stack', Len(stack) + 1).at = 1
        /\ \A d \in Bodies(stack) : Level(stack', d) = Level(stack, d)
    BY <2>1 DEF FunctionEntered
  <2>3. OwnUpTo(escaped_, f, 1) /\ CalleesUpTo(escaped_, f, 1)
    <3>1. 1 \in Nat
      OBVIOUS
    <3> QED BY <1>2, <3>1, UpToNext
  <2>4. \A d \in Bodies(stack') :
           /\ OwnUpTo(escaped_, Level(stack', d).function, Level(stack', d).at)
           /\ CalleesFirst => CalleesUpTo(escaped_, Level(stack', d).function, Level(stack', d).at)
    BY <1>1, <2>2, <2>3
  <2> QED BY <1>1, <1>2, <1>3, <2>2, <2>4, CollectKept
<1>6. CASE \E f \in Fun : FunctionLeft(program, stack, stack', f)
  <2>1. PICK f \in Fun : FunctionLeft(program, stack, stack', f)
    BY <1>6
  <2>2. /\ Len(stack) \in Bodies(stack) /\ Level(stack, Len(stack)).function = f
        /\ Level(stack, Len(stack)).at = Len(program.body[f]) + 1
        /\ Bodies(stack') = Bodies(stack) \ {Len(stack)}
        /\ Visited(program, stack') = Visited(program, stack) \cup {f}
        /\ \A d \in Bodies(stack') : Level(stack', d) = Level(stack, d)
    BY <2>1 DEF FunctionLeft
  <2>3. /\ OwnUpTo(escaped_, f, Len(program.body[f]) + 1)
        /\ CalleesFirst => CalleesUpTo(escaped_, f, Len(program.body[f]) + 1)
    BY <1>1, <2>2
  <2>4. \A d \in Bodies(stack') :
           /\ OwnUpTo(escaped_, Level(stack', d).function, Level(stack', d).at)
           /\ CalleesFirst => CalleesUpTo(escaped_, Level(stack', d).function, Level(stack', d).at)
    BY <1>1, <2>2
  <2>5. \A g \in Visited(program, stack') : g \in Fun
    BY <1>3, <2>2
  <2>6. \A g \in Visited(program, stack') \ Visited(program, stack) : g = f
    BY <2>2
  <2> QED BY <1>1, <1>2, <2>3, <2>4, <2>5, <2>6, CollectKept
<1> QED BY <1>4, <1>5, <1>6

LEMMA CollectActions ==
  ASSUME WalkInv, CollectInv, phase = "collect", Collect
  PROVE  CollectInv'
<1>1. /\ escaped_ \in [Fun -> SUBSET Var] /\ \A g \in Fun : escaped_[g] \subseteq Needed(g)
      /\ CalleesFirst => \A f \in Visited(program, stack) : escaped_[f] = Needed(f)
  BY DEF CollectInv
<1>2. UNCHANGED escape_
  BY DEF Collect, CollectChunk, CollectAgain, CollectChunkEnd, CollectFunctionDec,
     CollectFunctionDecEnd, CollectCallExp, CollectSimpleVar, CollectWalk, Collecting, depths
<1>3. escaped_ = [escaped_ EXCEPT ![function_] = @ \cup {}]
  BY <1>1
<1>4. program \in Programs /\ function_ \in Fun
  BY DEF WalkInv
<1>5. ASSUME stack # <<>>, Top.is = "function" PROVE function_ = Top.function
  <2>1. /\ Top = Level(stack, Len(stack)) /\ Len(stack) \in Nat \ {0}
    BY <1>5, StackTop
  <2>2. Len(stack) \in Bodies(stack) /\ Len(stack) >= Len(stack) - 1
    BY <1>5, <2>1 DEF Bodies
  <2>3. Charged(stack, function_)
    BY DEF WalkInv
  <2> QED BY <2>1, <2>2, <2>3 DEF Charged
<1>6. CASE CollectCallExp
  <2>1. /\ Meets("call") /\ GoesOn
        /\ escaped_' = [escaped_ EXCEPT ![function_] = @ \cup escaped_[What]]
    BY <1>6 DEF CollectCallExp
  <2>2. /\ stack # <<>> /\ Top.is = "function" /\ Top.function \in Fun
        /\ Top.at \in Where(program, Top.function, "call")
        /\ What = OfAt(program, Top.function, Top.at)
    BY <2>1, MetItem
  <2>3. What \in Fun /\ What \in Calls(Top.function)
    BY <1>4, <2>2, ItemTypes DEF Calls
  <2>4. escaped_[What] \subseteq Needed(Top.function) /\ escaped_[What] \in SUBSET Var
    <3>1. Needed(What) \subseteq Needed(Top.function)
      BY <1>4, <2>2, <2>3, NeededUnfolded
    <3> QED BY <1>1, <2>3, <3>1
  <2>5. CalleesFirst => Needed(What) = escaped_[What]
    BY <1>1, <2>1, CalleeVisited
  <2>6. PastItem(program, stack, stack') /\ UNCHANGED <<program, phase>>
    <3>1. "call" # "functions"
      OBVIOUS
    <3> QED BY <2>1, <3>1, OnPastItem
  <2>7. "call" # "use" /\ "call" \in Op
    BY DEF Op
  <2>8. Takes("call", escaped_[What])
    BY <2>1, <2>4, <2>5, <2>6, <2>7 DEF Takes
  <2> QED BY <1>2, <2>4, <2>6, <2>7, <2>8, CollectItem
<1>7. CASE CollectSimpleVar
  <2> DEFINE S == {v \in {What} : escape_[v]}
  <2>1. /\ Meets("use") /\ GoesOn
        /\ escaped_' = [escaped_ EXCEPT ![function_] = @ \cup S]
    BY <1>7 DEF CollectSimpleVar
  <2>2. /\ stack # <<>> /\ Top.is = "function" /\ Top.function \in Fun
        /\ Top.at \in Where(program, Top.function, "use")
        /\ What = OfAt(program, Top.function, Top.at)
    BY <2>1, MetItem
  <2>3. What \in Var /\ What \in Uses(Top.function)
    BY <1>4, <2>2, ItemTypes DEF Uses
  <2>4. S \subseteq Needed(Top.function) /\ S \in SUBSET Var
    <3>1. S \subseteq Escaping(Top.function)
      BY <2>3 DEF Escaping
    <3> QED BY <1>4, <2>2, <2>3, <3>1, NeededUnfolded
  <2>5. escape_[What] => What \in S
    OBVIOUS
  <2>6. PastItem(program, stack, stack') /\ UNCHANGED <<program, phase>>
    <3>1. "use" # "functions"
      OBVIOUS
    <3> QED BY <2>1, <3>1, OnPastItem
  <2>7. "call" # "use" /\ "use" \in Op
    BY DEF Op
  <2> HIDE DEF S
  <2>8. Takes("use", S)
    BY <2>1, <2>4, <2>5, <2>6, <2>7 DEF Takes
  <2> QED BY <1>2, <2>4, <2>6, <2>7, <2>8, CollectItem
<1>8. CASE CollectWalk
  <2>1. PICK op \in {"var", "open", "close"} : Meets(op) /\ GoesOn
    BY <1>8 DEF CollectWalk
  <2>2. op # "functions" /\ op # "use" /\ op # "call" /\ op \in Op
    BY <2>1 DEF Op
  <2>3. PastItem(program, stack, stack') /\ UNCHANGED <<program, phase>>
    BY <2>1, <2>2, OnPastItem
  <2>4. escaped_' = [escaped_ EXCEPT ![function_] = @ \cup {}]
    BY <1>3, <1>8 DEF CollectWalk, sets
  <2>5. Takes(op, {})
    BY <2>1, <2>2, <2>3, <2>4 DEF Takes
  <2> QED BY <1>2, <2>2, <2>3, <2>5, CollectItem
<1>9. CASE CollectChunk
  <2>1. Meets("functions") /\ PastItem(program, stack, stack') /\ UNCHANGED <<program, phase>>
    BY <1>9, IntoChunk DEF CollectChunk, EntersChunk
  <2>2. escaped_' = [escaped_ EXCEPT ![function_] = @ \cup {}]
    BY <1>3, <1>9 DEF CollectChunk
  <2>3. "functions" # "use" /\ "functions" # "call" /\ "functions" \in Op
    BY DEF Op
  <2>4. Takes("functions", {})
    BY <2>1, <2>2, <2>3 DEF Takes
  <2> QED BY <1>2, <2>1, <2>3, <2>4, CollectItem
<1>10. CASE CollectAgain
  <2>1. /\ ChunkVisited /\ stack' = <<[Top EXCEPT !.at = 1]>> \o Tail(stack)
        /\ UNCHANGED <<program, phase, escaped_>> /\ stack # <<>>
    BY <1>10 DEF CollectAgain, ChunkVisited, InChunk
  <2>2. /\ SameBodies(program, stack, stack')
        /\ Visited(program, stack') \subseteq Visited(program, stack)
    BY <2>1, AgainChunk
  <2> QED BY <1>2, <2>1, <2>2, CollectQuiet
<1>11. CASE CollectChunkEnd
  <2>1. LeavesChunk /\ UNCHANGED escaped_ /\ stack # <<>>
    BY <1>11 DEF CollectChunkEnd, LeavesChunk, ChunkVisited, InChunk
  <2> QED BY <1>2, <2>1, OutOfChunk, CollectQuiet
<1>12. CASE CollectFunctionDec
  <2>1. PICK f \in Fun : EntersFunction(f)
    BY <1>12 DEF CollectFunctionDec
  <2>2. UNCHANGED escaped_ /\ stack # <<>>
    BY <1>12, <2>1 DEF CollectFunctionDec, EntersFunction, InChunk, sets
  <2> QED BY <1>2, <2>1, <2>2, IntoFunction, CollectQuiet
<1>13. CASE CollectFunctionDecEnd
  <2>1. BodyVisited /\ Returns /\ UNCHANGED escaped_ /\ stack # <<>>
    BY <1>13 DEF CollectFunctionDecEnd, BodyVisited, InFunction, sets
  <2>2. /\ FunctionLeft(program, stack, stack', Top.function) /\ Top.function \in Fun
        /\ UNCHANGED <<program, phase>>
    BY <2>1, OutOfFunction
  <2> QED BY <1>2, <2>1, <2>2, CollectQuiet
<1> QED BY <1>6, <1>7, <1>8, <1>9, <1>10, <1>11, <1>12, <1>13 DEF Collect

LEMMA CollectInit == Init => CollectInv
<1> SUFFICES ASSUME Init PROVE CollectInv
  OBVIOUS
<1>1. phase = "escapes" /\ escaped_ = [f \in Fun |-> {}]
  BY DEF Init
<1> QED BY <1>1 DEF CollectInv

LEMMA CollectStep == WalkInv /\ CollectInv /\ [Next]_vars => CollectInv'
<1> SUFFICES ASSUME WalkInv, CollectInv, [Next]_vars PROVE CollectInv'
  OBVIOUS
<1>1. escaped_ \in [Fun -> SUBSET Var] /\ program \in Programs
  BY DEF CollectInv, WalkInv
<1>2. CASE Escapes
  <2>1. phase = "escapes" /\ UNCHANGED escaped_
    BY <1>2 DEF Escapes, Flagging, FlagVarDec, FlagSimpleVar, FlagLet, FlagLetEnd,
      FlagFunctionDec, FlagFunctionDecEnd, FlagWalk, sets
  <2>2. phase' = phase
    BY <1>2, FlagMoves
  <2>3. phase # "collect" /\ phase \in {"escapes", "collect"}
    BY <2>1
  <2> QED BY <1>1, <2>1, <2>2, <2>3 DEF CollectInv
<1>3. CASE Collect
  <2>1. phase = "collect"
    BY <1>3 DEF Collect, Collecting, CollectChunk, CollectAgain, CollectChunkEnd,
      CollectFunctionDec, CollectFunctionDecEnd, CollectCallExp, CollectSimpleVar, CollectWalk
  <2> QED BY <1>3, <2>1, CollectActions
<1>4. CASE /\ phase \notin {"escapes", "collect"} /\ phase' \notin {"escapes", "collect"}
           /\ UNCHANGED <<program, escape_, escaped_>>
  <2>1. \A f \in Present : OwnUpTo(escaped_, f, Len(program.body[f]) + 1)
    BY <1>4 DEF CollectInv
  <2>2. \A f : OwnUpTo(escaped_, f, Len(program.body[f]) + 1)' = OwnUpTo(escaped_, f, Len(program.body[f]) + 1)
    BY <1>4 DEF OwnUpTo
  <2>3. Present' = Present
    BY <1>4 DEF Present
  <2>4. \A f \in Present' : OwnUpTo(escaped_, f, Len(program.body[f]) + 1)'
    BY <2>1, <2>2, <2>3
  <2>5. phase' # "escapes" /\ phase' # "collect"
    BY <1>4
  <2> QED BY <1>1, <1>4, <2>4, <2>5 DEF CollectInv
<1>5. CASE Translate
  <2>1. phase = "translate" /\ UNCHANGED <<program, escape_, escaped_>>
    BY <1>5 DEF Translate, Translating, TranslateChunk, TranslateChunkEnd, TranslateBody,
      TranslateBodyEnd, TranslateVarDec, access_var, TranslateCallExp, TranslateWalk, sets, depths
  <2>2. phase' = "thrown" \/ phase' = phase
    <3>1. SUFFICES ASSUME phase' # "thrown" PROVE phase' = phase
      OBVIOUS
    <3>2. Charged(stack, function_)
      BY <2>1 DEF WalkInv
    <3> QED BY <1>5, <3>1, <3>2, TranslateMoves
  <2> QED BY <1>4, <2>1, <2>2
<1>6. CASE NextVisitor
  <2>1. stack = <<>> /\ UNCHANGED <<program, escape_, escaped_>>
    BY <1>6 DEF NextVisitor, sets, depths
  <2>2. CASE phase = "escapes" /\ phase' = "collect" /\ stack' = <<Chunk(<<Main>>)>>
    <3>1. Bodies(stack') = {} /\ Visited(program, stack') = {}
      BY <1>1, <2>2, StartVisitor DEF WalkInv
    <3>2. \A f \in Fun : escaped_'[f] = {}
      BY <2>1, <2>2 DEF CollectInv
    <3>3. phase' # "escapes" /\ phase' \in {"escapes", "collect"}
      BY <2>2
    <3> QED BY <1>1, <2>1, <2>2, <3>1, <3>2, <3>3 DEF CollectInv
  <2>3. CASE phase = "collect" /\ phase' = "translate"
    <3>1. Visited(program, stack) = Present
      BY <2>1 DEF Visited, Present
    <3>2. \A f \in Present : OwnUpTo(escaped_, f, Len(program.body[f]) + 1)
      BY <2>3, <3>1 DEF CollectInv
    <3>3. \A f : OwnUpTo(escaped_, f, Len(program.body[f]) + 1)' = OwnUpTo(escaped_, f, Len(program.body[f]) + 1)
      BY <2>1 DEF OwnUpTo
    <3>4. Present' = Present
      BY <2>1 DEF Present
    <3>5. \A f \in Present' : OwnUpTo(escaped_, f, Len(program.body[f]) + 1)'
      BY <3>2, <3>3, <3>4
    <3>6. phase' # "escapes" /\ phase' # "collect"
      BY <2>3
    <3> QED BY <1>1, <2>1, <3>5, <3>6 DEF CollectInv
  <2>4. CASE phase = "translate" /\ phase' = "done"
    BY <1>4, <2>1, <2>4
  <2> QED BY <1>6, <2>2, <2>3, <2>4 DEF NextVisitor
<1>7. CASE UNCHANGED vars
  <2>1. UNCHANGED <<program, phase, stack, escape_, escaped_>>
    BY <1>7 DEF vars, walk, depths, sets
  <2>2. CASE phase = "collect"
    <3>1. /\ \A f \in Fun : Needed(f)' = Needed(f)
          /\ CalleesFirst' = CalleesFirst
          /\ \A passed, f, to : /\ OwnUpTo(passed, f, to)' = OwnUpTo(passed, f, to)
                                /\ CalleesUpTo(passed, f, to)' = CalleesUpTo(passed, f, to)
      BY <2>1, SameNeeds
    <3>2. \A f \in Visited(program, stack) : f \in Fun
      <4>1. CASE stack = <<>>
        BY <1>1, <4>1, InsideFacts, LiftingAssumption DEF Visited
      <4>2. CASE stack # <<>>
        BY <4>2, StackTop, VisitedIsOver
      <4> QED BY <4>1, <4>2
    <3>3. /\ \A f \in Fun : escaped_[f] \subseteq Needed(f)
          /\ \A d \in Bodies(stack) :
               /\ OwnUpTo(escaped_, Level(stack, d).function, Level(stack, d).at)
               /\ CalleesFirst => CalleesUpTo(escaped_, Level(stack, d).function, Level(stack, d).at)
      BY <2>2 DEF CollectInv
    <3> QED BY <1>1, <2>1, <2>2, <3>2, <3>3, CollectKept
  <2>3. CASE phase = "escapes"
    <3>1. phase # "collect" /\ phase \in {"escapes", "collect"}
      BY <2>3
    <3> QED BY <1>1, <2>1, <2>3, <3>1 DEF CollectInv
  <2>4. CASE phase \notin {"escapes", "collect"}
    BY <1>4, <2>1, <2>4
  <2> QED BY <2>2, <2>3, <2>4
<1> QED BY <1>2, <1>3, <1>5, <1>6, <1>7 DEF Next

-----------------------------------------------------------------------------
(* The lets and loops that are open.                                       *)

LEMMA BeforeFacts ==
  ASSUME NEW p \in Programs, NEW f \in Fun, NEW op, NEW i \in Nat
  PROVE  /\ Before(p, f, op, i) \in Nat
         /\ Before(p, f, op, 1) = 0
         /\ i \in Where(p, f, op) => Before(p, f, op, i + 1) = Before(p, f, op, i) + 1
         /\ i \notin Where(p, f, op) => Before(p, f, op, i + 1) = Before(p, f, op, i)
<1> DEFINE W == Where(p, f, op)
           S(to) == {j \in W : j < to}
<1>1. Len(p.body[f]) \in Nat /\ W \subseteq 1..Len(p.body[f])
  BY ItemTypes
<1> HIDE DEF W
<1>2. S(i) \subseteq 1..Len(p.body[f])
  BY <1>1
<1>3. IsFiniteSet(S(i))
  <2>1. IsFiniteSet(1..Len(p.body[f]))
    BY <1>1, FS_Interval
  <2> QED BY <1>2, <2>1, FS_Subset
<1>4. Cardinality(S(i)) \in Nat
  BY <1>3, FS_CardinalityType
<1>a. \A j \in W : j \in Nat \ {0}
  BY <1>1
<1>b. \A j \in W : ~(j < 1) /\ (j < i + 1 <=> j < i \/ j = i)
  BY <1>a
<1>5. S(1) = {}
  BY <1>b
<1>6. Cardinality(S(1)) = 0
  BY <1>5, FS_EmptySet
<1>7. i \notin S(i)
  OBVIOUS
<1>8. i \in W => S(i + 1) = S(i) \cup {i}
  BY <1>b
<1>9. i \notin W => S(i + 1) = S(i)
  BY <1>b
<1> HIDE DEF S
<1>10. i \in W => Cardinality(S(i + 1)) = Cardinality(S(i)) + 1
  BY <1>3, <1>7, <1>8, FS_AddElement
<1>11. \A to : Before(p, f, op, to) = Cardinality(S(to))
  BY DEF Before, S, W
<1> QED BY <1>4, <1>6, <1>9, <1>10, <1>11 DEF W

LEMMA DepthFacts ==
  ASSUME NEW p \in Programs, NEW f \in Fun
  PROVE  /\ Depth(p, f, 1) = 0 /\ Depth(p, f, Len(p.body[f]) + 1) = 0
         /\ \A i \in 1..Len(p.body[f]) + 1 : Depth(p, f, i) \in Nat
         /\ \A i \in Nat :
              /\ i \in Where(p, f, "open") => Depth(p, f, i + 1) = Depth(p, f, i) + 1
              /\ i \in Where(p, f, "close") => Depth(p, f, i + 1) = Depth(p, f, i) - 1
              /\ i \notin Where(p, f, "open") \cup Where(p, f, "close")
                   => Depth(p, f, i + 1) = Depth(p, f, i)
<1>1. Balanced(p)
  BY ScopingAssumption
<1>2. Depth(p, f, Len(p.body[f]) + 1) = 0 /\ \A i \in 1..Len(p.body[f]) + 1 : Depth(p, f, i) >= 0
  BY <1>1 DEF Balanced
<1>3. \A i \in Nat : Before(p, f, "open", i) \in Nat /\ Before(p, f, "close", i) \in Nat
  BY BeforeFacts
<1>4. \A i \in Nat : Depth(p, f, i) \in Int
  BY <1>3 DEF Depth
<1>5. Depth(p, f, 1) = 0
  <2>1. 1 \in Nat
    OBVIOUS
  <2>2. Before(p, f, "open", 1) = 0 /\ Before(p, f, "close", 1) = 0
    BY <2>1, BeforeFacts
  <2> QED BY <2>2 DEF Depth
<1>6. \A i \in 1..Len(p.body[f]) + 1 : Depth(p, f, i) \in Nat
  <2>1. Len(p.body[f]) \in Nat
    BY ItemTypes
  <2>2. \A i \in 1..Len(p.body[f]) + 1 : Depth(p, f, i) \in Int
    BY <1>4, <2>1
  <2> QED BY <1>2, <2>2
<1>7. ASSUME NEW i \in Nat
      PROVE  /\ i \in Where(p, f, "open") => Depth(p, f, i + 1) = Depth(p, f, i) + 1
             /\ i \in Where(p, f, "close") => Depth(p, f, i + 1) = Depth(p, f, i) - 1
             /\ i \notin Where(p, f, "open") \cup Where(p, f, "close")
                  => Depth(p, f, i + 1) = Depth(p, f, i)
  <2>1. ~(i \in Where(p, f, "open") /\ i \in Where(p, f, "close"))
    <3>1. "open" # "close"
      OBVIOUS
    <3> QED BY <3>1 DEF Where
  <2> DEFINE o == Before(p, f, "open", i)
             c == Before(p, f, "close", i)
             o1 == Before(p, f, "open", i + 1)
             c1 == Before(p, f, "close", i + 1)
  <2>2. /\ i \in Where(p, f, "open") => o1 = o + 1
        /\ i \notin Where(p, f, "open") => o1 = o
    BY BeforeFacts
  <2>3. /\ i \in Where(p, f, "close") => c1 = c + 1
        /\ i \notin Where(p, f, "close") => c1 = c
    BY BeforeFacts
  <2>4. o \in Nat /\ c \in Nat
    BY <1>3
  <2>5. Depth(p, f, i) = o - c /\ Depth(p, f, i + 1) = o1 - c1
    BY DEF Depth
  <2> HIDE DEF o, c, o1, c1
  <2>6. ASSUME i \in Where(p, f, "open") PROVE Depth(p, f, i + 1) = Depth(p, f, i) + 1
    <3>1. o1 = o + 1 /\ c1 = c
      BY <2>1, <2>2, <2>3, <2>6
    <3> QED BY <2>4, <2>5, <3>1
  <2>7. ASSUME i \in Where(p, f, "close") PROVE Depth(p, f, i + 1) = Depth(p, f, i) - 1
    <3>1. o1 = o /\ c1 = c + 1
      BY <2>1, <2>2, <2>3, <2>7
    <3> QED BY <2>4, <2>5, <3>1
  <2> QED BY <2>2, <2>3, <2>5, <2>6, <2>7
<1> QED BY <1>2, <1>5, <1>6, <1>7

\* The scopes of the visit in progress, as the top moves.
LEMMA NestMoves ==
  ASSUME NEW p, NEW s, NEW t, NEW y, Moves(s, t, y), NEW start, NEW scope, NEW to,
         Nesting(p, s, start, scope), to = start[Len(s)] + Opened(p, y, y.at)
  PROVE  Nesting(p, t, start, to)
<1> DEFINE n == Len(s)
<1>1. /\ n \in Nat /\ Len(t) = n /\ Level(t, n) = y /\ s # <<>> /\ t # <<>>
      /\ \A d \in 1..n - 1 : Level(t, d) = Level(s, d)
  BY DEF Moves, SameBelow
<1> QED BY <1>1 DEF Nesting

LEMMA NestEnters ==
  ASSUME NEW p \in Programs, NEW s \in Seq(Frame), Path(p, s), NEW t, NEW y, Enters(p, s, t, y),
         NEW start \in [1..Len(s) -> Nat], NEW scope \in Nat, Nesting(p, s, start, scope),
         start[Len(s)] <= scope
  PROVE  \E start1 \in [1..Len(t) -> Nat] :
           /\ start1[Len(s) + 1] = scope /\ \A d \in 1..Len(s) : start1[d] = start[d]
           /\ Nesting(p, t, start1, scope + Opened(p, y, 1))
<1> DEFINE n == Len(s)
           x == Level(s, n)
           start1 == [d \in 1..Len(t) |-> IF d = Len(t) THEN scope ELSE start[d]]
<1>1. /\ n \in Nat \ {0} /\ Len(t) = n + 1 /\ Level(t, n) = Past(x) /\ Level(t, n + 1) = y
      /\ s # <<>> /\ t # <<>> /\ \A d \in 1..n - 1 : Level(t, d) = Level(s, d)
      /\ y \in Frame /\ y.at = 1
  BY DEF Enters, SameBelow
<1>2. x \in Frame
  BY <1>1, LevelIn
<1>3. /\ Alike(x, Past(x)) /\ Past(x).at = x.at + 1 /\ x.at \in Nat /\ x.is \in {"chunk", "function"}
  BY <1>2, FrameFacts DEF Alike
<1>4. /\ start[1] = 0 /\ scope = start[n] + Opened(p, x, x.at)
      /\ \A d \in 1..n - 1 :
           /\ start[d + 1] = start[d] + Opened(p, Level(s, d), Level(s, d).at - 1)
           /\ \A e \in d + 1..n : start[d + 1] <= start[e]
  BY <1>1 DEF Nesting
<1>5. Opened(p, Past(x), x.at) = Opened(p, x, x.at)
  BY <1>3 DEF Alike, Opened
<1> HIDE DEF n, x
<1>6. n + 1 \in 1..n + 1 /\ \A d \in 1..n : d \in 1..n + 1 /\ d # n + 1
  BY <1>1
<1>7. start1 \in [1..n + 1 -> Nat] /\ start1[n + 1] = scope /\ \A d \in 1..n : start1[d] = start[d]
  <2>1. \A d \in 1..n : start[d] \in Nat
    BY DEF n
  <2>2. \A d \in 1..n + 1 : d = n + 1 \/ d \in 1..n
    BY <1>1
  <2>3. start1 = [d \in 1..n + 1 |-> IF d = n + 1 THEN scope ELSE start[d]]
    BY <1>1
  <2> QED BY <1>6, <2>1, <2>2, <2>3
<1> HIDE DEF start1
<1>8. start1[1] = 0
  <2>1. 1 \in 1..n
    BY <1>1
  <2> QED BY <1>4, <1>7, <2>1
<1>9. ASSUME NEW d \in 1..n
      PROVE  /\ start1[d + 1] = start1[d] + Opened(p, Level(t, d), Level(t, d).at - 1)
             /\ \A e \in d + 1..n + 1 : start1[d + 1] <= start1[e]
  <2>1. CASE d = n
    <3>1. (x.at + 1) - 1 = x.at
      BY <1>3
    <3>2. start1[n + 1] = start1[n] + Opened(p, Past(x), Past(x).at - 1)
      BY <1>3, <1>4, <1>5, <1>7, <2>1, <3>1
    <3>3. \A e \in n + 1..n + 1 : e = n + 1
      BY <1>1
    <3> QED BY <1>1, <1>7, <2>1, <3>2, <3>3
  <2>2. CASE d # n
    <3>1. d \in 1..n - 1 /\ d + 1 \in 1..n
      BY <1>1, <2>2
    <3>2. start1[d + 1] = start1[d] + Opened(p, Level(t, d), Level(t, d).at - 1)
      BY <1>1, <1>4, <1>7, <3>1
    <3>3. \A e \in d + 1..n : start1[d + 1] <= start1[e]
      <4>1. \A e \in d + 1..n : e \in 1..n
        BY <1>1
      <4> QED BY <1>4, <1>7, <3>1, <4>1
    <3>4. start1[d + 1] <= start1[n + 1]
      <4>1. n \in d + 1..n
        BY <1>1, <3>1
      <4>2. start[d + 1] <= start[n]
        BY <1>4, <3>1, <4>1
      <4>3. start[d + 1] \in Nat /\ start[n] \in Nat /\ n \in 1..n
        BY <1>1, <3>1 DEF n
      <4>4. start1[d + 1] = start[d + 1]
        BY <1>7, <3>1
      <4>5. start[n] <= scope
        BY DEF n
      <4> QED BY <1>7, <4>2, <4>3, <4>4, <4>5
    <3>5. \A e \in d + 1..n + 1 : e = n + 1 \/ e \in d + 1..n
      BY <1>1
    <3> QED BY <3>2, <3>3, <3>4, <3>5
  <2> QED BY <2>1, <2>2
<1>10. (n + 1) - 1 = n
  BY <1>1
<1>11. Nesting(p, t, start1, scope + Opened(p, y, 1))
  BY <1>1, <1>7, <1>8, <1>9, <1>10 DEF Nesting
<1>12. start1 \in [1..Len(t) -> Nat]
  BY <1>1, <1>7
<1> QED BY <1>7, <1>11, <1>12 DEF n

LEMMA NestLeaves ==
  ASSUME NEW p \in Programs, NEW s \in Seq(Frame), Path(p, s), NEW t, Leaves(s, t),
         NEW start \in [1..Len(s) -> Nat], NEW scope, Nesting(p, s, start, scope)
  PROVE  LET start1 == [d \in 1..Len(t) |-> start[d]]
         IN  /\ start1 \in [1..Len(t) -> Nat] /\ \A d \in 1..Len(t) : start1[d] = start[d]
             /\ Nesting(p, t, start1, start[Len(s)])
<1> DEFINE n == Len(s)
           y == Level(s, n - 1)
           start1 == [d \in 1..Len(t) |-> start[d]]
<1>1. /\ n \in Nat \ {0} /\ Len(t) = n - 1 /\ s # <<>>
      /\ \A d \in 1..n - 1 : Level(t, d) = Level(s, d)
      /\ t = <<>> <=> n = 1
  BY DEF Leaves, SameBelow
<1>2. /\ start[1] = 0
      /\ \A d \in 1..n - 1 :
           /\ start[d + 1] = start[d] + Opened(p, Level(s, d), Level(s, d).at - 1)
           /\ \A e \in d + 1..n : start[d + 1] <= start[e]
  BY <1>1 DEF Nesting
<1>3. \A d \in 1..n - 1 : InVisit(p, Level(s, d), Level(s, d + 1))
  BY DEF Path
<1>4. \A d \in 1..n : start[d] \in Nat
  OBVIOUS
<1>5. start1 = [d \in 1..n - 1 |-> start[d]]
  BY <1>1
<1>a. \A d \in 1..n : Level(s, d) \in Frame
  BY LevelIn
<1> HIDE DEF n, y, start1
<1>6. \A d \in 1..n - 1 : d \in 1..n
  BY <1>1
<1>7. start1 \in [1..n - 1 -> Nat] /\ \A d \in 1..n - 1 : start1[d] = start[d]
  BY <1>4, <1>5, <1>6
<1>8. n = 1 => start[n] = 0
  BY <1>2
<1>9. n # 1 => start[n] = start1[n - 1] + Opened(p, Level(t, n - 1), Level(t, n - 1).at)
  <2> SUFFICES ASSUME n # 1
               PROVE  start[n] = start1[n - 1] + Opened(p, Level(t, n - 1), Level(t, n - 1).at)
    OBVIOUS
  <2>1. n - 1 \in 1..n - 1 /\ (n - 1) + 1 = n /\ n - 1 \in 1..n
    BY <1>1
  <2>2. start[n] = start[n - 1] + Opened(p, y, y.at - 1)
    BY <1>2, <2>1 DEF y
  <2>3. y \in Frame
    BY <1>a, <2>1 DEF y
  <2>4. Opened(p, y, y.at) = Opened(p, y, y.at - 1)
    <3>1. CASE y.is = "chunk"
      BY <3>1 DEF Opened
    <3>2. CASE y.is = "function"
      <4>1. InVisit(p, y, Level(s, n))
        BY <1>3, <2>1 DEF y
      <4>2. y.at - 1 \in Where(p, y.function, "functions")
        BY <3>2, <4>1 DEF InVisit
      <4>3. y.function \in Fun /\ y.at \in Nat \ {0}
        BY <2>3, <3>2, FrameFacts
      <4>4. PICK i \in Nat : i = y.at - 1 /\ y.at = i + 1
        <5>1. y.at - 1 \in Nat /\ y.at = (y.at - 1) + 1
          BY <4>3
        <5> QED BY <5>1
      <4>5. i \notin Where(p, y.function, "open") \cup Where(p, y.function, "close")
        <5>1. "functions" # "open" /\ "functions" # "close"
          OBVIOUS
        <5> QED BY <4>2, <4>4, <5>1 DEF Where
      <4>6. Depth(p, y.function, i + 1) = Depth(p, y.function, i)
        BY <4>3, <4>5, DepthFacts
      <4> QED BY <4>4, <4>6 DEF Opened
    <3>3. y.is \in {"chunk", "function"}
      BY <2>3, FrameFacts
    <3> QED BY <3>1, <3>2, <3>3
  <2>5. start1[n - 1] = start[n - 1] /\ Level(t, n - 1) = y
    BY <1>1, <1>7, <2>1 DEF y
  <2> QED BY <2>2, <2>4, <2>5
<1>10. ASSUME NEW d \in 1..Len(t) - 1
       PROVE  /\ start1[d + 1] = start1[d] + Opened(p, Level(t, d), Level(t, d).at - 1)
              /\ \A e \in d + 1..Len(t) : start1[d + 1] <= start1[e]
  <2>1. d \in 1..n - 1 /\ d + 1 \in 1..n - 1
    BY <1>1
  <2>2. \A e \in d + 1..Len(t) : e \in d + 1..n /\ e \in 1..n - 1
    BY <1>1, <2>1
  <2> QED BY <1>1, <1>2, <1>7, <2>1, <2>2
<1>11. t # <<>> => start1[1] = 0
  <2>1. n # 1 => 1 \in 1..n - 1
    BY <1>1
  <2> QED BY <1>1, <1>2, <1>7, <2>1
<1>12. Nesting(p, t, start1, start[n])
  BY <1>1, <1>8, <1>9, <1>10, <1>11 DEF Nesting
<1> QED BY <1>1, <1>7, <1>12 DEF n, start1

-----------------------------------------------------------------------------
(* EscapesVisitor.                                                         *)

\* Functions declare different variables, and a function each of its own once.
LEMMA VarsApart ==
  ASSUME NEW p \in Programs, NEW f \in Fun
  PROVE  /\ DeclaredIn(p, f) \subseteq Var
         /\ \A g \in Fun \ {f} : DeclaredIn(p, f) \cap DeclaredIn(p, g) = {}
         /\ \A i \in Where(p, f, "var") :
              /\ OfAt(p, f, i) \in DeclaredIn(p, f) /\ OfAt(p, f, i) \notin p.formals[f]
              /\ \A j \in Where(p, f, "var") : OfAt(p, f, i) = OfAt(p, f, j) => i = j
<1>1. DeclaredOnce(p)
  BY ScopingAssumption
<1>2. \A h \in Fun : /\ p.formals[h] \in SUBSET Var
                     /\ \A i \in Where(p, h, "var") : OfAt(p, h, i) \in Var
  BY ItemTypes
<1>3. \A g \in Fun \ {f} :
        /\ p.formals[f] \cap p.formals[g] = {}
        /\ \A i \in Where(p, f, "var") : OfAt(p, f, i) \notin p.formals[g]
        /\ \A i \in Where(p, g, "var") : OfAt(p, g, i) \notin p.formals[f]
        /\ \A i \in Where(p, f, "var"), j \in Where(p, g, "var") : OfAt(p, f, i) # OfAt(p, g, j)
  BY <1>1 DEF DeclaredOnce
<1>4. DeclaredIn(p, f) \subseteq Var
  BY <1>2 DEF DeclaredIn
<1>5. \A g \in Fun \ {f} : DeclaredIn(p, f) \cap DeclaredIn(p, g) = {}
  BY <1>3 DEF DeclaredIn
<1>6. \A i \in Where(p, f, "var") :
              /\ OfAt(p, f, i) \in DeclaredIn(p, f) /\ OfAt(p, f, i) \notin p.formals[f]
              /\ \A j \in Where(p, f, "var") : OfAt(p, f, i) = OfAt(p, f, j) => i = j
  BY <1>1 DEF DeclaredOnce, DeclaredIn
<1> QED BY <1>4, <1>5, <1>6

\* What is declared stays so, and a flag that is set on it.
Keeps(depth, depth1, flags, flags1) ==
  \A v \in Var : Declared(depth, v) => depth1[v] = depth[v] /\ (flags[v] => flags1[v])

LEMMA FlaggedKept ==
  ASSUME NEW p \in Programs, NEW depth, NEW depth1, NEW flags, NEW flags1,
         Keeps(depth, depth1, flags, flags1), NEW f \in Fun, NEW to,
         FlaggedUpTo(p, depth, flags, f, to)
  PROVE  FlaggedUpTo(p, depth1, flags1, f, to)
<1>1. /\ \A v \in p.formals[f] : v \in Var
      /\ \A i \in Where(p, f, "var") : OfAt(p, f, i) \in Var
      /\ \A i \in Where(p, f, "use") : OfAt(p, f, i) \in Var
  BY ItemTypes
<1>2. \A v \in Var : Declared(depth, v) => Declared(depth1, v) /\ (flags[v] => flags1[v])
  BY DEF Keeps, Declared
<1> QED BY <1>1, <1>2 DEF FlaggedUpTo

\* One item more; and none at the start.
LEMMA FlaggedNext ==
  ASSUME NEW p \in Programs, NEW depth, NEW flags, NEW f \in Fun, NEW i \in Nat
  PROVE  /\ /\ FlaggedUpTo(p, depth, flags, f, i)
            /\ i \in Where(p, f, "var") => Declared(depth, OfAt(p, f, i))
            /\ i \in Where(p, f, "use") =>
                 Declared(depth, OfAt(p, f, i)) /\ (DeepUse(p, f, i) => flags[OfAt(p, f, i)])
            => FlaggedUpTo(p, depth, flags, f, i + 1)
         /\ (\A v \in p.formals[f] : Declared(depth, v)) => FlaggedUpTo(p, depth, flags, f, 1)
<1>1. \A op : \A j \in Where(p, f, op) : j \in Nat \ {0}
  BY ItemTypes
<1>2. \A op : \A j \in Where(p, f, op) : ~(j < 1) /\ (j < i + 1 => j < i \/ j = i)
  BY <1>1
<1> QED BY <1>2 DEF FlaggedUpTo

LEMMA PlacedKept ==
  ASSUME NEW p \in Programs, NEW depth, NEW depth1, NEW flags, NEW flags1,
         Keeps(depth, depth1, flags, flags1), NEW from \in Nat, NEW f \in Fun, NEW to,
         PlacedUpTo(p, depth, from, f, to)
  PROVE  PlacedUpTo(p, depth1, from, f, to)
<1>1. /\ \A v \in p.formals[f] : v \in Var
      /\ \A i \in Where(p, f, "var") : OfAt(p, f, i) \in Var
  BY ItemTypes
<1>2. \A i \in Where(p, f, "var") : Depth(p, f, i) \in Nat
  <2>1. Len(p.body[f]) \in Nat /\ Where(p, f, "var") \subseteq 1..Len(p.body[f])
    BY ItemTypes
  <2>2. \A i \in Where(p, f, "var") : i \in 1..Len(p.body[f]) + 1
    BY <2>1
  <2> QED BY <2>2, DepthFacts
<1>3. \A k \in Nat : from + 1 # NoDepth /\ from + 1 + k # NoDepth
  BY DEF NoDepth
<1>4. \A v \in Var : depth[v] # NoDepth => depth1[v] = depth[v]
  BY DEF Keeps, Declared
<1> QED BY <1>1, <1>2, <1>3, <1>4 DEF PlacedUpTo

LEMMA PlacedNext ==
  ASSUME NEW p \in Programs, NEW depth, NEW from, NEW f \in Fun, NEW i \in Nat
  PROVE  /\ /\ PlacedUpTo(p, depth, from, f, i)
            /\ i \in Where(p, f, "var") => depth[OfAt(p, f, i)] = from + 1 + Depth(p, f, i)
            => PlacedUpTo(p, depth, from, f, i + 1)
         /\ (\A v \in p.formals[f] : depth[v] = from + 1) => PlacedUpTo(p, depth, from, f, 1)
<1>1. \A j \in Where(p, f, "var") : j \in Nat \ {0}
  BY ItemTypes
<1>2. \A j \in Where(p, f, "var") : ~(j < 1) /\ (j < i + 1 => j < i \/ j = i)
  BY <1>1
<1> QED BY <1>2 DEF PlacedUpTo

\* The text does not change.
LEMMA SameText ==
  ASSUME UNCHANGED program
  PROVE  /\ Present' = Present
         /\ \A v : UsedByInner(v)' = UsedByInner(v) /\ UsedDeeper(v)' = UsedDeeper(v)
         /\ \A f : Declares(f)' = Declares(f)
BY DEF Present, UsedByInner, UsedDeeper, Declares, Uses

\* What has to be shown of a step of EscapesVisitor.
LEMMA FlagKept ==
  ASSUME program \in Programs, FlagInv, phase = "escapes", UNCHANGED <<program, phase>>, FlagTypes',
         Keeps(vars_scope_, vars_scope_', escape_, escape_'),
         \E start \in [1..Len(stack') -> Nat] :
           Nesting(program, stack', start, scope_') /\ Placed(program, stack', start, vars_scope_'),
         \A f \in Visited(program, stack') : f \in Fun,
         \A f \in Visited(program, stack') \ Visited(program, stack) :
           FlaggedUpTo(program, vars_scope_, escape_, f, Len(program.body[f]) + 1),
         \A d \in Bodies(stack') :
           FlaggedUpTo(program, vars_scope_', escape_', Level(stack', d).function, Level(stack', d).at),
         NotYet(program, stack', vars_scope_'),
         \A v \in Var : Declared(vars_scope_', v) /\ escape_'[v] =>
           (Declared(vars_scope_, v) /\ escape_[v]) \/ UsedByInner(v) \/ UsedDeeper(v)
  PROVE  FlagInv'
<1>1. /\ \A f \in Visited(program, stack) :
           FlaggedUpTo(program, vars_scope_, escape_, f, Len(program.body[f]) + 1)
      /\ \A v \in Var : Declared(vars_scope_, v) /\ escape_[v] => UsedByInner(v) \/ UsedDeeper(v)
  BY DEF FlagInv
<1>2. \A f \in Visited(program, stack') :
        FlaggedUpTo(program, vars_scope_', escape_', f, Len(program.body[f]) + 1)
  BY <1>1, FlaggedKept
<1>3. \A v \in Var : Declared(vars_scope_', v) /\ escape_'[v] => UsedByInner(v)' \/ UsedDeeper(v)'
  BY <1>1, SameText
<1>4. phase' = "escapes" /\ program' = program
  OBVIOUS
<1>5. (\E start \in [1..Len(stack) -> Nat] :
            Nesting(program, stack, start, scope_) /\ Placed(program, stack, start, vars_scope_))'
  BY <1>4
<1>6. (\A f \in Visited(program, stack) :
            FlaggedUpTo(program, vars_scope_, escape_, f, Len(program.body[f]) + 1))'
  BY <1>2, <1>4
<1>7. (\A d \in Bodies(stack) :
            FlaggedUpTo(program, vars_scope_, escape_, Level(stack, d).function, Level(stack, d).at))'
  BY <1>4
<1>8. NotYet(program, stack, vars_scope_)'
  BY <1>4
<1>9. (\A v \in Var :
            Declared(vars_scope_, v) /\ escape_[v] => UsedByInner(v) \/ UsedDeeper(v))'
  BY <1>3
<1> QED BY <1>4, <1>5, <1>6, <1>7, <1>8, <1>9 DEF FlagInv

\* The visit of the ith item of f.
ItemDone(p, f, i, from, depth, depth1, flags1) ==
  /\ i \in Where(p, f, "var") => depth1[OfAt(p, f, i)] = from + 1 + Depth(p, f, i)
  /\ i \in Where(p, f, "use") =>
       Declared(depth1, OfAt(p, f, i)) /\ (DeepUse(p, f, i) => flags1[OfAt(p, f, i)])
  /\ \A v \in Var : Declared(depth1, v) =>
       Declared(depth, v) \/ (i \in Where(p, f, "var") /\ v = OfAt(p, f, i))

\* It leaves undeclared what is ahead.
LEMMA NotYetItem ==
  ASSUME NEW p \in Programs, NEW s \in Seq(Frame), Path(p, s), NEW t, PastItem(p, s, t),
         NEW depth, NEW depth1, NEW flags1, NEW from, NotYet(p, s, depth), Len(s) \in Bodies(s),
         ItemDone(p, Level(s, Len(s)).function, Level(s, Len(s)).at, from, depth, depth1, flags1)
  PROVE  NotYet(p, t, depth1)
<1> DEFINE n == Len(s)
           x == Level(s, n)
           f == x.function
           i == x.at
<1>1. /\ Bodies(t) = Bodies(s) /\ OnStack(t) = OnStack(s) /\ Visited(p, t) = Visited(p, s)
      /\ Level(t, n) = Past(x) /\ \A d \in Bodies(s) \ {n} : Level(t, d) = Level(s, d)
  BY DEF PastItem
<1>2. x \in Frame /\ x.is = "function"
  BY LevelIn DEF Bodies
<1>3. f \in Fun /\ i \in Nat /\ Past(x).function = f /\ Past(x).at = i + 1
  BY <1>2, FrameFacts
<1>4. \A d \in Bodies(s) : Level(s, d).function \in Fun
  BY LevelIn, FrameFacts DEF Bodies
<1>5. \A d \in Bodies(s) \ {n} : Level(s, d).function # f
  BY DEF Path
<1>6. f \in OnStack(s)
  BY DEF OnStack
<1>7. \A v \in Var : Declared(depth1, v) =>
        Declared(depth, v) \/ (i \in Where(p, f, "var") /\ v = OfAt(p, f, i))
  BY DEF ItemDone
<1>8. /\ \A d \in Bodies(s) : \A j \in Where(p, Level(s, d).function, "var") :
           j >= Level(s, d).at => ~Declared(depth, OfAt(p, Level(s, d).function, j))
      /\ \A g \in Inside(p, Main) \ (Visited(p, s) \cup OnStack(s)) :
           \A v \in DeclaredIn(p, g) : ~Declared(depth, v)
  BY DEF NotYet
<1> HIDE DEF n, x, f, i
<1>9. \A g \in Fun \ {f} : \A v \in DeclaredIn(p, g) : Declared(depth1, v) => Declared(depth, v)
  <2>1. \A g \in Fun \ {f} : DeclaredIn(p, g) \subseteq Var /\ DeclaredIn(p, f) \cap DeclaredIn(p, g) = {}
    BY <1>3, VarsApart
  <2>2. i \in Where(p, f, "var") => OfAt(p, f, i) \in DeclaredIn(p, f)
    BY <1>3, VarsApart
  <2> QED BY <1>7, <2>1, <2>2
<1>10. ASSUME NEW d \in Bodies(s) \ {n}, NEW j \in Where(p, Level(t, d).function, "var"),
              j >= Level(t, d).at
       PROVE  ~Declared(depth1, OfAt(p, Level(t, d).function, j))
  <2>1. Level(t, d) = Level(s, d)
    BY <1>1
  <2>2. ~Declared(depth, OfAt(p, Level(s, d).function, j))
    BY <1>8, <1>10, <2>1
  <2>3. Level(s, d).function \in Fun \ {f}
    BY <1>4, <1>5
  <2>4. OfAt(p, Level(s, d).function, j) \in DeclaredIn(p, Level(s, d).function)
    BY <2>1, <2>3, VarsApart
  <2> QED BY <1>9, <2>1, <2>2, <2>3, <2>4
<1>11. ASSUME NEW j \in Where(p, f, "var"), j >= i + 1
       PROVE  ~Declared(depth1, OfAt(p, f, j))
  <2>1. j \in Nat
    BY <1>3, ItemTypes
  <2>2. j >= i /\ j # i
    BY <1>3, <1>11, <2>1
  <2>3. ~Declared(depth, OfAt(p, f, j))
    BY <1>8, <2>2 DEF n, x, f, i
  <2>4. i \in Where(p, f, "var") => OfAt(p, f, j) # OfAt(p, f, i)
    BY <1>3, <2>2, VarsApart
  <2>5. OfAt(p, f, j) \in Var
    BY <1>3, ItemTypes
  <2> QED BY <1>7, <2>3, <2>4, <2>5
<1>12. \A d \in Bodies(t) : \A j \in Where(p, Level(t, d).function, "var") :
         j >= Level(t, d).at => ~Declared(depth1, OfAt(p, Level(t, d).function, j))
  <2>1. \A j \in Where(p, Level(t, n).function, "var") :
          j >= Level(t, n).at => ~Declared(depth1, OfAt(p, Level(t, n).function, j))
    BY <1>1, <1>3, <1>11
  <2>2. \A d \in Bodies(t) : d = n \/ d \in Bodies(s) \ {n}
    BY <1>1
  <2> QED BY <1>10, <2>1, <2>2
<1>13. \A g \in Inside(p, Main) \ (Visited(p, t) \cup OnStack(t)) :
         \A v \in DeclaredIn(p, g) : ~Declared(depth1, v)
  <2>1. \A g \in Inside(p, Main) : g \in Fun
    BY InsideFacts, LiftingAssumption
  <2> QED BY <1>1, <1>6, <1>8, <1>9, <2>1
<1> QED BY <1>12, <1>13 DEF NotYet

\* The visitor goes past an item.
LEMMA FlagItem ==
  ASSUME WalkInv, FlagInv, phase = "escapes", UNCHANGED <<program, phase>>, FlagTypes',
         stack # <<>>, Len(stack) \in Bodies(stack), PastItem(program, stack, stack'),
         NEW start \in [1..Len(stack) -> Nat], Placed(program, stack, start, vars_scope_),
         NEW start1 \in [1..Len(stack') -> Nat], \A d \in Bodies(stack) : start1[d] = start[d],
         Nesting(program, stack', start1, scope_'),
         Keeps(vars_scope_, vars_scope_', escape_, escape_'),
         ItemDone(program, Top.function, Top.at, start[Len(stack)], vars_scope_, vars_scope_', escape_'),
         \A v \in Var : Declared(vars_scope_', v) /\ escape_'[v] =>
           (Declared(vars_scope_, v) /\ escape_[v]) \/ UsedByInner(v) \/ UsedDeeper(v)
  PROVE  FlagInv'
<1> DEFINE n == Len(stack)
           f == Top.function
           i == Top.at
<1>1. /\ program \in Programs /\ stack \in Seq(Frame) /\ n \in Nat \ {0}
      /\ Top = Level(stack, n) /\ Top \in Frame /\ Path(program, stack)
  BY StackTop
<1>2. /\ Bodies(stack') = Bodies(stack) /\ Visited(program, stack') = Visited(program, stack)
      /\ Level(stack', n) = Past(Top)
      /\ \A d \in Bodies(stack) \ {n} : Level(stack', d) = Level(stack, d)
  BY <1>1 DEF PastItem
<1>3. f \in Fun /\ i \in Nat /\ Past(Top).at = i + 1 /\ Past(Top).function = f
  BY <1>1, FrameFacts DEF Bodies
<1>4. \A d \in Bodies(stack) : Level(stack, d).function \in Fun /\ start[d] \in Nat
  BY <1>1, LevelIn, FrameFacts DEF Bodies
<1>5. /\ \A d \in Bodies(stack) :
           FlaggedUpTo(program, vars_scope_, escape_, Level(stack, d).function, Level(stack, d).at)
      /\ NotYet(program, stack, vars_scope_)
  BY DEF FlagInv
<1>6. \A d \in Bodies(stack) :
        PlacedUpTo(program, vars_scope_, start[d], Level(stack, d).function, Level(stack, d).at)
  BY DEF Placed
<1>7. NotYet(program, stack', vars_scope_')
  BY <1>1, <1>5, NotYetItem
<1>8. ItemDone(program, f, i, start[n], vars_scope_, vars_scope_', escape_') /\ n \in Bodies(stack)
  OBVIOUS
<1> HIDE DEF n, f, i
<1>9. start[n] + 1 \in Nat /\ start[n] \in Nat
  BY <1>4, <1>8
<1>a. \A k \in Nat : start[n] + 1 + k # NoDepth
  BY <1>9 DEF NoDepth
<1>10. i \in Where(program, f, "var") => Declared(vars_scope_', OfAt(program, f, i))
  <2>1. \A j \in Where(program, f, "var") : Depth(program, f, j) \in Nat
    <3>1. Len(program.body[f]) \in Nat /\ Where(program, f, "var") \subseteq 1..Len(program.body[f])
      BY <1>1, <1>3, ItemTypes
    <3>2. \A j \in Where(program, f, "var") : j \in 1..Len(program.body[f]) + 1
      BY <3>1
    <3> QED BY <1>1, <1>3, <3>2, DepthFacts
  <2> QED BY <1>8, <1>a, <2>1 DEF ItemDone, Declared
<1>11. FlaggedUpTo(program, vars_scope_', escape_', f, i + 1)
  <2>1. FlaggedUpTo(program, vars_scope_, escape_, f, i)
    BY <1>1, <1>5, <1>8 DEF f, i
  <2>2. FlaggedUpTo(program, vars_scope_', escape_', f, i)
    BY <1>1, <1>3, <2>1, FlaggedKept
  <2>3. i \in Where(program, f, "use") =>
          /\ Declared(vars_scope_', OfAt(program, f, i))
          /\ DeepUse(program, f, i) => escape_'[OfAt(program, f, i)]
    BY <1>8 DEF ItemDone
  <2> QED BY <1>1, <1>3, <1>10, <2>2, <2>3, FlaggedNext
<1>12. PlacedUpTo(program, vars_scope_', start[n], f, i + 1)
  <2>1. PlacedUpTo(program, vars_scope_, start[n], f, i)
    BY <1>1, <1>6, <1>8 DEF f, i
  <2>2. PlacedUpTo(program, vars_scope_', start[n], f, i)
    BY <1>1, <1>3, <1>9, <2>1, PlacedKept
  <2>3. i \in Where(program, f, "var") =>
          vars_scope_'[OfAt(program, f, i)] = start[n] + 1 + Depth(program, f, i)
    BY <1>8 DEF ItemDone
  <2> QED BY <1>1, <1>3, <2>2, <2>3, PlacedNext
<1>13. ASSUME NEW d \in Bodies(stack')
       PROVE  /\ FlaggedUpTo(program, vars_scope_', escape_', Level(stack', d).function, Level(stack', d).at)
              /\ PlacedUpTo(program, vars_scope_', start1[d], Level(stack', d).function, Level(stack', d).at)
  <2>1. CASE d = n
    BY <1>2, <1>3, <1>8, <1>11, <1>12, <2>1
  <2>2. CASE d # n
    <3>1. d \in Bodies(stack) /\ Level(stack', d) = Level(stack, d) /\ start1[d] = start[d]
      BY <1>2, <2>2
    <3>2. Level(stack, d).function \in Fun /\ start[d] \in Nat
      BY <1>4, <3>1
    <3>3. FlaggedUpTo(program, vars_scope_', escape_', Level(stack, d).function, Level(stack, d).at)
      BY <1>1, <1>5, <3>1, <3>2, FlaggedKept
    <3>4. PlacedUpTo(program, vars_scope_', start[d], Level(stack, d).function, Level(stack, d).at)
      BY <1>1, <1>6, <3>1, <3>2, PlacedKept
    <3> QED BY <3>1, <3>3, <3>4
  <2> QED BY <2>1, <2>2
<1>14. Placed(program, stack', start1, vars_scope_')
  BY <1>13 DEF Placed
<1>15. \A g \in Visited(program, stack') : g \in Fun
  BY <1>1, <1>2, VisitedIsOver
<1> QED BY <1>1, <1>2, <1>7, <1>13, <1>14, <1>15, FlagKept

\* Variables that are new are declared; nothing else changes.
LEMMA DeclaresNew ==
  ASSUME FlagTypes, NEW vs \in SUBSET Var, NEW depth \in Nat, DeclareAt(vs, depth),
         \A v \in vs : ~Declared(vars_scope_, v)
  PROVE  /\ vars_scope_' \in [Var -> Nat \cup {NoDepth}] /\ escape_' \in [Var -> BOOLEAN]
         /\ Keeps(vars_scope_, vars_scope_', escape_, escape_')
         /\ \A v \in vs : vars_scope_'[v] = depth /\ Declared(vars_scope_', v)
         /\ \A v \in Var : Declared(vars_scope_', v) => Declared(vars_scope_, v) \/ v \in vs
         /\ \A v \in Var : Declared(vars_scope_', v) /\ escape_'[v] =>
              Declared(vars_scope_, v) /\ escape_[v]
<1>1. vars_scope_ \in [Var -> Nat \cup {NoDepth}] /\ escape_ \in [Var -> BOOLEAN]
  BY DEF FlagTypes
<1>2. /\ vars_scope_' = [v \in Var |-> IF v \in vs THEN depth ELSE vars_scope_[v]]
      /\ escape_' = [v \in Var |-> v \notin vs /\ escape_[v]]
  BY DEF DeclareAt
<1>3. vars_scope_' \in [Var -> Nat \cup {NoDepth}] /\ escape_' \in [Var -> BOOLEAN]
  BY <1>1, <1>2
<1>4. \A v \in Var : vars_scope_'[v] = IF v \in vs THEN depth ELSE vars_scope_[v]
  BY <1>2
<1>5. \A v \in Var : escape_'[v] <=> v \notin vs /\ escape_[v]
  BY <1>2, Zenon
<1>6. depth # NoDepth
  BY DEF NoDepth
<1>7. Keeps(vars_scope_, vars_scope_', escape_, escape_')
  BY <1>4, <1>5 DEF Keeps
<1>8. \A v \in vs : vars_scope_'[v] = depth /\ Declared(vars_scope_', v)
  BY <1>4, <1>6 DEF Declared
<1>9. \A v \in Var : Declared(vars_scope_', v) => Declared(vars_scope_, v) \/ v \in vs
  BY <1>4 DEF Declared
<1>10. \A v \in Var : Declared(vars_scope_', v) /\ escape_'[v] =>
              Declared(vars_scope_, v) /\ escape_[v]
  BY <1>5, <1>9
<1> QED BY <1>3, <1>7, <1>8, <1>9, <1>10

\* It enters a function.
LEMMA FlagEnter ==
  ASSUME WalkInv, FlagInv, phase = "escapes", UNCHANGED <<program, phase>>, scope_' \in Nat,
         NEW f \in Fun, FunctionEntered(program, stack, stack', f),
         DeclareAt(program.formals[f], scope_'), stack # <<>>,
         NEW start \in [1..Len(stack) -> Nat], Placed(program, stack, start, vars_scope_),
         NEW start1 \in [1..Len(stack') -> Nat], \A d \in Bodies(stack) : start1[d] = start[d],
         scope_' = start1[Len(stack) + 1] + 1, Nesting(program, stack', start1, scope_')
  PROVE  FlagInv'
<1> DEFINE n == Len(stack)
           vs == program.formals[f]
           D == DeclaredIn(program, f)
<1>1. /\ program \in Programs /\ stack \in Seq(Frame) /\ n \in Nat \ {0} /\ Path(program, stack)
  BY StackTop
<1>2. /\ f \in Inside(program, Main) \ (OnStack(stack) \cup Visited(program, stack))
      /\ Bodies(stack') = Bodies(stack) \cup {n + 1} /\ n + 1 \notin Bodies(stack)
      /\ OnStack(stack') = OnStack(stack) \cup {f}
      /\ Visited(program, stack') = Visited(program, stack)
      /\ Level(stack', n + 1).function = f /\ Level(stack', n + 1).at = 1
      /\ \A d \in Bodies(stack) : Level(stack', d) = Level(stack, d)
  BY DEF FunctionEntered
<1>3. /\ \A d \in Bodies(stack) :
           FlaggedUpTo(program, vars_scope_, escape_, Level(stack, d).function, Level(stack, d).at)
      /\ NotYet(program, stack, vars_scope_) /\ FlagTypes
  BY DEF FlagInv
<1>4. /\ \A d \in Bodies(stack) : \A j \in Where(program, Level(stack, d).function, "var") :
           j >= Level(stack, d).at => ~Declared(vars_scope_, OfAt(program, Level(stack, d).function, j))
      /\ \A g \in Inside(program, Main) \ (Visited(program, stack) \cup OnStack(stack)) :
           \A v \in DeclaredIn(program, g) : ~Declared(vars_scope_, v)
  BY <1>3 DEF NotYet
<1>5. \A v \in D : ~Declared(vars_scope_, v)
  BY <1>2, <1>4
<1>6. vs \subseteq D /\ D \subseteq Var
  BY <1>1, VarsApart DEF DeclaredIn
<1>7. /\ vars_scope_' \in [Var -> Nat \cup {NoDepth}] /\ escape_' \in [Var -> BOOLEAN]
      /\ Keeps(vars_scope_, vars_scope_', escape_, escape_')
      /\ \A v \in vs : vars_scope_'[v] = scope_' /\ Declared(vars_scope_', v)
      /\ \A v \in Var : Declared(vars_scope_', v) => Declared(vars_scope_, v) \/ v \in vs
      /\ \A v \in Var : Declared(vars_scope_', v) /\ escape_'[v] =>
           Declared(vars_scope_, v) /\ escape_[v]
  <2>1. vs \in SUBSET Var /\ \A v \in vs : ~Declared(vars_scope_, v)
    BY <1>5, <1>6
  <2> QED BY <1>3, <2>1, DeclaresNew
<1>8. FlagTypes'
  BY <1>7 DEF FlagTypes
<1>9. \A d \in Bodies(stack) : Level(stack, d).function \in Fun \ {f} /\ start[d] \in Nat
  <2>1. \A d \in Bodies(stack) : Level(stack, d).function \in Fun /\ start[d] \in Nat
    BY <1>1, LevelIn, FrameFacts DEF Bodies
  <2> QED BY <1>2, <2>1 DEF OnStack
<1> HIDE DEF n, vs, D
<1>10. \A g \in Fun \ {f} : \A v \in DeclaredIn(program, g) :
         Declared(vars_scope_', v) => Declared(vars_scope_, v)
  <2>1. \A g \in Fun \ {f} : DeclaredIn(program, g) \subseteq Var /\ D \cap DeclaredIn(program, g) = {}
    BY <1>1, VarsApart DEF D
  <2> QED BY <1>6, <1>7, <2>1
<1>11. \A j \in Where(program, f, "var") : ~Declared(vars_scope_', OfAt(program, f, j))
  <2>1. \A j \in Where(program, f, "var") : OfAt(program, f, j) \in D /\ OfAt(program, f, j) \notin vs
    BY <1>1, VarsApart DEF D, vs
  <2> QED BY <1>5, <1>6, <1>7, <2>1
<1>12. NotYet(program, stack', vars_scope_')
  <2>1. ASSUME NEW d \in Bodies(stack), NEW j \in Where(program, Level(stack, d).function, "var"),
               j >= Level(stack, d).at
        PROVE  ~Declared(vars_scope_', OfAt(program, Level(stack, d).function, j))
    <3>1. OfAt(program, Level(stack, d).function, j) \in DeclaredIn(program, Level(stack, d).function)
      BY <1>1, <1>9, VarsApart
    <3> QED BY <1>4, <1>9, <1>10, <2>1, <3>1
  <2>2. \A d \in Bodies(stack') : \A j \in Where(program, Level(stack', d).function, "var") :
          j >= Level(stack', d).at => ~Declared(vars_scope_', OfAt(program, Level(stack', d).function, j))
    BY <1>2, <1>11, <2>1
  <2>3. \A g \in Inside(program, Main) \ (Visited(program, stack') \cup OnStack(stack')) :
          \A v \in DeclaredIn(program, g) : ~Declared(vars_scope_', v)
    <3>1. \A g \in Inside(program, Main) : g \in Fun
      BY <1>1, InsideFacts, LiftingAssumption
    <3> QED BY <1>2, <1>4, <1>10, <3>1
  <2> QED BY <2>2, <2>3 DEF NotYet
<1>13. 1 \in Nat
  OBVIOUS
<1>14. FlaggedUpTo(program, vars_scope_', escape_', f, 1)
  BY <1>1, <1>7, <1>13, FlaggedNext DEF vs
<1>15. PlacedUpTo(program, vars_scope_', start1[n + 1], f, 1)
  <2>1. \A v \in program.formals[f] : vars_scope_'[v] = start1[n + 1] + 1
    BY <1>7 DEF vs, n
  <2> QED BY <1>1, <1>13, <2>1, PlacedNext
<1>16. ASSUME NEW d \in Bodies(stack)
       PROVE  /\ FlaggedUpTo(program, vars_scope_', escape_', Level(stack, d).function, Level(stack, d).at)
              /\ PlacedUpTo(program, vars_scope_', start[d], Level(stack, d).function, Level(stack, d).at)
  <2>1. FlaggedUpTo(program, vars_scope_', escape_', Level(stack, d).function, Level(stack, d).at)
    BY <1>1, <1>3, <1>7, <1>9, FlaggedKept
  <2>2. PlacedUpTo(program, vars_scope_, start[d], Level(stack, d).function, Level(stack, d).at)
    BY DEF Placed
  <2>3. PlacedUpTo(program, vars_scope_', start[d], Level(stack, d).function, Level(stack, d).at)
    BY <1>1, <1>7, <1>9, <2>2, PlacedKept
  <2> QED BY <2>1, <2>3
<1>17. \A d \in Bodies(stack') :
         FlaggedUpTo(program, vars_scope_', escape_', Level(stack', d).function, Level(stack', d).at)
  BY <1>2, <1>14, <1>16
<1>18. Placed(program, stack', start1, vars_scope_')
  <2>1. \A d \in Bodies(stack') :
          PlacedUpTo(program, vars_scope_', start1[d], Level(stack', d).function, Level(stack', d).at)
    BY <1>2, <1>15, <1>16
  <2> QED BY <2>1 DEF Placed
<1>19. \A g \in Visited(program, stack') : g \in Fun
  BY <1>1, <1>2, VisitedIsOver
<1> QED BY <1>1, <1>2, <1>7, <1>8, <1>12, <1>17, <1>18, <1>19, FlagKept

\* It moves from one body to another, and only the depth changes.
LEMMA FlagQuiet ==
  ASSUME WalkInv, FlagInv, phase = "escapes",
         UNCHANGED <<program, phase, vars_scope_, escape_>>, scope_' \in Nat, stack # <<>>,
         \/ SameBodies(program, stack, stack') /\ Visited(program, stack') = Visited(program, stack)
         \/ \E f \in Fun : FunctionLeft(program, stack, stack', f),
         NEW start \in [1..Len(stack) -> Nat], Placed(program, stack, start, vars_scope_),
         NEW start1 \in [1..Len(stack') -> Nat], \A d \in Bodies(stack') : start1[d] = start[d],
         Nesting(program, stack', start1, scope_')
  PROVE  FlagInv'
<1>1. /\ program \in Programs /\ stack \in Seq(Frame) /\ Path(program, stack)
  BY StackTop
<1>2. /\ \A d \in Bodies(stack) :
           FlaggedUpTo(program, vars_scope_, escape_, Level(stack, d).function, Level(stack, d).at)
      /\ NotYet(program, stack, vars_scope_) /\ FlagTypes
  BY DEF FlagInv
<1>3. \A g \in Visited(program, stack) : g \in Fun
  BY <1>1, VisitedIsOver
<1>4. FlagTypes'
  BY <1>2 DEF FlagTypes
<1>5. Keeps(vars_scope_, vars_scope_', escape_, escape_')
  BY DEF Keeps
<1>6. /\ Bodies(stack') \subseteq Bodies(stack)
      /\ \A d \in Bodies(stack') : Level(stack', d) = Level(stack, d)
      /\ Visited(program, stack) \cup OnStack(stack) \subseteq Visited(program, stack') \cup OnStack(stack')
      /\ \A g \in Visited(program, stack') : g \in Fun
      /\ \A g \in Visited(program, stack') \ Visited(program, stack) :
           FlaggedUpTo(program, vars_scope_, escape_, g, Len(program.body[g]) + 1)
  <2>1. CASE SameBodies(program, stack, stack') /\ Visited(program, stack') = Visited(program, stack)
    BY <1>3, <2>1 DEF SameBodies
  <2>2. CASE \E f \in Fun : FunctionLeft(program, stack, stack', f)
    <3>1. PICK f \in Fun : FunctionLeft(program, stack, stack', f)
      BY <2>2
    <3>2. /\ Len(stack) \in Bodies(stack) /\ Level(stack, Len(stack)).function = f
          /\ Level(stack, Len(stack)).at = Len(program.body[f]) + 1
          /\ Bodies(stack') = Bodies(stack) \ {Len(stack)} /\ OnStack(stack') = OnStack(stack) \ {f}
          /\ Visited(program, stack') = Visited(program, stack) \cup {f}
          /\ \A d \in Bodies(stack') : Level(stack', d) = Level(stack, d)
      BY <3>1 DEF FunctionLeft
    <3>3. FlaggedUpTo(program, vars_scope_, escape_, f, Len(program.body[f]) + 1)
      BY <1>2, <3>2
    <3>4. \A g \in Visited(program, stack') \ Visited(program, stack) : g = f
      BY <3>2
    <3>5. Visited(program, stack) \cup OnStack(stack) \subseteq Visited(program, stack') \cup OnStack(stack')
      BY <3>2
    <3>6. \A g \in Visited(program, stack') : g \in Fun
      BY <1>3, <3>2
    <3>7. Bodies(stack') \subseteq Bodies(stack)
      BY <3>2
    <3>8. \A g \in Visited(program, stack') \ Visited(program, stack) :
           FlaggedUpTo(program, vars_scope_, escape_, g, Len(program.body[g]) + 1)
      BY <3>3, <3>4
    <3> QED BY <3>2, <3>5, <3>6, <3>7, <3>8
  <2> QED BY <2>1, <2>2
<1>7. NotYet(program, stack', vars_scope_')
  BY <1>2, <1>6 DEF NotYet
<1>8. Placed(program, stack', start1, vars_scope_')
  BY <1>6 DEF Placed
<1>9. \A d \in Bodies(stack') :
        FlaggedUpTo(program, vars_scope_', escape_', Level(stack', d).function, Level(stack', d).at)
  BY <1>2, <1>6
<1> QED BY <1>1, <1>4, <1>5, <1>6, <1>7, <1>8, <1>9, FlagKept

\* A use finds its variable at a depth that is less than its own if and only if
\* the use is deeper in the text.
LEMMA OwnDepth ==
  ASSUME NEW p \in Programs, NEW f \in Fun, NEW i \in Where(p, f, "use"), NEW from \in Nat, NEW depth,
         PlacedUpTo(p, depth, from, f, i), SeesVar(p, OfAt(p, f, i), f, i)
  PROVE  /\ depth[OfAt(p, f, i)] \in Nat
         /\ depth[OfAt(p, f, i)] < from + 1 + Depth(p, f, i) <=> DeepUse(p, f, i)
<1> DEFINE v == OfAt(p, f, i)
           k == Depth(p, f, i)
<1>1. /\ Len(p.body[f]) \in Nat /\ Where(p, f, "var") \subseteq 1..Len(p.body[f])
      /\ Where(p, f, "use") \subseteq 1..Len(p.body[f])
  BY ItemTypes
<1>2. \A j \in Where(p, f, "var") \cup Where(p, f, "use") : j \in 1..Len(p.body[f]) + 1
  BY <1>1
<1>3. \A j \in Where(p, f, "var") \cup Where(p, f, "use") : Depth(p, f, j) \in Nat
  BY <1>2, DepthFacts
<1>4. k \in Nat
  BY <1>3
<1>5. \A j \in Where(p, f, "var") :
        /\ OfAt(p, f, j) \in DeclaredIn(p, f) /\ OfAt(p, f, j) \notin p.formals[f]
        /\ \A l \in Where(p, f, "var") : OfAt(p, f, j) = OfAt(p, f, l) => j = l
  BY VarsApart
<1>6. /\ \A w \in p.formals[f] : depth[w] = from + 1
      /\ \A j \in Where(p, f, "var") : j < i => depth[OfAt(p, f, j)] = from + 1 + Depth(p, f, j)
  BY DEF PlacedUpTo
<1>7. DeepUse(p, f, i) <=>
        \/ v \notin DeclaredIn(p, f)
        \/ v \in p.formals[f] /\ k > 0
        \/ \E j \in Where(p, f, "var") : OfAt(p, f, j) = v /\ Depth(p, f, j) < k
  BY DEF DeepUse
<1>8. v \in p.formals[f] \/ \E j \in Where(p, f, "var") : j < i /\ OfAt(p, f, j) = v
  BY DEF SeesVar
<1> HIDE DEF v, k
<1>9. CASE v \in p.formals[f]
  <2>1. DeepUse(p, f, i) <=> k > 0
    BY <1>5, <1>7, <1>9 DEF DeclaredIn
  <2>2. depth[v] = from + 1
    BY <1>6, <1>9
  <2>3. depth[v] \in Nat /\ (depth[v] < from + 1 + k <=> k > 0)
    BY <1>4, <2>2
  <2> QED BY <2>1, <2>3 DEF v, k
<1>10. CASE \E j \in Where(p, f, "var") : j < i /\ OfAt(p, f, j) = v
  <2>1. PICK j \in Where(p, f, "var") : j < i /\ OfAt(p, f, j) = v
    BY <1>10
  <2>2. DeepUse(p, f, i) <=> Depth(p, f, j) < k
    BY <1>5, <1>7, <2>1
  <2>3. depth[v] = from + 1 + Depth(p, f, j) /\ Depth(p, f, j) \in Nat
    BY <1>3, <1>6, <2>1
  <2> DEFINE l == Depth(p, f, j)
  <2> HIDE DEF l
  <2>4. depth[v] = from + 1 + l /\ l \in Nat
    BY <2>3 DEF l
  <2>5. depth[v] \in Nat /\ (depth[v] < from + 1 + k <=> l < k)
    BY <1>4, <2>4
  <2> QED BY <2>2, <2>5 DEF v, k, l
<1> QED BY <1>8, <1>9, <1>10

LEMMA OuterDepth ==
  ASSUME NEW p \in Programs, NEW s \in Seq(Frame), Path(p, s), NEW start \in [1..Len(s) -> Nat],
         NEW scope, Nesting(p, s, start, scope), NEW depth, Placed(p, s, start, depth),
         Len(s) \in Bodies(s), NEW h \in Fun, NEW m \in Where(p, h, "functions"),
         NEW g \in Elements(OfAt(p, h, m)), Level(s, Len(s)).function \in Inside(p, g),
         NEW v, SeesVar(p, v, h, m)
  PROVE  /\ depth[v] \in Nat /\ depth[v] <= start[Len(s)]
         /\ v \in DeclaredIn(p, h) /\ h # Level(s, Len(s)).function
<1>1. /\ Len(p.body[h]) \in Nat /\ Where(p, h, "var") \subseteq 1..Len(p.body[h])
      /\ m \in 1..Len(p.body[h])
  BY ItemTypes
<1>2. \A j \in 1..Len(p.body[h]) + 1 : Depth(p, h, j) \in Nat
  BY DepthFacts
<1>3. PICK e \in Bodies(s) :
        /\ e - 2 \in Bodies(s) /\ Level(s, e - 2).function = h /\ Level(s, e - 2).at - 1 = m
        /\ Level(s, e - 2).is = "function"
  BY Around
<1> DEFINE n == Len(s)
           x == Level(s, n)
<1>4. x.function # h
  <2>1. e - 2 # n
    BY <1>3 DEF Bodies
  <2> QED BY <1>3, <2>1 DEF Path
<1>5. n \in Nat /\ e \in 1..n /\ e - 2 \in 1..n - 1
  BY <1>3 DEF Bodies
<1>6. PICK b \in 1..n - 1 : b = e - 2
  BY <1>5
<1>7. /\ Level(s, b).function = h /\ Level(s, b).at - 1 = m /\ b \in Bodies(s)
      /\ Level(s, b).is = "function" /\ Level(s, b) \in Frame /\ b + 1 \in 1..n
  BY <1>3, <1>5, <1>6, LevelIn DEF Bodies
<1>8. Level(s, b).at = m + 1
  <2>1. Level(s, b).at \in Nat
    BY <1>7, FrameFacts
  <2> QED BY <1>1, <1>7, <2>1
<1>9. Opened(p, Level(s, b), m) = 1 + Depth(p, h, m)
  <2>1. "function" # "chunk"
    OBVIOUS
  <2> QED BY <1>7, <2>1 DEF Opened
<1>10. start[b + 1] = start[b] + (1 + Depth(p, h, m)) /\ \A e1 \in b + 1..n : start[b + 1] <= start[e1]
  BY <1>7, <1>9 DEF Nesting
<1>11. start[b + 1] <= start[n]
  <2>1. n \in b + 1..n
    BY <1>5
  <2> QED BY <1>10, <2>1
<1>12. start[b] \in Nat /\ start[b + 1] \in Nat /\ start[n] \in Nat
  BY <1>5, <1>7
<1>13. /\ \A w \in p.formals[h] : depth[w] = start[b] + 1
       /\ \A j \in Where(p, h, "var") : j < m + 1 => depth[OfAt(p, h, j)] = start[b] + 1 + Depth(p, h, j)
  BY <1>7, <1>8 DEF Placed, PlacedUpTo
<1>14. Depth(p, h, m) \in Nat
  <2>1. m \in 1..Len(p.body[h]) + 1
    BY <1>1
  <2> QED BY <1>2, <2>1
<1> DEFINE a == start[b]
           c == start[b + 1]
           u == start[n]
           k == Depth(p, h, m)
<1>15. a \in Nat /\ u \in Nat /\ k \in Nat /\ a + (1 + k) <= u
  BY <1>10, <1>11, <1>12, <1>14
<1> HIDE DEF a, c, u, k
<1>16. CASE v \in p.formals[h]
  <2>1. depth[v] = a + 1
    BY <1>13, <1>16 DEF a
  <2>2. depth[v] \in Nat /\ depth[v] <= u
    BY <1>15, <2>1
  <2> QED BY <1>4, <1>16, <2>2 DEF u, DeclaredIn, x, n
<1>17. CASE \E j \in Where(p, h, "var") : j < m /\ OfAt(p, h, j) = v /\ StaysOpen(p, h, j, m)
  <2>1. PICK j \in Where(p, h, "var") : j < m /\ OfAt(p, h, j) = v /\ StaysOpen(p, h, j, m)
    BY <1>17
  <2>2. j \in 1..Len(p.body[h]) + 1 /\ j \in Nat /\ j < m + 1 /\ m \in j..m
    BY <1>1, <2>1
  <2>3. depth[v] = a + 1 + Depth(p, h, j)
    BY <1>13, <2>1, <2>2 DEF a
  <2>4. Depth(p, h, j) \in Nat /\ Depth(p, h, j) <= k
    BY <1>2, <2>1, <2>2 DEF StaysOpen, k
  <2> DEFINE l == Depth(p, h, j)
  <2> HIDE DEF l
  <2>5. depth[v] = a + 1 + l /\ l \in Nat /\ l <= k
    BY <2>3, <2>4 DEF l
  <2>6. depth[v] \in Nat /\ depth[v] <= u
    BY <1>15, <2>5
  <2> QED BY <1>4, <2>1, <2>6 DEF u, DeclaredIn, x, n
<1> QED BY <1>16, <1>17 DEF SeesVar

LEMMA UseDepth ==
  ASSUME NEW p \in Programs, NEW s \in Seq(Frame), Path(p, s), NEW start \in [1..Len(s) -> Nat],
         NEW scope, Nesting(p, s, start, scope), NEW depth, Placed(p, s, start, depth),
         Len(s) \in Bodies(s), NEW f, f = Level(s, Len(s)).function,
         NEW i \in Where(p, f, "use"), i = Level(s, Len(s)).at
  PROVE  /\ depth[OfAt(p, f, i)] \in Nat
         /\ depth[OfAt(p, f, i)] < scope <=> DeepUse(p, f, i)
<1> DEFINE n == Len(s)
           x == Level(s, n)
           v == OfAt(p, f, i)
           k == Depth(p, f, i)
<1>1. x \in Frame /\ x.is = "function" /\ n \in 1..Len(s) /\ s # <<>>
  BY LevelIn DEF Bodies
<1>2. f \in Fun
  BY <1>1, FrameFacts
<1>3. scope = start[n] + (1 + k)
  <2>1. "function" # "chunk"
    OBVIOUS
  <2> QED BY <1>1, <2>1 DEF Nesting, Opened
<1>4. start[n] \in Nat /\ k \in Nat
  <2>1. i \in 1..Len(p.body[f]) /\ Len(p.body[f]) \in Nat
    BY <1>2, ItemTypes
  <2>2. i \in 1..Len(p.body[f]) + 1
    BY <2>1
  <2> QED BY <1>1, <1>2, <2>2, DepthFacts
<1>5. PICK h \in Fun : \E m \in Items(p, h) : Within(p, f, i, h, m) /\ SeesVar(p, v, h, m)
  <2>1. Lexical(p)
    BY ScopingAssumption
  <2> QED BY <1>2, <2>1 DEF Lexical
<1>6. PICK m \in Items(p, h) : Within(p, f, i, h, m) /\ SeesVar(p, v, h, m)
  BY <1>5
<1>7. CASE f = h /\ i = m
  <2>1. PlacedUpTo(p, depth, start[n], f, i)
    BY DEF Placed
  <2>2. SeesVar(p, OfAt(p, f, i), f, i)
    BY <1>6, <1>7
  <2>3. depth[v] \in Nat /\ (depth[v] < start[n] + 1 + k <=> DeepUse(p, f, i))
    BY <1>2, <1>4, <2>1, <2>2, OwnDepth
  <2>4. start[n] + 1 + k = scope
    BY <1>3, <1>4
  <2> QED BY <2>3, <2>4
<1>8. CASE m \in Where(p, h, "functions") /\ \E g \in Elements(OfAt(p, h, m)) : f \in Inside(p, g)
  <2>1. PICK g \in Elements(OfAt(p, h, m)) : f \in Inside(p, g)
    BY <1>8
  <2>2. depth[v] \in Nat /\ depth[v] <= start[n] /\ v \in DeclaredIn(p, h) /\ h # f
    BY <1>6, <1>8, <2>1, OuterDepth
  <2>3. DeepUse(p, f, i)
    <3>1. DeclaredIn(p, h) \cap DeclaredIn(p, f) = {}
      BY <1>2, <2>2, VarsApart
    <3> QED BY <2>2, <3>1 DEF DeepUse
  <2> HIDE DEF n, k, v
  <2>4. depth[v] < scope
    BY <1>3, <1>4, <2>2
  <2> QED BY <2>2, <2>3, <2>4 DEF v
<1> QED BY <1>6, <1>7, <1>8 DEF Within

\* What a deep use is, of the program as a whole.
LEMMA DeepUses ==
  ASSUME NEW v
  PROVE  UsedByInner(v) \/ UsedDeeper(v)
           <=> \E f \in Present : \E i \in Where(program, f, "use") :
                 OfAt(program, f, i) = v /\ DeepUse(program, f, i)
<1>1. UsedByInner(v) <=> \E f \in Present : \E i \in Where(program, f, "use") :
        OfAt(program, f, i) = v /\ v \notin DeclaredIn(program, f)
  BY DEF UsedByInner, Uses, Declares
<1>2. UsedDeeper(v) <=> \E f \in Present : \E i \in Where(program, f, "use") :
        /\ OfAt(program, f, i) = v
        /\ \/ v \in program.formals[f] /\ Depth(program, f, i) > 0
           \/ \E j \in Where(program, f, "var") :
                OfAt(program, f, j) = v /\ Depth(program, f, j) < Depth(program, f, i)
  BY DEF UsedDeeper
<1>3. \A f : \A i : OfAt(program, f, i) = v =>
        (DeepUse(program, f, i) <=>
           \/ v \notin DeclaredIn(program, f)
           \/ v \in program.formals[f] /\ Depth(program, f, i) > 0
           \/ \E j \in Where(program, f, "var") :
                OfAt(program, f, j) = v /\ Depth(program, f, j) < Depth(program, f, i))
  BY DEF DeepUse
<1> QED BY <1>1, <1>2, <1>3

\* The depth in front of an item and behind it, and where it is kept.
LEMMA DepthAt ==
  ASSUME WalkInv, NEW op, Meets(op), op # "functions", GoesOn,
         NEW start \in [1..Len(stack) -> Nat], Nesting(program, stack, start, scope_)
  PROVE  LET n == Len(stack)
             f == Top.function
             i == Top.at
         IN  /\ program \in Programs /\ stack \in Seq(Frame) /\ Path(program, stack)
             /\ stack # <<>> /\ n \in Bodies(stack) /\ Len(stack') = n
             /\ f = Level(stack, n).function /\ i = Level(stack, n).at
             /\ f \in Fun /\ f \in Present /\ i \in Where(program, f, op) /\ i \in Nat
             /\ What = OfAt(program, f, i)
             /\ PastItem(program, stack, stack') /\ UNCHANGED <<program, phase>>
             /\ start[n] \in Nat /\ Depth(program, f, i) \in Nat /\ Depth(program, f, i + 1) \in Nat
             /\ scope_ = start[n] + 1 + Depth(program, f, i)
             /\ Nesting(program, stack', start, start[n] + 1 + Depth(program, f, i + 1))
<1> DEFINE n == Len(stack)
           f == Top.function
           i == Top.at
           y == Past(Top)
<1>1. /\ stack # <<>> /\ n \in Bodies(stack) /\ Top.is = "function" /\ f \in Fun
      /\ i \in Where(program, f, op) /\ What = OfAt(program, f, i)
  BY MetItem
<1>2. /\ program \in Programs /\ stack \in Seq(Frame) /\ n \in Nat \ {0}
      /\ Top = Level(stack, n) /\ Top \in Frame /\ Path(program, stack)
  BY <1>1, StackTop
<1>3. /\ Moves(stack, stack', y) /\ PastItem(program, stack, stack')
      /\ UNCHANGED <<program, phase>>
  BY OnPastItem
<1>4. i \in Nat /\ y.at = i + 1 /\ y.function = f /\ y.is = "function"
  BY <1>1, <1>2, FrameFacts
<1>5. f \in Present
  BY <1>1, <1>2 DEF Path, Present
<1>6. Len(stack') = n
  BY <1>3 DEF Moves
<1>7. start[n] \in Nat
  BY <1>2
<1>8. Opened(program, y, y.at) = 1 + Depth(program, f, i + 1)
  <2>1. "function" # "chunk"
    OBVIOUS
  <2> QED BY <1>4, <2>1 DEF Opened
<1>9. scope_ = start[n] + (1 + Depth(program, f, i))
  <2>1. "function" # "chunk"
    OBVIOUS
  <2> QED BY <1>1, <1>2, <2>1 DEF Nesting, Opened
<1>10. Depth(program, f, i) \in Nat /\ Depth(program, f, i + 1) \in Nat
  <2>1. Len(program.body[f]) \in Nat /\ i \in 1..Len(program.body[f])
    BY <1>1, <1>2, ItemTypes
  <2>2. i \in 1..Len(program.body[f]) + 1 /\ i + 1 \in 1..Len(program.body[f]) + 1
    BY <2>1
  <2> QED BY <1>1, <1>2, <2>2, DepthFacts
<1>11. Nesting(program, stack', start, start[n] + (1 + Depth(program, f, i + 1)))
  BY <1>3, <1>8, NestMoves
<1>a. f = Level(stack, n).function /\ i = Level(stack, n).at
  BY <1>2
<1> HIDE DEF n, f, i, y
<1>12. /\ scope_ = start[n] + 1 + Depth(program, f, i)
       /\ start[n] + (1 + Depth(program, f, i + 1)) = start[n] + 1 + Depth(program, f, i + 1)
  BY <1>7, <1>9, <1>10
<1> QED BY <1>1, <1>2, <1>3, <1>4, <1>5, <1>6, <1>7, <1>10, <1>11, <1>12, <1>a DEF n, f, i

\* It goes past something that is neither a declaration nor a use.
LEMMA FlagPlain ==
  ASSUME WalkInv, FlagInv, phase = "escapes", NEW op \in {"open", "close", "call"}, Meets(op), GoesOn,
         UNCHANGED <<vars_scope_, escape_>>,
         scope_' = IF op = "open" THEN scope_ + 1 ELSE IF op = "close" THEN scope_ - 1 ELSE scope_
  PROVE  FlagInv'
<1> DEFINE n == Len(stack)
           f == Top.function
           i == Top.at
<1>1. PICK start \in [1..Len(stack) -> Nat] :
        Nesting(program, stack, start, scope_) /\ Placed(program, stack, start, vars_scope_)
  BY DEF FlagInv
<1>a. op # "functions" /\ op # "var" /\ op # "use"
  OBVIOUS
<1>2. /\ program \in Programs /\ stack # <<>> /\ n \in Bodies(stack) /\ Len(stack') = n
      /\ f \in Fun /\ i \in Where(program, f, op) /\ i \in Nat
      /\ PastItem(program, stack, stack') /\ UNCHANGED <<program, phase>>
      /\ start[n] \in Nat /\ Depth(program, f, i) \in Nat /\ Depth(program, f, i + 1) \in Nat
      /\ scope_ = start[n] + 1 + Depth(program, f, i)
      /\ Nesting(program, stack', start, start[n] + 1 + Depth(program, f, i + 1))
  BY <1>1, <1>a, DepthAt
<1>3. i \notin Where(program, f, "var") /\ i \notin Where(program, f, "use")
  BY <1>2, <1>a DEF Where
<1>4. /\ i \in Where(program, f, "open") <=> op = "open"
      /\ i \in Where(program, f, "close") <=> op = "close"
  BY <1>2 DEF Where
<1>5. /\ op = "open" => Depth(program, f, i + 1) = Depth(program, f, i) + 1
      /\ op = "close" => Depth(program, f, i + 1) = Depth(program, f, i) - 1
      /\ op # "open" /\ op # "close" => Depth(program, f, i + 1) = Depth(program, f, i)
  BY <1>2, <1>4, DepthFacts
<1> DEFINE a == start[n]
           k == Depth(program, f, i)
           l == Depth(program, f, i + 1)
<1>6. a \in Nat /\ k \in Nat /\ l \in Nat /\ scope_ = a + 1 + k
  BY <1>2
<1>7. \/ scope_' = scope_ + 1 /\ l = k + 1
      \/ scope_' = scope_ - 1 /\ l = k - 1
      \/ scope_' = scope_ /\ l = k
  BY <1>5
<1> HIDE DEF n, f, i, a, k, l
<1>8. scope_' = a + 1 + l /\ scope_' \in Nat
  BY <1>6, <1>7
<1>9. Nesting(program, stack', start, scope_')
  BY <1>2, <1>8 DEF a, l
<1>10. FlagTypes'
  BY <1>8 DEF FlagTypes, FlagInv
<1>11. Keeps(vars_scope_, vars_scope_', escape_, escape_')
  BY DEF Keeps
<1>12. ItemDone(program, f, i, start[n], vars_scope_, vars_scope_', escape_')
  BY <1>3 DEF ItemDone
<1>13. start \in [1..Len(stack') -> Nat]
  BY <1>2 DEF n
<1>14. \A v \in Var : Declared(vars_scope_', v) /\ escape_'[v] =>
           (Declared(vars_scope_, v) /\ escape_[v]) \/ UsedByInner(v) \/ UsedDeeper(v)
  OBVIOUS
<1> QED BY <1>1, <1>2, <1>9, <1>10, <1>11, <1>12, <1>13, <1>14, FlagItem DEF n, f, i

\* It meets a declaration.
LEMMA FlagDeclares ==
  ASSUME WalkInv, FlagInv, phase = "escapes", Meets("var"), GoesOn,
         DeclareAt({What}, scope_), UNCHANGED scope_
  PROVE  FlagInv'
<1> DEFINE n == Len(stack)
           f == Top.function
           i == Top.at
<1>1. PICK start \in [1..Len(stack) -> Nat] :
        Nesting(program, stack, start, scope_) /\ Placed(program, stack, start, vars_scope_)
  BY DEF FlagInv
<1>a. "var" # "functions" /\ "var" # "use" /\ "var" # "open" /\ "var" # "close"
  OBVIOUS
<1>2. /\ program \in Programs /\ stack # <<>> /\ n \in Bodies(stack) /\ Len(stack') = n
      /\ f = Level(stack, n).function /\ i = Level(stack, n).at
      /\ f \in Fun /\ i \in Where(program, f, "var") /\ i \in Nat /\ What = OfAt(program, f, i)
      /\ PastItem(program, stack, stack') /\ UNCHANGED <<program, phase>>
      /\ scope_ = start[n] + 1 + Depth(program, f, i)
      /\ Nesting(program, stack', start, start[n] + 1 + Depth(program, f, i + 1))
  BY <1>1, <1>a, DepthAt
<1>3. /\ i \notin Where(program, f, "use") /\ i \notin Where(program, f, "open")
      /\ i \notin Where(program, f, "close")
  BY <1>2, <1>a DEF Where
<1>4. Depth(program, f, i + 1) = Depth(program, f, i)
  BY <1>2, <1>3, DepthFacts
<1>5. Nesting(program, stack', start, scope_')
  BY <1>2, <1>4
<1>6. What \in Var
  BY <1>2, ItemTypes
<1>7. ~Declared(vars_scope_, What)
  <2>1. NotYet(program, stack, vars_scope_) /\ i >= i
    BY <1>2 DEF FlagInv
  <2> QED BY <1>2, <2>1 DEF NotYet
<1>8. FlagTypes /\ scope_ \in Nat
  BY DEF FlagInv, FlagTypes
<1>9. /\ vars_scope_' \in [Var -> Nat \cup {NoDepth}] /\ escape_' \in [Var -> BOOLEAN]
      /\ Keeps(vars_scope_, vars_scope_', escape_, escape_')
      /\ vars_scope_'[What] = scope_ /\ Declared(vars_scope_', What)
      /\ \A v \in Var : Declared(vars_scope_', v) => Declared(vars_scope_, v) \/ v = What
      /\ \A v \in Var : Declared(vars_scope_', v) /\ escape_'[v] =>
           Declared(vars_scope_, v) /\ escape_[v]
  <2> DEFINE vs == {What}
  <2>1. vs \in SUBSET Var /\ \A v \in vs : ~Declared(vars_scope_, v)
    BY <1>6, <1>7
  <2>2. What \in vs /\ \A v \in vs : v = What
    OBVIOUS
  <2>3. DeclareAt(vs, scope_)
    OBVIOUS
  <2> HIDE DEF vs
  <2>4. /\ vars_scope_' \in [Var -> Nat \cup {NoDepth}] /\ escape_' \in [Var -> BOOLEAN]
        /\ Keeps(vars_scope_, vars_scope_', escape_, escape_')
        /\ \A v \in vs : vars_scope_'[v] = scope_ /\ Declared(vars_scope_', v)
        /\ \A v \in Var : Declared(vars_scope_', v) => Declared(vars_scope_, v) \/ v \in vs
        /\ \A v \in Var : Declared(vars_scope_', v) /\ escape_'[v] =>
             Declared(vars_scope_, v) /\ escape_[v]
    BY <1>8, <2>1, <2>3, DeclaresNew
  <2> QED BY <2>2, <2>4
<1>10. FlagTypes'
  BY <1>8, <1>9 DEF FlagTypes
<1> HIDE DEF n, f, i
<1>11. ItemDone(program, f, i, start[n], vars_scope_, vars_scope_', escape_')
  BY <1>2, <1>3, <1>9 DEF ItemDone
<1>12. start \in [1..Len(stack') -> Nat]
  BY <1>2 DEF n
<1> QED BY <1>1, <1>2, <1>5, <1>9, <1>10, <1>11, <1>12, FlagItem DEF n, f, i

\* It meets a use.
LEMMA FlagUses ==
  ASSUME WalkInv, FlagInv, phase = "escapes", Meets("use"), GoesOn,
         escape_' = [escape_ EXCEPT ![What] =
                       @ \/ (vars_scope_[What] # NoDepth /\ vars_scope_[What] < scope_)],
         UNCHANGED <<scope_, vars_scope_>>
  PROVE  FlagInv'
<1> DEFINE n == Len(stack)
           f == Top.function
           i == Top.at
<1>1. PICK start \in [1..Len(stack) -> Nat] :
        Nesting(program, stack, start, scope_) /\ Placed(program, stack, start, vars_scope_)
  BY DEF FlagInv
<1>a. "use" # "functions" /\ "var" # "use" /\ "use" # "open" /\ "use" # "close"
  OBVIOUS
<1>2. /\ program \in Programs /\ stack \in Seq(Frame) /\ Path(program, stack)
      /\ stack # <<>> /\ n \in Bodies(stack) /\ Len(stack') = n
      /\ f = Level(stack, n).function /\ i = Level(stack, n).at
      /\ f \in Fun /\ f \in Present /\ i \in Where(program, f, "use") /\ i \in Nat
      /\ What = OfAt(program, f, i)
      /\ PastItem(program, stack, stack') /\ UNCHANGED <<program, phase>>
      /\ scope_ = start[n] + 1 + Depth(program, f, i)
      /\ Nesting(program, stack', start, start[n] + 1 + Depth(program, f, i + 1))
  BY <1>1, <1>a, DepthAt
<1>3. /\ i \notin Where(program, f, "var") /\ i \notin Where(program, f, "open")
      /\ i \notin Where(program, f, "close")
  BY <1>2, <1>a DEF Where
<1>4. Depth(program, f, i + 1) = Depth(program, f, i)
  BY <1>2, <1>3, DepthFacts
<1>5. Nesting(program, stack', start, scope_')
  BY <1>2, <1>4
<1>6. What \in Var
  BY <1>2, ItemTypes
<1>7. /\ vars_scope_[What] \in Nat
      /\ vars_scope_[What] < scope_ <=> DeepUse(program, f, i)
  BY <1>1, <1>2, UseDepth
<1>8. Declared(vars_scope_, What) /\ vars_scope_[What] # NoDepth
  BY <1>7 DEF Declared, NoDepth
<1>9. FlagTypes
  BY DEF FlagInv
<1>10. escape_ \in [Var -> BOOLEAN]
  BY <1>9 DEF FlagTypes
<1>11. \A v \in Var : escape_'[v] = IF v = What THEN escape_[v] \/ DeepUse(program, f, i) ELSE escape_[v]
  <2>1. escape_' = [escape_ EXCEPT ![What] = escape_[What] \/ DeepUse(program, f, i)]
    BY <1>7, <1>8, Zenon
  <2> QED BY <1>10, <2>1, Zenon
<1>12. escape_' \in [Var -> BOOLEAN]
  BY <1>10, Zenon
<1>13. FlagTypes'
  BY <1>9, <1>12 DEF FlagTypes
<1>14. Keeps(vars_scope_, vars_scope_', escape_, escape_')
  BY <1>11, Zenon DEF Keeps
<1>15. DeepUse(program, f, i) => escape_'[What]
  BY <1>6, <1>11, Zenon
<1>16. DeepUse(program, f, i) => UsedByInner(What) \/ UsedDeeper(What)
  BY <1>2, DeepUses
<1>17. \A v \in Var : Declared(vars_scope_', v) /\ escape_'[v] =>
           (Declared(vars_scope_, v) /\ escape_[v]) \/ UsedByInner(v) \/ UsedDeeper(v)
  BY <1>8, <1>11, <1>16, Zenon
<1> HIDE DEF n, f, i
<1>18. ItemDone(program, f, i, start[n], vars_scope_, vars_scope_', escape_')
  BY <1>2, <1>3, <1>8, <1>15 DEF ItemDone
<1>19. start \in [1..Len(stack') -> Nat]
  BY <1>2 DEF n
<1> QED BY <1>1, <1>2, <1>5, <1>13, <1>14, <1>17, <1>18, <1>19, FlagItem DEF n, f, i

\* It enters a chunk, and comes back from a chunk or a function.
LEMMA FlagIntoChunk ==
  ASSUME WalkInv, FlagInv, phase = "escapes", EntersChunk, UNCHANGED depths
  PROVE  FlagInv'
<1> DEFINE n == Len(stack)
           f == Top.function
           i == Top.at
<1>1. PICK start \in [1..Len(stack) -> Nat] :
        Nesting(program, stack, start, scope_) /\ Placed(program, stack, start, vars_scope_)
  BY DEF FlagInv
<1>a. "var" # "functions" /\ "use" # "functions" /\ "function" # "chunk"
  OBVIOUS
<1>2. /\ stack # <<>> /\ n \in Bodies(stack) /\ f \in Fun /\ Top.is = "function"
      /\ i \in Where(program, f, "functions")
  BY MetItem DEF EntersChunk
<1>3. /\ program \in Programs /\ stack \in Seq(Frame) /\ n \in Nat \ {0}
      /\ Top = Level(stack, n) /\ Path(program, stack)
  BY <1>2, StackTop
<1>4. /\ Enters(program, stack, stack', Chunk(What)) /\ PastItem(program, stack, stack')
      /\ UNCHANGED <<program, phase>>
  BY IntoChunk
<1>5. i \notin Where(program, f, "var") /\ i \notin Where(program, f, "use")
  BY <1>2, <1>a DEF Where
<1>6. scope_ = start[n] + (1 + Depth(program, f, i))
  BY <1>1, <1>2, <1>3, <1>a DEF Nesting, Opened
<1>7. start[n] \in Nat /\ Depth(program, f, i) \in Nat
  <2>1. i \in 1..Len(program.body[f]) /\ Len(program.body[f]) \in Nat
    BY <1>2, <1>3, ItemTypes
  <2>2. i \in 1..Len(program.body[f]) + 1
    BY <2>1
  <2> QED BY <1>2, <1>3, <2>2, DepthFacts
<1>8. FlagTypes /\ scope_ \in Nat
  BY DEF FlagInv, FlagTypes
<1>9. UNCHANGED <<scope_, vars_scope_, escape_>>
  BY DEF depths
<1>10. Opened(program, Chunk(What), 1) = 0
  BY DEF Opened, Chunk
<1> HIDE DEF f, i
<1>11. start[n] <= scope_ /\ scope_ + 0 = scope_
  BY <1>6, <1>7, <1>8
<1>12. PICK start1 \in [1..Len(stack') -> Nat] :
         /\ \A d \in 1..n : start1[d] = start[d]
         /\ Nesting(program, stack', start1, scope_ + Opened(program, Chunk(What), 1))
  BY <1>1, <1>3, <1>4, <1>8, <1>11, NestEnters
<1>13. Nesting(program, stack', start1, scope_')
  BY <1>9, <1>10, <1>11, <1>12
<1>14. \A d \in Bodies(stack) : start1[d] = start[d]
  BY <1>12 DEF Bodies
<1>15. FlagTypes'
  BY <1>8, <1>9 DEF FlagTypes
<1>16. Keeps(vars_scope_, vars_scope_', escape_, escape_')
  BY <1>9 DEF Keeps
<1>17. ItemDone(program, f, i, start[n], vars_scope_, vars_scope_', escape_')
  BY <1>5, <1>9 DEF ItemDone
<1>18. \A v \in Var : Declared(vars_scope_', v) /\ escape_'[v] =>
           (Declared(vars_scope_, v) /\ escape_[v]) \/ UsedByInner(v) \/ UsedDeeper(v)
  BY <1>9
<1> QED BY <1>1, <1>2, <1>4, <1>12, <1>13, <1>14, <1>15, <1>16, <1>17, <1>18, FlagItem DEF n, f, i

LEMMA FlagOut ==
  ASSUME WalkInv, FlagInv, phase = "escapes", UNCHANGED <<vars_scope_, escape_>>,
         \/ LeavesChunk /\ UNCHANGED scope_
         \/ BodyVisited /\ Returns /\ scope_' = scope_ - 1
  PROVE  FlagInv'
<1> DEFINE n == Len(stack)
<1>1. PICK start \in [1..Len(stack) -> Nat] :
        Nesting(program, stack, start, scope_) /\ Placed(program, stack, start, vars_scope_)
  BY DEF FlagInv
<1>a. "function" # "chunk"
  OBVIOUS
<1>2. stack # <<>>
  BY DEF LeavesChunk, ChunkVisited, InChunk, BodyVisited, InFunction
<1>3. /\ program \in Programs /\ stack \in Seq(Frame) /\ n \in Nat \ {0}
      /\ Top = Level(stack, n) /\ Top \in Frame /\ Path(program, stack)
  BY <1>2, StackTop
<1>4. start[n] \in Nat /\ scope_ = start[n] + Opened(program, Top, Top.at)
  BY <1>1, <1>2, <1>3 DEF Nesting
<1>5. /\ Leaves(stack, stack') /\ UNCHANGED <<program, phase>> /\ scope_' = start[n]
      /\ \/ SameBodies(program, stack, stack') /\ Visited(program, stack') = Visited(program, stack)
         \/ \E f \in Fun : FunctionLeft(program, stack, stack', f)
  <2>1. CASE LeavesChunk /\ UNCHANGED scope_
    <3>1. Top.is = "chunk"
      BY <2>1 DEF LeavesChunk, ChunkVisited, InChunk
    <3>2. scope_' = start[n]
      BY <1>4, <2>1, <3>1 DEF Opened
    <3> QED BY <2>1, <3>2, OutOfChunk
  <2>2. CASE BodyVisited /\ Returns /\ scope_' = scope_ - 1
    <3>1. /\ Leaves(stack, stack') /\ FunctionLeft(program, stack, stack', Top.function)
          /\ Top.is = "function" /\ Top.function \in Fun /\ UNCHANGED <<program, phase>>
      BY <2>2, OutOfFunction
    <3>2. Top.at = Len(program.body[Top.function]) + 1
      BY <1>3, <3>1 DEF FunctionLeft
    <3>3. Depth(program, Top.function, Top.at) = 0
      BY <1>3, <3>1, <3>2, DepthFacts
    <3>4. Opened(program, Top, Top.at) = 1 + 0
      BY <1>a, <3>1, <3>3 DEF Opened
    <3>5. scope_' = start[n]
      BY <1>4, <2>2, <3>4
    <3> QED BY <3>1, <3>5
  <2> QED BY <2>1, <2>2
<1> DEFINE start1 == [d \in 1..Len(stack') |-> start[d]]
<1>6. /\ start1 \in [1..Len(stack') -> Nat] /\ \A d \in 1..Len(stack') : start1[d] = start[d]
      /\ Nesting(program, stack', start1, start[n])
  BY <1>1, <1>3, <1>5, NestLeaves
<1> HIDE DEF start1, n
<1>7. \A d \in Bodies(stack') : start1[d] = start[d]
  BY <1>6 DEF Bodies
<1>8. scope_' \in Nat /\ Nesting(program, stack', start1, scope_')
  BY <1>4, <1>5, <1>6
<1> QED BY <1>1, <1>2, <1>5, <1>6, <1>7, <1>8, FlagQuiet

LEMMA FlagIntoFunction ==
  ASSUME WalkInv, FlagInv, phase = "escapes", NEW f \in Fun, EntersFunction(f),
         scope_' = scope_ + 1, DeclareAt(program.formals[f], scope_')
  PROVE  FlagInv'
<1> DEFINE n == Len(stack)
<1>1. PICK start \in [1..Len(stack) -> Nat] :
        Nesting(program, stack, start, scope_) /\ Placed(program, stack, start, vars_scope_)
  BY DEF FlagInv
<1>2. stack # <<>> /\ Top.is = "chunk"
  BY DEF EntersFunction, InChunk
<1>3. /\ program \in Programs /\ stack \in Seq(Frame) /\ n \in Nat \ {0}
      /\ Top = Level(stack, n) /\ Path(program, stack)
  BY <1>2, StackTop
<1>4. /\ Enters(program, stack, stack', Body(f)) /\ FunctionEntered(program, stack, stack', f)
      /\ UNCHANGED <<program, phase>>
  BY IntoFunction
<1>5. start[n] \in Nat /\ scope_ = start[n] + 0
  BY <1>1, <1>2, <1>3 DEF Nesting, Opened
<1>6. scope_ \in Nat
  BY DEF FlagInv, FlagTypes
<1>7. Opened(program, Body(f), 1) = 1 + 0
  <2>1. Depth(program, f, 1) = 0
    BY <1>3, DepthFacts
  <2>2. "function" # "chunk"
    OBVIOUS
  <2> QED BY <2>1, <2>2 DEF Opened, Body
<1>8. start[n] <= scope_
  BY <1>5
<1>9. PICK start1 \in [1..Len(stack') -> Nat] :
        /\ start1[n + 1] = scope_ /\ \A d \in 1..n : start1[d] = start[d]
        /\ Nesting(program, stack', start1, scope_ + Opened(program, Body(f), 1))
  BY <1>1, <1>3, <1>4, <1>6, <1>8, NestEnters
<1>10. scope_' = start1[n + 1] + 1 /\ scope_' \in Nat
  BY <1>6, <1>9
<1>11. Nesting(program, stack', start1, scope_')
  BY <1>6, <1>7, <1>9
<1>12. \A d \in Bodies(stack) : start1[d] = start[d]
  BY <1>9 DEF Bodies
<1> QED BY <1>1, <1>2, <1>4, <1>9, <1>10, <1>11, <1>12, FlagEnter

LEMMA FlagActions ==
  ASSUME WalkInv, FlagInv, phase = "escapes", Escapes
  PROVE  FlagInv'
<1>1. CASE FlagVarDec
  BY <1>1, FlagDeclares DEF FlagVarDec
<1>2. CASE FlagSimpleVar
  BY <1>2, FlagUses DEF FlagSimpleVar
<1>3. CASE FlagLet \/ FlagLetEnd \/ (FlagWalk /\ Meets("call") /\ GoesOn)
  <2> DEFINE to(op) == IF op = "open" THEN scope_ + 1 ELSE IF op = "close" THEN scope_ - 1 ELSE scope_
  <2>1. to("open") = scope_ + 1 /\ to("close") = scope_ - 1 /\ to("call") = scope_
    OBVIOUS
  <2>2. PICK op \in {"open", "close", "call"} :
          Meets(op) /\ GoesOn /\ UNCHANGED <<vars_scope_, escape_>> /\ scope_' = to(op)
    BY <1>3, <2>1 DEF FlagLet, FlagLetEnd, FlagWalk, depths
  <2> QED BY <2>2, FlagPlain
<1>4. CASE FlagFunctionDec
  BY <1>4, FlagIntoFunction DEF FlagFunctionDec
<1>5. CASE FlagFunctionDecEnd
  BY <1>5, FlagOut DEF FlagFunctionDecEnd
<1>6. CASE FlagWalk /\ EntersChunk
  BY <1>6, FlagIntoChunk DEF FlagWalk
<1>7. CASE FlagWalk /\ LeavesChunk
  BY <1>7, FlagOut DEF FlagWalk, depths
<1> QED BY <1>1, <1>2, <1>3, <1>4, <1>5, <1>6, <1>7 DEF Escapes, FlagWalk

LEMMA FlagInit == Init => FlagInv
<1> SUFFICES ASSUME Init PROVE FlagInv
  OBVIOUS
<1>1. /\ program \in Programs /\ did_modify_ \in BOOLEAN /\ phase = "escapes" /\ scope_ = 0
      /\ vars_scope_ = [v \in Var |-> NoDepth] /\ escape_ = [v \in Var |-> TRUE]
      /\ stack = <<Chunk(<<Main>>)>>
  BY DEF Init
<1>2. /\ stack \in Seq(Frame) /\ stack # <<>> /\ Len(stack) = 1
      /\ Level(stack, 1).is = "chunk" /\ Bodies(stack) = {} /\ Visited(program, stack) = {}
  BY <1>1, StartVisitor
<1>3. \A v \in Var : ~Declared(vars_scope_, v)
  BY <1>1 DEF Declared
<1>4. FlagTypes
  BY <1>1 DEF FlagTypes
<1> DEFINE start == [d \in 1..Len(stack) |-> 0]
<1>5. start \in [1..Len(stack) -> Nat]
  OBVIOUS
<1>6. start[1] = 0
  BY <1>2
<1>7. 1..Len(stack) - 1 = {}
  BY <1>2
<1> HIDE DEF start
<1>8. Opened(program, Level(stack, 1), Level(stack, 1).at) = 0
  BY <1>2 DEF Opened
<1>9. Nesting(program, stack, start, scope_)
  BY <1>1, <1>2, <1>6, <1>7, <1>8 DEF Nesting
<1>10. Placed(program, stack, start, vars_scope_)
  BY <1>2 DEF Placed
<1>11. NotYet(program, stack, vars_scope_)
  <2>1. \A f \in Inside(program, Main) : f \in Fun
    BY <1>1, InsideFacts, LiftingAssumption
  <2>2. \A f \in Fun : DeclaredIn(program, f) \subseteq Var
    BY <1>1, VarsApart
  <2> QED BY <1>2, <1>3, <2>1, <2>2 DEF NotYet
<1> QED BY <1>1, <1>2, <1>3, <1>4, <1>5, <1>9, <1>10, <1>11 DEF FlagInv

\* When it has returned, every function is visited up to its end.
LEMMA AllFlagged ==
  ASSUME WalkInv, FlagInv, phase = "escapes", stack = <<>>
  PROVE  scope_ = 0 /\ FlagsRight
<1>1. scope_ = 0
  BY DEF FlagInv, Nesting
<1>2. program \in Programs
  BY DEF WalkInv
<1>3. /\ \A f \in Present : FlaggedUpTo(program, vars_scope_, escape_, f, Len(program.body[f]) + 1)
      /\ \A v \in Var :
           Declared(vars_scope_, v) /\ escape_[v] => UsedByInner(v) \/ UsedDeeper(v)
  BY DEF FlagInv, Visited, Present
<1>4. \A f \in Present : f \in Fun
  BY <1>2, InsideFacts, LiftingAssumption DEF Present
<1>5. \A f \in Fun : \A op : \A i \in Where(program, f, op) : i < Len(program.body[f]) + 1
  <2>1. \A f \in Fun : /\ Len(program.body[f]) \in Nat
                       /\ \A op : Where(program, f, op) \subseteq 1..Len(program.body[f])
    BY <1>2, ItemTypes
  <2> QED BY <2>1
<1>6. ASSUME NEW f \in Present, NEW v \in Declares(f)
      PROVE  escape_[v] <=> UsedByInner(v) \/ UsedDeeper(v)
  <2>1. v \in Var /\ f \in Fun
    BY <1>2, <1>4, VarsApart DEF Declares
  <2>2. Declared(vars_scope_, v)
    BY <1>3, <1>5, <2>1 DEF FlaggedUpTo, Declares, DeclaredIn
  <2>3. ASSUME UsedByInner(v) \/ UsedDeeper(v) PROVE escape_[v]
    <3>1. PICK g \in Present : \E i \in Where(program, g, "use") :
            OfAt(program, g, i) = v /\ DeepUse(program, g, i)
      BY <2>3, DeepUses
    <3>2. PICK i \in Where(program, g, "use") : OfAt(program, g, i) = v /\ DeepUse(program, g, i)
      BY <3>1
    <3> QED BY <1>3, <1>4, <1>5, <3>2 DEF FlaggedUpTo
  <2> QED BY <1>3, <2>1, <2>2, <2>3
<1> QED BY <1>1, <1>6 DEF FlagsRight

LEMMA FlagStep == WalkInv /\ FlagInv /\ [Next]_vars => FlagInv'
<1> SUFFICES ASSUME WalkInv, FlagInv, [Next]_vars PROVE FlagInv'
  OBVIOUS
<1>1. CASE Escapes
  <2>1. phase = "escapes"
    BY <1>1 DEF Escapes, Flagging, FlagVarDec, FlagSimpleVar, FlagLet, FlagLetEnd,
      FlagFunctionDec, FlagFunctionDecEnd, FlagWalk
  <2> QED BY <1>1, <2>1, FlagActions
<1>2. ASSUME UNCHANGED <<program, scope_, vars_scope_, escape_>>, phase' # "escapes",
             scope_ = 0, FlagsRight
      PROVE  FlagInv'
  <2>1. FlagTypes'
    BY <1>2 DEF FlagInv, FlagTypes
  <2>2. FlagsRight'
    BY <1>2, SameText DEF FlagsRight
  <2> QED BY <1>2, <2>1, <2>2 DEF FlagInv
<1>3. CASE Collect
  <2>1. phase = "collect" /\ UNCHANGED <<scope_, vars_scope_, escape_>>
    BY <1>3 DEF Collect, Collecting, CollectChunk, CollectAgain, CollectChunkEnd,
      CollectFunctionDec, CollectFunctionDecEnd, CollectCallExp, CollectSimpleVar, CollectWalk, depths
  <2>2. UNCHANGED <<program, phase>>
    <3>1. Charged(stack, function_)
      BY <2>1 DEF WalkInv
    <3> QED BY <1>3, <3>1, CollectMoves
  <2> QED BY <1>2, <2>1, <2>2 DEF FlagInv
<1>4. CASE Translate
  <2>1. phase = "translate" /\ UNCHANGED <<program, scope_, vars_scope_, escape_>>
    BY <1>4 DEF Translate, Translating, TranslateChunk, TranslateChunkEnd, TranslateBody,
      TranslateBodyEnd, TranslateVarDec, access_var, TranslateCallExp, TranslateWalk, depths
  <2>2. phase' # "escapes"
    <3>1. phase' = "thrown" \/ phase' = phase
      BY <1>4 DEF Translate, TranslateChunk, TranslateChunkEnd, TranslateBody,
        TranslateBodyEnd, TranslateVarDec, access_var, TranslateCallExp, TranslateWalk,
        EntersChunk, LeavesChunk, EntersFunction, GoesOn, GoesInto, Returns, Throws
    <3> QED BY <2>1, <3>1
  <2> QED BY <1>2, <2>1, <2>2 DEF FlagInv
<1>5. CASE NextVisitor
  <2>1. /\ UNCHANGED <<program, scope_, vars_scope_, escape_>> /\ phase' # "escapes"
        /\ stack = <<>>
    BY <1>5 DEF NextVisitor, depths
  <2>2. scope_ = 0 /\ FlagsRight
    BY <2>1, AllFlagged DEF FlagInv
  <2> QED BY <1>2, <2>1, <2>2
<1>6. CASE UNCHANGED vars
  <2>1. UNCHANGED <<program, phase, stack, scope_, vars_scope_, escape_>>
    BY <1>6 DEF vars, walk, depths
  <2>2. CASE phase # "escapes"
    BY <1>2, <2>1, <2>2 DEF FlagInv
  <2>3. CASE phase = "escapes"
    <3>1. program \in Programs /\ stack \in Seq(Frame) /\ Path(program, stack)
      BY DEF WalkInv
    <3>2. \A f \in Visited(program, stack) : f \in Fun
      BY <3>1, VisitedIsOver, InsideFacts, LiftingAssumption DEF Visited
    <3>3. FlagTypes' /\ Keeps(vars_scope_, vars_scope_', escape_, escape_')
      BY <2>1 DEF FlagTypes, FlagInv, Keeps
    <3>4. /\ \E start \in [1..Len(stack) -> Nat] :
               Nesting(program, stack, start, scope_) /\ Placed(program, stack, start, vars_scope_)
          /\ \A d \in Bodies(stack) :
               FlaggedUpTo(program, vars_scope_, escape_, Level(stack, d).function, Level(stack, d).at)
          /\ NotYet(program, stack, vars_scope_)
      BY <2>3 DEF FlagInv
    <3> QED BY <2>1, <2>3, <3>1, <3>2, <3>3, <3>4, FlagKept
  <2> QED BY <2>2, <2>3
<1> QED BY <1>1, <1>3, <1>4, <1>5, <1>6 DEF Next


-----------------------------------------------------------------------------
(* Translator.                                                             *)

\* A use is behind the declaration of its variable in the same function, or in
\* another function than the one that declares it.
LEMMA PlaceOfVar ==
  ASSUME NEW p \in Programs, NEW s \in Seq(Frame), Path(p, s), Len(s) \in Bodies(s),
         NEW f \in Fun, f = Level(s, Len(s)).function, NEW i \in Where(p, f, "use")
  PROVE  LET v == OfAt(p, f, i)
         IN  \/ v \in p.formals[f]
             \/ \E j \in Where(p, f, "var") : j < i /\ OfAt(p, f, j) = v
             \/ v \notin DeclaredIn(p, f) /\ \E h \in Inside(p, Main) : v \in DeclaredIn(p, h)
<1> DEFINE v == OfAt(p, f, i)
<1>1. f \in Fun
  OBVIOUS
<1>2. PICK h \in Fun : \E m \in Items(p, h) : Within(p, f, i, h, m) /\ SeesVar(p, v, h, m)
  <2>1. Lexical(p)
    BY ScopingAssumption
  <2> QED BY <1>1, <2>1 DEF Lexical
<1>3. PICK m \in Items(p, h) : Within(p, f, i, h, m) /\ SeesVar(p, v, h, m)
  BY <1>2
<1>4. v \in DeclaredIn(p, h)
  BY <1>3 DEF SeesVar, DeclaredIn
<1>5. CASE f = h /\ i = m
  BY <1>3, <1>5 DEF SeesVar
<1>6. CASE m \in Where(p, h, "functions") /\ \E g \in Elements(OfAt(p, h, m)) : f \in Inside(p, g)
  <2>1. PICK g \in Elements(OfAt(p, h, m)) : f \in Inside(p, g)
    BY <1>6
  <2>2. PICK e \in Bodies(s) : e - 2 \in Bodies(s) /\ Level(s, e - 2).function = h
    BY <1>6, <2>1, Around
  <2>3. e - 2 # Len(s)
    BY <2>2 DEF Bodies
  <2>4. h # f /\ h \in Inside(p, Main)
    BY <2>2, <2>3 DEF Path
  <2>5. DeclaredIn(p, h) \cap DeclaredIn(p, f) = {}
    BY <1>1, <2>4, VarsApart
  <2> QED BY <1>4, <2>4, <2>5
<1> QED BY <1>3, <1>5, <1>6 DEF Within

\* One declaration more, or another item; none at the start; and more addresses.
LEMMA KnownNext ==
  ASSUME NEW p \in Programs, NEW passed, NEW known, NEW f \in Fun, NEW i \in Nat
  PROVE  /\ /\ KnownUpTo(p, passed, known, f, i)
            /\ i \in Where(p, f, "var") => OfAt(p, f, i) \in known[f]
            => KnownUpTo(p, passed, known, f, i + 1)
         /\ p.formals[f] \cup passed[f] \subseteq known[f] => KnownUpTo(p, passed, known, f, 1)
<1>1. \A j \in Where(p, f, "var") : j \in Nat \ {0}
  BY ItemTypes
<1>2. \A j \in Where(p, f, "var") : ~(j < 1) /\ (j < i + 1 => j < i \/ j = i)
  BY <1>1
<1> QED BY <1>2 DEF KnownUpTo

LEMMA KnownKept ==
  ASSUME NEW p, NEW passed, NEW known, NEW known1, NEW f, known[f] \subseteq known1[f], NEW i,
         KnownUpTo(p, passed, known, f, i)
  PROVE  KnownUpTo(p, passed, known1, f, i)
BY DEF KnownUpTo

\* Each use is of a variable that has an address.
LEMMA UseKnown ==
  ASSUME WalkInv, FlagInv, CollectInv, TranslateInv, phase = "translate", Meets("use")
  PROVE  What \in Known
<1> DEFINE n == Len(stack)
           f == Top.function
           i == Top.at
<1>1. /\ stack # <<>> /\ n \in Bodies(stack) /\ f \in Fun /\ f \in Present
      /\ i \in Where(program, f, "use") /\ What = OfAt(program, f, i)
  BY MetItem
<1>2. /\ program \in Programs /\ stack \in Seq(Frame) /\ n \in Nat \ {0}
      /\ Top = Level(stack, n) /\ Path(program, stack)
  BY <1>1, StackTop
<1>3. function_ = f
  <2>1. Charged(stack, function_) /\ n >= n - 1
    BY <1>2 DEF WalkInv
  <2> QED BY <1>1, <1>2, <2>1 DEF Charged
<1>4. KnownUpTo(program, escaped_, locals_, f, i)
  BY <1>1, <1>2 DEF TranslateInv
<1>5. OwnUpTo(escaped_, f, Len(program.body[f]) + 1)
  BY <1>1 DEF CollectInv
<1>6. FlagsRight
  BY DEF FlagInv
<1>a. f = Level(stack, n).function
  BY <1>2
<1> HIDE DEF n, f, i
<1>7. CASE escape_[What]
  <2>1. i < Len(program.body[f]) + 1
    <3>1. Len(program.body[f]) \in Nat /\ i \in 1..Len(program.body[f])
      BY <1>1, <1>2, ItemTypes
    <3> QED BY <3>1
  <2>2. What \in escaped_[f]
    BY <1>1, <1>5, <1>7, <2>1 DEF OwnUpTo
  <2> QED BY <1>3, <1>4, <2>2 DEF KnownUpTo, Known
<1>8. CASE What \notin Declares(f) /\ \E h \in Present : What \in Declares(h)
  <2>1. UsedByInner(What)
    BY <1>1, <1>8 DEF UsedByInner, Uses
  <2>2. escape_[What]
    BY <1>6, <1>8, <2>1 DEF FlagsRight
  <2> QED BY <1>7, <2>2
<1>9. CASE \/ What \in program.formals[f]
           \/ \E j \in Where(program, f, "var") : j < i /\ OfAt(program, f, j) = What
  BY <1>3, <1>4, <1>9 DEF KnownUpTo, Known
<1>10. LET v == OfAt(program, f, i)
       IN  \/ v \in program.formals[f]
           \/ \E j \in Where(program, f, "var") : j < i /\ OfAt(program, f, j) = v
           \/ v \notin DeclaredIn(program, f) /\ \E h \in Inside(program, Main) : v \in DeclaredIn(program, h)
  BY <1>1, <1>2, <1>a, PlaceOfVar DEF n
<1> QED BY <1>1, <1>8, <1>9, <1>10 DEF Declares, Present

\* So is each argument, if the sets are closed.
LEMMA CallKnown ==
  ASSUME WalkInv, TranslateInv, phase = "translate", Meets("call"), Closed
  PROVE  escaped_[What] \subseteq Known
<1> DEFINE n == Len(stack)
           f == Top.function
           i == Top.at
<1>1. /\ stack # <<>> /\ n \in Bodies(stack) /\ f \in Fun /\ f \in Present
      /\ i \in Where(program, f, "call") /\ What = OfAt(program, f, i)
  BY MetItem
<1>2. n \in Nat \ {0} /\ Top = Level(stack, n)
  BY <1>1, StackTop
<1>3. function_ = f
  <2>1. Charged(stack, function_) /\ n >= n - 1
    BY <1>2 DEF WalkInv
  <2> QED BY <1>1, <1>2, <2>1 DEF Charged
<1>4. KnownUpTo(program, escaped_, locals_, f, i)
  BY <1>1, <1>2 DEF TranslateInv
<1>5. escaped_[What] \subseteq escaped_[f]
  BY <1>1 DEF Closed, Calls
<1> QED BY <1>3, <1>4, <1>5 DEF KnownUpTo, Known

\* What has to be shown of a step that throws nothing.
LEMMA TranslateKept ==
  ASSUME phase = "translate", UNCHANGED <<program, phase, escaped_>>,
         locals_' \in [Fun -> SUBSET Var],
         \A d \in Bodies(stack') :
           KnownUpTo(program, escaped_, locals_', Level(stack', d).function, Level(stack', d).at)
  PROVE  TranslateInv'
<1>1. phase' # "thrown"
  <2>1. "translate" # "thrown"
    OBVIOUS
  <2> QED BY <2>1
<1> QED BY <1>1 DEF TranslateInv

\* It goes past an item.
LEMMA TranslateItem ==
  ASSUME WalkInv, TranslateInv, phase = "translate", UNCHANGED <<program, phase, escaped_>>,
         stack # <<>>, Top.is = "function", PastItem(program, stack, stack'),
         locals_' \in [Fun -> SUBSET Var], \A f \in Fun : locals_[f] \subseteq locals_'[f],
         Top.at \in Where(program, Top.function, "var") =>
           OfAt(program, Top.function, Top.at) \in locals_'[Top.function]
  PROVE  TranslateInv'
<1> DEFINE n == Len(stack)
           f == Top.function
           i == Top.at
<1>1. /\ program \in Programs /\ stack \in Seq(Frame) /\ n \in Nat \ {0}
      /\ Top = Level(stack, n) /\ Top \in Frame
  BY StackTop
<1>2. /\ Bodies(stack') = Bodies(stack) /\ Level(stack', n) = Past(Top)
      /\ \A d \in Bodies(stack) \ {n} : Level(stack', d) = Level(stack, d)
  BY <1>1 DEF PastItem
<1>3. f \in Fun /\ i \in Nat /\ Past(Top).at = i + 1 /\ Past(Top).function = f
  BY <1>1, FrameFacts
<1>4. \A d \in Bodies(stack) : Level(stack, d).function \in Fun
  BY <1>1, LevelIn, FrameFacts DEF Bodies
<1>5. n \in Bodies(stack)
  BY <1>1 DEF Bodies
<1>6. \A d \in Bodies(stack) :
        KnownUpTo(program, escaped_, locals_, Level(stack, d).function, Level(stack, d).at)
  BY DEF TranslateInv
<1>7. \A d \in Bodies(stack) :
        KnownUpTo(program, escaped_, locals_', Level(stack, d).function, Level(stack, d).at)
  BY <1>4, <1>6, KnownKept
<1>8. KnownUpTo(program, escaped_, locals_', f, i + 1)
  <2>1. KnownUpTo(program, escaped_, locals_', f, i)
    BY <1>1, <1>5, <1>7
  <2> QED BY <1>1, <1>3, <2>1, KnownNext
<1> HIDE DEF n, f, i
<1>9. \A d \in Bodies(stack') :
        KnownUpTo(program, escaped_, locals_', Level(stack', d).function, Level(stack', d).at)
  BY <1>2, <1>3, <1>7, <1>8
<1> QED BY <1>9, TranslateKept

\* A step that throws nothing.
LEMMA TranslateActions ==
  ASSUME WalkInv, CollectInv, TranslateInv, phase = "translate", Translate, phase' # "thrown"
  PROVE  TranslateInv'
<1>1. /\ program \in Programs /\ stack \in Seq(Frame) /\ function_ \in Fun
      /\ Charged(stack, function_)
  BY DEF WalkInv
<1>2. UNCHANGED <<program, escaped_>>
  BY DEF Translate, Translating, TranslateChunk, TranslateChunkEnd, TranslateBody, TranslateBodyEnd,
     TranslateVarDec, access_var, TranslateCallExp, TranslateWalk, sets
<1>3. UNCHANGED phase
  BY <1>1, TranslateMoves
<1>4. /\ locals_ \in [Fun -> SUBSET Var]
      /\ \A d \in Bodies(stack) :
           KnownUpTo(program, escaped_, locals_, Level(stack, d).function, Level(stack, d).at)
  BY DEF TranslateInv
<1>5. \A d \in Bodies(stack) : Level(stack, d).function \in Fun
  BY <1>1, LevelIn, FrameFacts DEF Bodies
<1>6. CASE TranslateVarDec
  <2>1. Meets("var") /\ GoesOn /\ locals_' = [locals_ EXCEPT ![function_] = @ \cup {What}]
    BY <1>6 DEF TranslateVarDec
  <2>2. /\ stack # <<>> /\ Top.is = "function" /\ Top.function \in Fun /\ Len(stack) \in Bodies(stack)
        /\ Top.at \in Where(program, Top.function, "var")
        /\ What = OfAt(program, Top.function, Top.at)
    BY <2>1, MetItem
  <2>3. function_ = Top.function
    <3>1. Top = Level(stack, Len(stack)) /\ Len(stack) >= Len(stack) - 1
      BY <2>2, StackTop
    <3> QED BY <1>1, <2>2, <3>1 DEF Charged
  <2>4. What \in Var
    BY <1>1, <2>2, ItemTypes
  <2>5. /\ locals_' \in [Fun -> SUBSET Var] /\ \A f \in Fun : locals_[f] \subseteq locals_'[f]
        /\ What \in locals_'[Top.function]
    BY <1>4, <2>1, <2>2, <2>3, <2>4
  <2>6. PastItem(program, stack, stack')
    <3>1. "var" # "functions"
      OBVIOUS
    <3> QED BY <2>1, <3>1, OnPastItem
  <2> QED BY <1>2, <1>3, <2>2, <2>5, <2>6, TranslateItem
<1>7. CASE TranslateChunk \/ access_var \/ TranslateCallExp \/ TranslateWalk
  <2>1. PICK op \in {"functions", "use", "call", "open", "close"} :
          Meets(op) /\ (EntersChunk \/ (op # "functions" /\ GoesOn))
    BY <1>3, <1>7 DEF TranslateChunk, access_var, TranslateCallExp, TranslateWalk, Throws, EntersChunk
  <2>2. UNCHANGED locals_
    BY <1>7 DEF TranslateChunk, access_var, TranslateCallExp, TranslateWalk
  <2>3. /\ stack # <<>> /\ Top.is = "function"
        /\ Top.at \in Where(program, Top.function, op)
    BY <2>1, MetItem
  <2>4. Top.at \notin Where(program, Top.function, "var")
    <3>1. op # "var"
      BY <2>1
    <3> QED BY <2>3, <3>1 DEF Where
  <2>5. PastItem(program, stack, stack')
    BY <2>1, OnPastItem, IntoChunk
  <2> QED BY <1>2, <1>3, <1>4, <2>2, <2>3, <2>4, <2>5, TranslateItem
<1>8. CASE TranslateChunkEnd
  <2>1. LeavesChunk /\ UNCHANGED locals_
    BY <1>8 DEF TranslateChunkEnd
  <2>2. /\ Bodies(stack') = Bodies(stack)
        /\ \A d \in Bodies(stack) : Level(stack', d) = Level(stack, d)
    BY <2>1, OutOfChunk DEF SameBodies
  <2> QED BY <1>2, <1>3, <1>4, <2>1, <2>2, TranslateKept
<1>9. CASE TranslateBody
  <2>1. PICK f \in Fun :
          /\ EntersFunction(f)
          /\ locals_' = [locals_ EXCEPT ![f] = @ \cup escaped_[f] \cup program.formals[f]]
    BY <1>9 DEF TranslateBody
  <2>2. FunctionEntered(program, stack, stack', f)
    BY <2>1, IntoFunction
  <2>3. /\ Bodies(stack') = Bodies(stack) \cup {Len(stack) + 1}
        /\ Level(stack', Len(stack) + 1).function = f /\ Level(stack', Len(stack) + 1).at = 1
        /\ \A d \in Bodies(stack) : Level(stack', d) = Level(stack, d)
    BY <2>2 DEF FunctionEntered
  <2>4. /\ \A g \in Fun : locals_[g] \subseteq locals_'[g]
        /\ program.formals[f] \cup escaped_[f] \subseteq locals_'[f]
    BY <1>4, <2>1
  <2>5. locals_' \in [Fun -> SUBSET Var]
    <3>1. escaped_ \in [Fun -> SUBSET Var] /\ program.formals[f] \in SUBSET Var
      BY <1>1, ItemTypes DEF CollectInv
    <3> QED BY <1>4, <2>1, <3>1
  <2>6. KnownUpTo(program, escaped_, locals_', f, 1)
    <3>1. 1 \in Nat
      OBVIOUS
    <3> QED BY <1>1, <2>4, <3>1, KnownNext
  <2>7. \A d \in Bodies(stack) :
          KnownUpTo(program, escaped_, locals_', Level(stack, d).function, Level(stack, d).at)
    BY <1>4, <1>5, <2>4, KnownKept
  <2>8. \A d \in Bodies(stack') :
          KnownUpTo(program, escaped_, locals_', Level(stack', d).function, Level(stack', d).at)
    BY <2>3, <2>6, <2>7
  <2> QED BY <1>2, <1>3, <2>5, <2>8, TranslateKept
<1>10. CASE TranslateBodyEnd
  <2>1. BodyVisited /\ Returns /\ UNCHANGED locals_
    BY <1>10 DEF TranslateBodyEnd
  <2>2. /\ Bodies(stack') \subseteq Bodies(stack)
        /\ \A d \in Bodies(stack') : Level(stack', d) = Level(stack, d)
    BY <2>1, OutOfFunction DEF FunctionLeft
  <2> QED BY <1>2, <1>3, <1>4, <2>1, <2>2, TranslateKept
<1> QED BY <1>6, <1>7, <1>8, <1>9, <1>10 DEF Translate

LEMMA TranslateInit == Init => TranslateInv
<1> SUFFICES ASSUME Init PROVE TranslateInv
  OBVIOUS
<1>1. phase = "escapes" /\ locals_ = [f \in Fun |-> {}]
  BY DEF Init
<1>2. "escapes" # "translate" /\ "escapes" # "thrown"
  OBVIOUS
<1> QED BY <1>1, <1>2 DEF TranslateInv

LEMMA TranslateStep ==
  WalkInv /\ FlagInv /\ CollectInv /\ TranslateInv /\ [Next]_vars => TranslateInv'
<1> SUFFICES ASSUME WalkInv, FlagInv, CollectInv, TranslateInv, [Next]_vars PROVE TranslateInv'
  OBVIOUS
<1>0. /\ "translate" # "thrown" /\ "escapes" # "translate" /\ "collect" # "translate"
      /\ "escapes" # "thrown" /\ "collect" # "thrown" /\ "done" # "translate" /\ "done" # "thrown"
  OBVIOUS
<1>1. locals_ \in [Fun -> SUBSET Var] /\ program \in Programs /\ did_modify_ \in BOOLEAN
  BY DEF TranslateInv, WalkInv
<1>2. CASE Escapes
  <2>1. phase = "escapes" /\ UNCHANGED locals_
    BY <1>2 DEF Escapes, Flagging, FlagVarDec, FlagSimpleVar, FlagLet, FlagLetEnd,
      FlagFunctionDec, FlagFunctionDecEnd, FlagWalk
  <2>2. phase' = phase
    BY <1>2, FlagMoves
  <2> QED BY <1>0, <1>1, <2>1, <2>2 DEF TranslateInv
<1>3. CASE Collect
  <2>1. phase = "collect" /\ UNCHANGED locals_
    BY <1>3 DEF Collect, Collecting, CollectChunk, CollectAgain, CollectChunkEnd,
      CollectFunctionDec, CollectFunctionDecEnd, CollectCallExp, CollectSimpleVar, CollectWalk
  <2>2. phase' = phase
    <3>1. Charged(stack, function_)
      BY <2>1 DEF WalkInv
    <3> QED BY <1>3, <3>1, CollectMoves
  <2> QED BY <1>0, <1>1, <2>1, <2>2 DEF TranslateInv
<1>4. CASE Translate
  <2>1. phase = "translate" /\ UNCHANGED <<program, escaped_>>
    BY <1>4 DEF Translate, Translating, TranslateChunk, TranslateChunkEnd, TranslateBody,
      TranslateBodyEnd, TranslateVarDec, access_var, TranslateCallExp, TranslateWalk, sets
  <2>2. CASE phase' = "thrown"
    <3>1. /\ UNCHANGED locals_
          /\ \/ Meets("use") /\ What \notin Known
             \/ Meets("call") /\ ~(escaped_[What] \subseteq Known)
      BY <1>4, <2>1, <2>2, ThrowsAt
    <3>2. Meets("call") /\ ~(escaped_[What] \subseteq Known)
      BY <2>1, <3>1, UseKnown
    <3>3. ~Closed
      BY <2>1, <3>2, CallKnown
    <3>4. ~Closed'
      BY <2>1, <3>3 DEF Closed, Present, Calls
    <3> QED BY <1>0, <1>1, <2>2, <3>1, <3>4 DEF TranslateInv
  <2>3. CASE phase' # "thrown"
    BY <1>4, <2>1, <2>3, TranslateActions
  <2> QED BY <2>2, <2>3
<1>5. CASE NextVisitor
  <2>1. UNCHANGED <<program, locals_>> /\ phase' # "thrown"
    BY <1>0, <1>5 DEF NextVisitor
  <2>2. CASE phase' = "translate"
    <3>1. stack' = <<Chunk(<<Main>>)>>
      BY <1>0, <1>5, <2>2 DEF NextVisitor
    <3>2. Bodies(stack') = {}
      BY <1>1, <3>1, StartVisitor
    <3> QED BY <1>0, <1>1, <2>1, <3>2 DEF TranslateInv
  <2>3. CASE phase' # "translate"
    BY <1>1, <2>1, <2>3 DEF TranslateInv
  <2> QED BY <2>2, <2>3
<1>6. CASE UNCHANGED vars
  BY <1>6 DEF vars, walk, sets, TranslateInv, Closed, Present, Calls
<1> QED BY <1>2, <1>3, <1>4, <1>5, <1>6 DEF Next

-----------------------------------------------------------------------------
(* What the three visitors promise each other.                             *)

LEMMA LiftingInvariant == Spec => [](WalkInv /\ FlagInv /\ CollectInv /\ TranslateInv)
<1>1. Init => WalkInv /\ FlagInv /\ CollectInv /\ TranslateInv
  BY WalkInit, FlagInit, CollectInit, TranslateInit
<1>2. (WalkInv /\ FlagInv /\ CollectInv /\ TranslateInv) /\ [Next]_vars
        => (WalkInv /\ FlagInv /\ CollectInv /\ TranslateInv)'
  BY WalkStep, FlagStep, CollectStep, TranslateStep
<1> QED BY <1>1, <1>2, PTL DEF Spec

\* When EscapesVisitor has returned, each variable that an inner function accesses
\* is flagged; and a visitor that has returned leaves no scope and no function open.
THEOREM InnerUsesAreFlagged == Spec => []InnerUsesFlagged
<1>1. WalkInv /\ FlagInv /\ CollectInv /\ TranslateInv => InnerUsesFlagged
  <2> SUFFICES ASSUME WalkInv, FlagInv, CollectInv, TranslateInv PROVE InnerUsesFlagged
    OBVIOUS
  <2>1. phase = "escapes" /\ stack = <<>> => scope_ = 0 /\ FlagsRight
    BY AllFlagged
  <2>2. stack = <<>> => scope_ = 0
    BY <2>1 DEF FlagInv
  <2>3. stack = <<>> => function_ = Main
    <3>1. stack = <<>> => Len(stack) <= 1
      OBVIOUS
    <3> QED BY <3>1 DEF WalkInv, Charged
  <2>4. TypeOK
    BY <2>2, <2>3 DEF TypeOK, WalkInv, FlagInv, FlagTypes, CollectInv, TranslateInv
  <2> QED BY <2>1, <2>4 DEF InnerUsesFlagged, FlagsRight
<1> QED BY <1>1, LiftingInvariant, PTL

\* If each function is passed all that its callees are, the translator finds each
\* variable it looks up among the locals of the function it translates.
THEOREM ClosedSetsSuffice == Spec => []ClosedSuffices
<1>1. WalkInv /\ FlagInv /\ CollectInv /\ TranslateInv => ClosedSuffices
  BY DEF TranslateInv, ClosedSuffices
<1> QED BY <1>1, LiftingInvariant, PTL

\* No function is passed a variable that neither it nor anybody it may come to
\* call uses.
THEOREM PassesOnlyNeeded == Spec => []OnlyNeeded
<1>1. WalkInv /\ FlagInv /\ CollectInv /\ TranslateInv => OnlyNeeded
  BY InsideFacts, LiftingAssumption DEF WalkInv, CollectInv, OnlyNeeded, Present
<1> QED BY <1>1, LiftingInvariant, PTL

\* Where callees stand before their callers, the collector passes each function
\* just what it needs, although a use counts as no modification.
THEOREM OnePassSuffices == Spec => []ExactWhenCalleesFirst
<1>1. WalkInv /\ FlagInv /\ CollectInv /\ TranslateInv => ExactWhenCalleesFirst
  <2>1. stack = <<>> => Visited(program, stack) = Present
    BY DEF Visited, Present
  <2> QED BY <2>1 DEF CollectInv, ExactWhenCalleesFirst
<1> QED BY <1>1, LiftingInvariant, PTL
=============================================================================
