------------------------------ MODULE DriverProofs -----------------------------
(***************************************************************************)
(* The files that are read, their directories and the imports that are     *)
(* open, for every set of files, every program and every grammar.          *)
(***************************************************************************)
EXTENDS DriverProps, Induction

-----------------------------------------------------------------------------
(* What the state is made of. *)

AbsPaths == {p \in Paths : is_absolute(p)}
Library  == [search_path_ : Seq(Paths), current_directory_ : Seq(AbsPaths)]
Starts   == {"INITIAL", "SC_COMMENT", "SC_STRING"}
Lexers   == [start : Starts, grown_string : Texts, depth : Int]
Sorts    == {Reserved[s] : s \in DOMAIN Reserved} \cup {"EOF"}
Toks     == (Sorts \X {""} \X {0}) \cup ({"ID", "STRING"} \X Texts \X {0}) \cup ({"INT"} \X {""} \X Int)

\* A call of parse_; what its imports gave may be anything.
IsCall(f) ==
  f \in [path : Paths, text : Texts, lexer : Lexers, tokens : Seq(Toks), served : Nat,
         import : {f.import}, saved : {f.saved}]

-----------------------------------------------------------------------------
(* What the scanner reads. *)

LEMMA DigitType == \A b \in Int : DigitOf(b) \in Int
BY DEF DigitOf, Digit

\* Digits are a number, one after the other.
LEMMA NumberSteps ==
  ASSUME NEW s \in Texts, NEW base \in Int
  PROVE  \E f \in [0..Len(s) -> Int] :
           /\ strtol(s, base) = f[Len(s)] /\ f[0] = 0
           /\ \A n \in 1..Len(s) : f[n] = base * f[n - 1] + DigitOf(s[n])
<1> DEFINE N == Len(s)
           step == [p \in (1..N) \X Int |-> base * p[2] + DigitOf(s[p[1]])]
           Value(f) == f = [n \in 0..N |-> IF n = 0 THEN 0 ELSE base * f[n - 1] + DigitOf(s[n])]
           value == CHOOSE f : Value(f)
<1>1. N \in Nat /\ \A i \in 1..N : s[i] \in Int /\ DigitOf(s[i]) \in Int
  <2>1. N \in Nat /\ \A i \in 1..N : s[i] \in Int
    BY DEF Texts
  <2> QED BY <2>1, DigitType
<1>2. step \in [(1..N) \X Int -> Int]
  BY <1>1
<1>3. \A n \in 1..N : \A v \in Int : step[<<n, v>>] = base * v + DigitOf(s[n])
  OBVIOUS
<1> HIDE DEF step, N
<1>4. PICK f \in [0..N -> Int] : Steps(f, N, 0, step)
  <2>1. 0 \in Int
    OBVIOUS
  <2> QED BY <1>1, <1>2, <2>1, StepsExist
<1>5. Value(f)
  <2>1. \A n \in 0..N : n # 0 => f[n - 1] \in Int /\ n \in 1..N
    BY <1>1, <1>4
  <2>2. \A n \in 0..N : f[n] = IF n = 0 THEN 0 ELSE base * f[n - 1] + DigitOf(s[n])
    BY <1>3, <1>4, <2>1 DEF Steps
  <2>3. f = [n \in 0..N |-> f[n]]
    BY <1>4
  <2> QED BY <2>2, <2>3
<1>6. Value(value)
  <2> HIDE DEF Value
  <2> QED BY <1>5
<1>7. value \in [0..N -> Int]
  <2> DEFINE S == {n \in 0..N : value[n] \in Int}
  <2>1. 0 \in S
    <3> HIDE DEF value
    <3> QED BY <1>1, <1>6
  <2>2. \A n \in 0..(N - 1) : n \in S => n + 1 \in S
    <3>1. SUFFICES ASSUME NEW n \in 0..(N - 1), n \in S
                   PROVE  n + 1 \in S
      OBVIOUS
    <3>2. n + 1 \in 1..N /\ n + 1 \in 0..N /\ (n + 1) - 1 = n /\ n + 1 # 0
      BY <1>1, <3>1
    <3>3. value[n + 1] = base * value[n] + DigitOf(s[n + 1])
      <4> HIDE DEF value
      <4> QED BY <1>6, <3>2
    <3> HIDE DEF value
    <3> QED BY <1>1, <3>1, <3>2, <3>3
  <2> HIDE DEF S
  <2>3. 0..N \subseteq S
    BY <1>1, <2>1, <2>2, InductionUpTo
  <2>4. \A n \in 0..N : value[n] \in Int
    BY <2>3 DEF S
  <2> HIDE DEF value
  <2> QED BY <1>6, <2>4
<1>8. strtol(s, base) = value[N]
  BY DEF strtol, N
<1> HIDE DEF value
<1>9. value[0] = 0 /\ \A n \in 1..N : value[n] = base * value[n - 1] + DigitOf(s[n])
  <2>1. 0 \in 0..N /\ \A n \in 1..N : n \in 0..N /\ n # 0
    BY <1>1
  <2> QED BY <1>6, <2>1
<1> QED BY <1>7, <1>8, <1>9 DEF N

LEMMA NumberType ==
  ASSUME NEW s \in Texts, NEW base \in Int
  PROVE  strtol(s, base) \in Int
<1>1. Len(s) \in 0..Len(s)
  BY DEF Texts
<1> QED BY <1>1, NumberSteps


-----------------------------------------------------------------------------
(* What the components of a name are. *)

\* One component at least, and no slash in any.
Pieces == {p \in Seq(Seq(Int \ {47})) : p # <<>>}

LEMMA CutType == \A parts \in Pieces, b \in Int : Cut(parts, b) \in Pieces
<1>1. SUFFICES ASSUME NEW parts \in Pieces, NEW b \in Int
               PROVE  Cut(parts, b) \in Pieces
  OBVIOUS
<1> DEFINE C == Seq(Int \ {47})
<1>2. parts \in Seq(C) /\ Len(parts) \in Nat \ {0} /\ parts[Len(parts)] \in C
  BY <1>1 DEF Pieces
<1>3. CASE b = 47
  <2>1. <<>> \in C
    OBVIOUS
  <2> HIDE DEF C
  <2>2. Append(parts, <<>>) \in Seq(C) /\ Append(parts, <<>>) # <<>>
    BY <1>2, <2>1
  <2> QED BY <1>3, <2>2 DEF Cut, Pieces, C
<1>4. CASE b # 47
  <2>1. Append(parts[Len(parts)], b) \in C
    BY <1>2, <1>4
  <2> DEFINE piece == Append(parts[Len(parts)], b)
             next  == [parts EXCEPT ![Len(parts)] = piece]
  <2> HIDE DEF C, piece
  <2>2. next \in Seq(C) /\ next # <<>>
    <3>1. next \in Seq(C) /\ Len(next) = Len(parts)
      BY <1>2, <2>1 DEF piece
    <3> QED BY <1>2, <3>1
  <2>3. Cut(parts, b) = next
    BY <1>4 DEF Cut, piece
  <2> QED BY <2>2, <2>3 DEF Pieces, C
<1> QED BY <1>3, <1>4

\* A name in a program names something: it has a component at least, and the last
\* one is not the root.
LEMMA PathIsName ==
  ASSUME NEW string \in Texts
  PROVE  Path(string) \in Names
<1> DEFINE N == Len(string)
           step == [p \in (1..N) \X Pieces |-> Cut(p[2], string[p[1]])]
           IsCut(f) == f = [n \in 0..N |-> IF n = 0 THEN <<<<>>>> ELSE Cut(f[n - 1], string[n])]
           cut == CHOOSE f : IsCut(f)
<1>1. N \in Nat /\ \A i \in 1..N : string[i] \in Int
  BY DEF Texts
<1>2. step \in [(1..N) \X Pieces -> Pieces]
  <2>1. \A p \in (1..N) \X Pieces : Cut(p[2], string[p[1]]) \in Pieces
    BY <1>1, CutType
  <2> QED BY <2>1
<1>3. \A n \in 1..N : \A v \in Pieces : step[<<n, v>>] = Cut(v, string[n])
  OBVIOUS
<1>4. <<<<>>>> \in Pieces
  BY DEF Pieces
<1> HIDE DEF step, N
<1>5. PICK f \in [0..N -> Pieces] : Steps(f, N, <<<<>>>>, step)
  BY <1>1, <1>2, <1>4, StepsExist
<1>6. IsCut(f)
  <2>1. \A n \in 0..N : n # 0 => f[n - 1] \in Pieces /\ n \in 1..N
    BY <1>1, <1>5
  <2>2. \A n \in 0..N : f[n] = IF n = 0 THEN <<<<>>>> ELSE Cut(f[n - 1], string[n])
    BY <1>3, <1>5, <2>1 DEF Steps
  <2>3. f = [n \in 0..N |-> f[n]]
    BY <1>5
  <2> QED BY <2>2, <2>3
<1>7. IsCut(cut)
  <2> HIDE DEF IsCut
  <2> QED BY <1>6
<1>8. Path(string) = IF Len(cut[N]) > 1 /\ cut[N][1] = <<>>
                     THEN [cut[N] EXCEPT ![1] = Root] ELSE cut[N]
  BY DEF Path, N
<1> HIDE DEF cut
<1>9. cut[N] \in Pieces
  <2> DEFINE S == {n \in 0..N : cut[n] \in Pieces}
  <2>1. 0 \in S
    BY <1>1, <1>4, <1>7
  <2>2. \A n \in 0..(N - 1) : n \in S => n + 1 \in S
    <3>1. SUFFICES ASSUME NEW n \in 0..(N - 1), n \in S
                   PROVE  n + 1 \in S
      OBVIOUS
    <3>2. n + 1 \in 1..N /\ n + 1 \in 0..N /\ (n + 1) - 1 = n /\ n + 1 # 0
      BY <1>1, <3>1
    <3>3. cut[n + 1] = Cut(cut[n], string[n + 1])
      BY <1>7, <3>2
    <3> QED BY <1>1, <3>1, <3>2, <3>3, CutType
  <2> HIDE DEF S
  <2>3. 0..N \subseteq S
    BY <1>1, <2>1, <2>2, InductionUpTo
  <2> QED BY <1>1, <2>3 DEF S
<1>10. ASSUME NEW p \in Pieces
       PROVE  /\ p \in Names
              /\ Len(p) > 1 => [p EXCEPT ![1] = Root] \in Names
  <2>1. p \in Seq(Seq(Int \ {47})) /\ Len(p) \in Nat \ {0} /\ p # <<>>
    BY <1>10 DEF Pieces
  <2>2. \A i \in 1..Len(p) : p[i] \in Seq(Int \ {47}) /\ p[i] \in Seq(Int) /\ p[i] # Root
    <3>1. SUFFICES ASSUME NEW i \in 1..Len(p)
                   PROVE  p[i] \in Seq(Int \ {47}) /\ p[i] \in Seq(Int) /\ p[i] # Root
      OBVIOUS
    <3>2. p[i] \in Seq(Int \ {47})
      BY <2>1, <3>1
    <3>3. p[i] \in Seq(Int)
      BY <3>2
    <3>4. p[i] # Root
      <4>1. \A j \in 1..Len(p[i]) : p[i][j] # 47
        BY <3>2
      <4>2. Len(Root) = 1 /\ Root[1] = 47 /\ 1 \in 1..1
        BY DEF Root
      <4>3. SUFFICES ASSUME p[i] = Root PROVE FALSE
        OBVIOUS
      <4>4. 1 \in 1..Len(p[i]) /\ p[i][1] = 47
        BY <4>2, <4>3
      <4> QED BY <4>1, <4>4
    <3> QED BY <3>2, <3>3, <3>4
  <2> DEFINE D == Seq(Int)
             q == [p EXCEPT ![1] = Root]
  <2>3. Root \in D
    BY DEF Root
  <2> HIDE DEF D
  <2>4. \A i \in 1..Len(p) : p[i] \in D /\ p[i] # Root
    BY <2>2 DEF D
  <2>5. p \in Seq(D)
    <3>1. p \in [1..Len(p) -> D]
      BY <2>1, <2>4
    <3>2. \A n \in Nat : [1..n -> D] \subseteq Seq(D)
      BY SeqDef
    <3>3. Len(p) \in Nat
      BY <2>1
    <3> QED BY <3>1, <3>2, <3>3
  <2>6. p \in Names
    BY <2>1, <2>4, <2>5 DEF Names, Paths, D
  <2>7. Len(p) > 1 => q \in Names
    <3>1. SUFFICES ASSUME Len(p) > 1 PROVE q \in Names
      OBVIOUS
    <3>2. q \in Seq(D) /\ Len(q) = Len(p) /\ q[Len(p)] = p[Len(p)]
      BY <2>1, <2>3, <2>5, <3>1
    <3> HIDE DEF q
    <3> QED BY <2>1, <2>4, <3>2 DEF Names, Paths, D
  <2> QED BY <2>6, <2>7
<1> HIDE DEF cut
<1> QED BY <1>8, <1>9, <1>10

-----------------------------------------------------------------------------
(* What a rule of the scanner leaves. *)

\* The longest match is one that a rule makes.
LEMMA LongestMatches ==
  ASSUME NEW start, NEW text \in Texts
  PROVE  /\ Longest(start, text) \in 0..Len(text)
         /\ Longest(start, text) # 0 => Rules(start, SubSeq(text, 1, Longest(start, text)))
<1> DEFINE N == Len(text)
           matches(i) == Rules(start, SubSeq(text, 1, i))
           M == {i \in 0..N : i = 0 \/ matches(i)}
           IsLongest(i) == (i = 0 \/ matches(i)) /\ \A j \in (i + 1)..N : ~matches(j)
           T1 == {n \in Nat : \E i \in M : n = N - i}
<1>1. N \in Nat
  BY DEF Texts
<1> HIDE DEF matches, N
<1>2. N \in T1
  BY <1>1
<1>3. PICK m \in T1 : \A n \in T1 : m <= n
  BY <1>2, LeastElement
<1>4. PICK i \in M : m = N - i
  BY <1>3
<1>5. IsLongest(i)
  <2>1. ASSUME NEW j \in (i + 1)..N, matches(j) PROVE FALSE
    <3>1. j \in M /\ N - j \in Nat /\ N - j < N - i
      BY <1>1, <1>4, <2>1
    <3>2. N - j \in T1
      BY <3>1
    <3> QED BY <1>1, <1>3, <1>4, <3>1, <3>2
  <2> QED BY <1>4, <2>1
<1>6. Longest(start, text) = CHOOSE k \in 0..N : IsLongest(k)
  BY DEF Longest, N, matches
<1>7. i \in 0..N
  BY <1>4
<1>8. Longest(start, text) \in 0..N /\ IsLongest(Longest(start, text))
  <2> HIDE DEF IsLongest
  <2> QED BY <1>5, <1>6, <1>7
<1> QED BY <1>8 DEF N, matches

LEMMA EscapeType == \A b : EscapeOf(b) \subseteq Int
<1>1. \A e \in DOMAIN Escapes : Escapes[e][2] \in Int
  BY DEF Escapes
<1> QED BY <1>1 DEF EscapeOf

\* The text that is left is one.
LEMMA RestType ==
  ASSUME NEW text \in Texts, NEW n \in 0..Len(text)
  PROVE  Rest(text, n) \in Texts /\ SubSeq(text, 1, n) \in Texts /\ Len(SubSeq(text, 1, n)) = n
<1>1. Len(text) \in Nat /\ (IF n = 0 THEN 1 ELSE n) \in Nat \ {0}
  BY DEF Texts
<1> DEFINE k == IF n = 0 THEN 1 ELSE n
<1> HIDE DEF k
<1>2. k \in Nat \ {0}
  BY <1>1 DEF k
<1>3. SubSeq(text, k + 1, Len(text)) \in Seq(Int)
  BY <1>1, <1>2 DEF Texts
<1>4. Rest(text, n) = SubSeq(text, k + 1, Len(text))
  BY DEF Rest, k
<1>5. SubSeq(text, 1, n) \in Seq(Int) /\ Len(SubSeq(text, 1, n)) = n
  BY <1>1 DEF Texts
<1> QED BY <1>3, <1>4, <1>5 DEF Texts

\* A lexer, tokens, and how tc ends if the rule ends it.
Outcome(r) == r.lexer \in Lexers /\ r.tokens \in Seq(Toks) /\ r.out \in {"", "scan"}

LEMMA GivesType ==
  ASSUME NEW x \in Lexers, NEW tokens \in Seq(Toks)
  PROVE  Outcome(Gives(x, tokens))
BY DEF Outcome, Gives

LEMMA DiesType ==
  ASSUME NEW x \in Lexers
  PROVE  Outcome(Dies(x))
BY DEF Outcome, Dies

LEMMA TokenType ==
  /\ \A s \in Texts : Id(s) \in Toks /\ Str(s) \in Toks
  /\ \A n \in Int : Num(n) \in Toks
  /\ \A t \in Sorts : T(t) \in Toks
BY DEF Toks, Id, Str, Num, T

\* What a string token holds is a text.
LEMMA StringToken == \A t \in Toks : t[1] = "STRING" => t[2] \in Texts
<1>1. SUFFICES ASSUME NEW t \in Toks, t[1] = "STRING" PROVE t[2] \in Texts
  OBVIOUS
<1>2. "STRING" \notin Sorts
  BY ReservedAssumption DEF Sorts
<1>3. CASE t \in Sorts \X {""} \X {0}
  BY <1>1, <1>2, <1>3
<1>4. CASE t \in {"ID", "STRING"} \X Texts \X {0}
  BY <1>4
<1>5. CASE t \in {"INT"} \X {""} \X Int
  BY <1>1, <1>5
<1> QED BY <1>3, <1>4, <1>5 DEF Toks

LEMMA GrownType ==
  ASSUME NEW x \in Lexers, NEW s \in Texts
  PROVE  Outcome(Grown(x, s))
<1>1. x.grown_string \o s \in Texts
  BY DEF Lexers, Texts
<1> DEFINE g == x.grown_string \o s
<1> HIDE DEF g
<1>2. [x EXCEPT !.grown_string = g] \in Lexers
  BY <1>1 DEF Lexers, g
<1>3. Outcome(Gives([x EXCEPT !.grown_string = g], <<>>))
  <2>1. <<>> \in Seq(Toks)
    OBVIOUS
  <2> QED BY <1>2, <2>1, GivesType
<1> QED BY <1>3 DEF Grown, g

LEMMA InitialType ==
  ASSUME NEW x \in Lexers, NEW s \in Texts, s # <<>>
  PROVE  Outcome(ScanInitial(x, s))
<1>1. ASSUME NEW t \in Toks PROVE Outcome(Gives(x, <<t>>))
  <2>1. <<t>> \in Seq(Toks)
    OBVIOUS
  <2> QED BY <2>1, GivesType
<1> DEFINE string  == [x EXCEPT !.grown_string = <<>>, !.start = "SC_STRING"]
           comment == [x EXCEPT !.depth = 1, !.start = "SC_COMMENT"]
           number  == IF strtol(s, 10) > INT_MAX THEN Dies(x) ELSE Gives(x, <<Num(strtol(s, 10))>>)
<1>2. \/ s \in DOMAIN Reserved /\ ScanInitial(x, s) = Gives(x, <<T(Reserved[s])>>)
      \/ ScanInitial(x, s) = Gives(string, <<>>)
      \/ ScanInitial(x, s) = Gives(comment, <<>>)
      \/ ScanInitial(x, s) = Gives(x, <<>>)
      \/ ScanInitial(x, s) = number
      \/ ScanInitial(x, s) = Gives(x, <<Id(s)>>)
  <2> HIDE DEF string, comment, number
  <2> QED BY DEF ScanInitial, string, comment, number
<1>3. s \in DOMAIN Reserved => Outcome(Gives(x, <<T(Reserved[s])>>))
  BY <1>1, TokenType DEF Sorts
<1>4. string \in Lexers /\ comment \in Lexers
  <2>1. "SC_STRING" \in Starts /\ "SC_COMMENT" \in Starts /\ <<>> \in Texts /\ 1 \in Int
    BY DEF Starts, Texts
  <2> QED BY <2>1 DEF Lexers
<1>5. Outcome(number)
  <2>1. strtol(s, 10) \in Int
    <3>1. 10 \in Int
      OBVIOUS
    <3> QED BY <3>1, NumberType
  <2>2. Num(strtol(s, 10)) \in Toks
    BY <2>1, TokenType
  <2>3. Outcome(Dies(x)) /\ Outcome(Gives(x, <<Num(strtol(s, 10))>>))
    BY <1>1, <2>2, DiesType
  <2> DEFINE big == strtol(s, 10) > INT_MAX
  <2> HIDE DEF big
  <2> QED BY <2>3 DEF big
<1>6. Outcome(Gives(x, <<Id(s)>>))
  BY <1>1, TokenType
<1> HIDE DEF string, comment, number
<1>7. <<>> \in Seq(Toks)
  OBVIOUS
<1>8. Outcome(Gives(x, <<>>)) /\ Outcome(Gives(string, <<>>)) /\ Outcome(Gives(comment, <<>>))
  BY <1>4, <1>7, GivesType
<1> QED BY <1>2, <1>3, <1>5, <1>6, <1>8

LEMMA CommentType ==
  ASSUME NEW x \in Lexers, NEW s
  PROVE  Outcome(ScanComment(x, s))
<1> DEFINE deeper == [x EXCEPT !.depth = @ + 1]
           higher == [x EXCEPT !.depth = @ - 1, !.start = IF x.depth = 1 THEN "INITIAL" ELSE @]
<1>1. deeper \in Lexers /\ higher \in Lexers
  <2>1. x.depth + 1 \in Int /\ x.depth - 1 \in Int
    BY DEF Lexers
  <2>2. (IF x.depth = 1 THEN "INITIAL" ELSE x.start) \in Starts
    BY DEF Lexers, Starts
  <2> DEFINE up == x.depth + 1
             down == x.depth - 1
             start == IF x.depth = 1 THEN "INITIAL" ELSE x.start
  <2>3. up \in Int /\ down \in Int /\ start \in Starts
    BY <2>1, <2>2
  <2> HIDE DEF up, down, start
  <2>4. [x EXCEPT !.depth = up] \in Lexers /\ [x EXCEPT !.depth = down, !.start = start] \in Lexers
    BY <2>3 DEF Lexers
  <2> QED BY <2>4 DEF up, down, start
<1>2. \/ ScanComment(x, s) = Gives(deeper, <<>>)
      \/ ScanComment(x, s) = Gives(higher, <<>>)
      \/ ScanComment(x, s) = Gives(x, <<>>)
  BY DEF ScanComment
<1>3. <<>> \in Seq(Toks)
  OBVIOUS
<1> HIDE DEF deeper, higher
<1> QED BY <1>1, <1>2, <1>3, GivesType

\* Two bytes are matched in a string only if the second one is a letter that an
\* escape has.
LEMMA StringType ==
  ASSUME NEW x \in Lexers, NEW s \in Texts, s # <<>>, Rules("SC_STRING", s)
  PROVE  Outcome(ScanString(x, s))
<1>1. Len(s) \in Nat /\ (Len(s) = 1 \/ (Len(s) = 2 /\ EscapeOf(s[2]) # {}) \/ Len(s) = 4)
  BY DEF Rules, Texts
<1>2. CASE s = <<Quote>>
  <2> DEFINE y == [x EXCEPT !.start = "INITIAL"]
  <2>1. y \in Lexers /\ x.grown_string \in Texts
    BY DEF Lexers, Starts
  <2>2. Str(x.grown_string) \in Toks
    BY <2>1, TokenType
  <2>3. ScanString(x, s) = Gives(y, <<Str(x.grown_string)>>)
    BY <1>2 DEF ScanString
  <2> DEFINE t == Str(x.grown_string)
  <2> HIDE DEF y, t
  <2>4. <<t>> \in Seq(Toks)
    BY <2>2 DEF t
  <2> QED BY <2>1, <2>3, <2>4, GivesType DEF t
<1>3. CASE s # <<Quote>> /\ Len(s) = 4
  <2> DEFINE v == IF s[2] = 120 THEN strtol(SubSeq(s, 3, 4), 16) ELSE strtol(Tail(s), 8)
  <2>1. v \in Int
    <3>1. SubSeq(s, 3, 4) \in Texts /\ Tail(s) \in Texts
      <4>1. s \in Seq(Int) /\ Tail(s) \in Seq(Int)
        BY DEF Texts
      <4>2. SubSeq(s, 3, 4) \in Seq(Int)
        <5>1. 3 \in 1..Len(s) /\ 4 \in 1..Len(s)
          BY <1>3
        <5> QED BY <4>1, <5>1, SubSeqProperties
      <4> QED BY <4>1, <4>2 DEF Texts
    <3>2. strtol(SubSeq(s, 3, 4), 16) \in Int /\ strtol(Tail(s), 8) \in Int
      <4>1. 16 \in Int /\ 8 \in Int
        OBVIOUS
      <4> QED BY <3>1, <4>1, NumberType
    <3> QED BY <3>2
  <2>2. ScanString(x, s) = IF v > 255 THEN Dies(x) ELSE Grown(x, <<v>>)
    BY <1>3 DEF ScanString
  <2> HIDE DEF v
  <2>3. <<v>> \in Texts
    BY <2>1 DEF Texts
  <2> QED BY <2>2, <2>3, DiesType, GrownType
<1>4. CASE s # <<Quote>> /\ Len(s) = 2
  <2> DEFINE v == CHOOSE w \in EscapeOf(s[2]) : TRUE
  <2>1. v \in Int
    BY <1>1, <1>4, EscapeType
  <2>2. ScanString(x, s) = Grown(x, <<v>>)
    BY <1>4 DEF ScanString
  <2> HIDE DEF v
  <2>3. <<v>> \in Texts
    BY <2>1 DEF Texts
  <2> QED BY <2>2, <2>3, GrownType
<1>5. CASE s # <<Quote>> /\ Len(s) = 1
  <2>1. ScanString(x, s) = Grown(x, s)
    BY <1>5 DEF ScanString
  <2> QED BY <2>1, GrownType
<1> QED BY <1>1, <1>2, <1>3, <1>4, <1>5

\* One rule on a text.
LEMMA RuleType ==
  ASSUME NEW x \in Lexers, NEW text \in Texts
  PROVE  Outcome(Rule_(x, text, Longest(x.start, text)))
<1> DEFINE n == Longest(x.start, text)
           s == SubSeq(text, 1, n)
<1>1. n \in 0..Len(text) /\ (n # 0 => Rules(x.start, s))
  BY LongestMatches
<1> HIDE DEF n
<1>2. s \in Texts /\ Len(s) = n
  BY <1>1, RestType
<1>3. x.start \in Starts
  BY DEF Lexers
<1>4. <<>> \in Seq(Toks)
  OBVIOUS
<1>5. CASE text = <<>>
  <2>1. Rule_(x, text, n) = ScanEnd(x)
    <3>1. n = 0
      BY <1>1, <1>5
    <3> QED BY <1>5, <3>1 DEF Rule_
  <2>2. T("EOF") \in Toks
    BY TokenType DEF Sorts
  <2> DEFINE t == T("EOF")
  <2> HIDE DEF t
  <2>3. <<t>> \in Seq(Toks)
    BY <2>2 DEF t
  <2>4. Outcome(Gives(x, <<t>>)) /\ Outcome(Dies(x))
    BY <2>3, GivesType, DiesType
  <2> QED BY <2>1, <2>4 DEF ScanEnd, t, n
<1>6. CASE text # <<>> /\ n = 0
  <2>1. Rule_(x, text, n) = Gives(x, <<>>)
    BY <1>6 DEF Rule_
  <2> QED BY <1>4, <2>1, GivesType DEF n
<1>7. CASE text # <<>> /\ n # 0
  <2>1. s # <<>>
    BY <1>1, <1>2, <1>7
  <2>2. CASE x.start = "INITIAL"
    <3>1. Rule_(x, text, n) = ScanInitial(x, s)
      BY <1>7, <2>2 DEF Rule_
    <3> QED BY <1>2, <2>1, <3>1, InitialType DEF n
  <2>3. CASE x.start = "SC_COMMENT"
    <3>1. Rule_(x, text, n) = ScanComment(x, s)
      BY <1>7, <2>3 DEF Rule_
    <3> QED BY <3>1, CommentType DEF n
  <2>4. CASE x.start = "SC_STRING"
    <3>1. Rule_(x, text, n) = ScanString(x, s)
      BY <1>7, <2>4 DEF Rule_
    <3> HIDE DEF s
    <3>2. Rules("SC_STRING", s)
      BY <1>1, <1>7, <2>4
    <3>3. Outcome(ScanString(x, s))
      BY <1>2, <2>1, <3>2, StringType
    <3> QED BY <3>1, <3>3 DEF n
  <2> QED BY <1>3, <2>2, <2>3, <2>4 DEF Starts
<1> QED BY <1>5, <1>6, <1>7

-----------------------------------------------------------------------------
(* Where a file is found. *)

\* What the component of a name is: not the root.
Components == {c \in Seq(Int) : c # Root}

LEMMA RootIsNone == Root \in Seq(Int) /\ <<Root>> \in Paths
BY DEF Root, Paths

\* A path and a component after it.
LEMMA OneMore ==
  ASSUME NEW d \in Paths, NEW c \in Components
  PROVE  /\ ~is_absolute(<<c>>) /\ Join(d, <<c>>) = d \o <<c>>
         /\ d \o <<c>> \in Paths /\ d \o <<c>> # <<>>
         /\ parent_path(d \o <<c>>) = d
<1> DEFINE D == Seq(Int)
<1>1. d \in Seq(D) /\ c \in D /\ c # Root
  BY DEF Paths, Components
<1> HIDE DEF D
<1>2. ~is_absolute(<<c>>)
  BY <1>1 DEF is_absolute
<1>3. d \o <<c>> \in Seq(D) /\ Len(d \o <<c>>) = Len(d) + 1 /\ Len(d) \in Nat
  BY <1>1
<1>4. \A i \in 1..Len(d) : (d \o <<c>>)[i] = d[i]
  BY <1>1
<1> DEFINE e == d \o <<c>>
           p == SubSeq(e, 1, Len(d))
<1> HIDE DEF e
<1>5. p \in Seq(D) /\ Len(p) = Len(d) /\ \A i \in 1..Len(d) : p[i] = e[i]
  BY <1>3 DEF e
<1>6. p = d
  <2> HIDE DEF p
  <2> QED BY <1>1, <1>4, <1>5 DEF e
<1>7. parent_path(e) = p
  BY <1>3 DEF parent_path, e
<1>8. e # <<>>
  BY <1>3 DEF e
<1>9. Join(d, <<c>>) = e
  BY <1>2 DEF Join, e
<1>10. e \in Paths
  BY <1>3 DEF e, Paths, D
<1> HIDE DEF p
<1> QED BY <1>2, <1>6, <1>7, <1>8, <1>9, <1>10 DEF e

\* A path that ends with a component, without it and with it again.
LEMMA SplitLast ==
  ASSUME NEW p \in Paths, p # <<>>
  PROVE  /\ parent_path(p) \in Paths /\ p = parent_path(p) \o <<p[Len(p)]>>
         /\ Len(parent_path(p)) = Len(p) - 1
         /\ \A i \in 1..(Len(p) - 1) : parent_path(p)[i] = p[i]
<1> DEFINE D == Seq(Int)
           q == SubSeq(p, 1, Len(p) - 1)
<1>1. p \in Seq(D) /\ Len(p) \in Nat \ {0} /\ parent_path(p) = q
  BY DEF Paths, parent_path
<1> HIDE DEF D
<1>2. q \in Seq(D) /\ Len(q) = Len(p) - 1 /\ \A i \in 1..(Len(p) - 1) : q[i] = p[i]
  <2>1. 1 \in 1..(Len(p) + 1) /\ Len(p) - 1 \in 0..Len(p)
    BY <1>1
  <2>2. PICK n \in 0..Len(p) : n = Len(p) - 1
    BY <2>1
  <2>3. /\ SubSeq(p, 1, n) \in Seq(D) /\ Len(SubSeq(p, 1, n)) = IF 1 <= n THEN n - 1 + 1 ELSE 0
        /\ \A i \in 1..(n - 1 + 1) : SubSeq(p, 1, n)[i] = p[1 + i - 1]
    BY <1>1, <2>1, <2>2, SubSeqProperties
  <2>4. q = SubSeq(p, 1, n) /\ n \in Nat /\ n - 1 + 1 = n
    BY <2>2
  <2> HIDE DEF q
  <2>5. \A i \in 1..(Len(p) - 1) : q[i] = p[i]
    <3>1. \A i \in 1..n : 1 + i - 1 = i
      BY <2>4
    <3> QED BY <1>1, <2>2, <2>3, <2>4, <3>1
  <2> QED BY <1>1, <2>2, <2>3, <2>4, <2>5
<1> HIDE DEF q
<1>3. p[Len(p)] \in D
  BY <1>1
<1>4. p = q \o <<p[Len(p)]>>
  BY <1>1, <1>2, <1>3
<1> QED BY <1>1, <1>2, <1>4 DEF D, Paths

\* A name: a directory before its last component.
LEMMA NameParts ==
  ASSUME NEW name \in Names
  PROVE  /\ name \in Paths /\ name # <<>> /\ Len(name) \in Nat \ {0}
         /\ name[Len(name)] \in Components /\ filename(name) = <<name[Len(name)]>>
BY DEF Names, Paths, Components, filename

\* The directory that is found is absolute, the file is there and is in it.
Found(lib, name) ==
  LET d == find_file(lib, name)
      p == Join(d, filename(name))
  IN  d # <<>> => d \in AbsPaths /\ p \in exists /\ p \in Paths /\ parent_path(p) = d

LEMMA FoundInDirectory ==
  ASSUME NEW cur \in AbsPaths, NEW name \in Names, NEW w, w = Join(cur, name)
  PROVE  /\ parent_path(w) \in AbsPaths /\ w \in Paths
         /\ Join(parent_path(w), filename(name)) = w
<1>1. /\ name \in Paths /\ name # <<>> /\ Len(name) \in Nat \ {0}
      /\ name[Len(name)] \in Components /\ filename(name) = <<name[Len(name)]>>
  BY NameParts
<1>2. cur \in Paths /\ cur # <<>> /\ cur[1] = Root
  BY DEF AbsPaths, is_absolute
<1> DEFINE D == Seq(Int)
<1>3. cur \in Seq(D) /\ name \in Seq(D) /\ Root \in D
  BY <1>1, <1>2, RootIsNone DEF Paths
<1> HIDE DEF D
<1>4. /\ w \in Seq(D) /\ Len(w) \in Nat /\ Len(w) >= 2 /\ w[1] = Root
      /\ w[Len(w)] = name[Len(name)]
  <2>1. CASE is_absolute(name)
    <3>1. w = name /\ w[1] = Root
      BY <2>1 DEF Join, is_absolute
    <3>2. Len(name) # 1
      BY <1>1, <3>1 DEF Components
    <3> QED BY <1>1, <1>3, <3>1, <3>2
  <2>2. CASE ~is_absolute(name)
    <3>1. w = cur \o name
      BY <2>2 DEF Join
    <3>2. Len(cur) \in Nat \ {0} /\ Len(w) = Len(cur) + Len(name) /\ w \in Seq(D)
      BY <1>2, <1>3, <3>1
    <3>3. w[1] = cur[1]
      BY <1>1, <1>3, <3>1, <3>2
    <3>4. w[Len(cur) + Len(name)] = name[Len(name)]
      BY <1>1, <1>3, <3>1, <3>2
    <3> QED BY <1>1, <1>2, <3>2, <3>3, <3>4
  <2> QED BY <2>1, <2>2
<1>5. w \in Paths /\ w # <<>>
  <2>1. w # <<>>
    BY <1>4
  <2> QED BY <1>4, <2>1 DEF Paths, D
<1>6. /\ parent_path(w) \in Paths /\ w = parent_path(w) \o <<w[Len(w)]>>
      /\ Len(parent_path(w)) = Len(w) - 1
      /\ \A i \in 1..(Len(w) - 1) : parent_path(w)[i] = w[i]
  BY <1>5, SplitLast
<1>7. parent_path(w) \in AbsPaths
  <2>1. parent_path(w)[1] = Root
    BY <1>4, <1>6
  <2>2. parent_path(w) # <<>>
    BY <1>4, <1>6
  <2> QED BY <1>6, <2>1, <2>2 DEF AbsPaths, is_absolute
<1>8. Join(parent_path(w), filename(name)) = w
  <2> DEFINE d == parent_path(w)
  <2>1. d \in Paths /\ w = d \o <<name[Len(name)]>>
    BY <1>4, <1>6
  <2> HIDE DEF d
  <2>2. Join(d, <<name[Len(name)]>>) = d \o <<name[Len(name)]>>
    BY <1>1, <2>1, OneMore
  <2> QED BY <1>1, <2>1, <2>2 DEF d
<1> QED BY <1>5, <1>7, <1>8

\* A directory that was searched is absolute.
LEMMA FoundInSearchPath ==
  ASSUME NEW lib \in Library, lib.current_directory_ # <<>>, NEW c \in Components,
         NEW d, d = find_in_search_path(lib, <<c>>, <<c>>), d # <<>>
  PROVE  d \in AbsPaths /\ Join(d, <<c>>) \in exists
<1> DEFINE cur == current_directory_get(lib)
           at(i) == IF is_absolute(lib.search_path_[i]) THEN lib.search_path_[i]
                    ELSE Join(cur, lib.search_path_[i])
           dirs == [i \in DOMAIN lib.search_path_ |-> Join(at(i), <<c>>)]
           hits == {i \in DOMAIN dirs : find_in_directory(dirs[i], <<c>>)}
           K == {i \in hits : \A j \in hits : i <= j}
<1>1. cur \in AbsPaths /\ lib.search_path_ \in Seq(Paths)
  <2>1. lib.current_directory_ \in Seq(AbsPaths) /\ lib.search_path_ \in Seq(Paths)
    BY DEF Library
  <2>2. lib.current_directory_[1] \in AbsPaths
    BY <2>1
  <2> QED BY <2>1, <2>2 DEF current_directory_get
<1>2. d = (IF hits = {} THEN <<>> ELSE dirs[CHOOSE i \in hits : \A j \in hits : i <= j])
  BY DEF find_in_search_path
<1> HIDE DEF cur
<1>3. ASSUME NEW i \in DOMAIN lib.search_path_
      PROVE  dirs[i] \in AbsPaths
  <2>1. at(i) \in AbsPaths
    <3>1. lib.search_path_[i] \in Paths
      BY <1>1
    <3> DEFINE s == lib.search_path_[i]
    <3> HIDE DEF s
    <3>2. CASE is_absolute(s)
      BY <3>1, <3>2 DEF AbsPaths, s
    <3>3. CASE ~is_absolute(s)
      <4>1. cur \in Seq(Seq(Int)) /\ s \in Seq(Seq(Int)) /\ cur # <<>> /\ cur[1] = Root
        BY <1>1, <3>1 DEF AbsPaths, Paths, is_absolute, s
      <4> DEFINE D == Seq(Int)
      <4> HIDE DEF D
      <4>2. cur \o s \in Seq(D) /\ cur \o s # <<>> /\ (cur \o s)[1] = cur[1]
        BY <4>1 DEF D
      <4>3. cur \o s \in AbsPaths
        BY <4>1, <4>2 DEF AbsPaths, Paths, is_absolute, D
      <4> QED BY <3>3, <4>3 DEF Join, s
    <3> QED BY <3>2, <3>3
  <2> DEFINE a == at(i)
  <2> HIDE DEF a
  <2>2. a \in Paths /\ a # <<>> /\ a[1] = Root
    BY <2>1 DEF AbsPaths, is_absolute, a
  <2>3. Join(a, <<c>>) = a \o <<c>> /\ a \o <<c>> \in Paths /\ a \o <<c>> # <<>>
    BY <2>2, OneMore
  <2>4. (a \o <<c>>)[1] = Root
    <3>1. a \in Seq(Seq(Int)) /\ c \in Seq(Int)
      BY <2>2 DEF Paths, Components
    <3> DEFINE D == Seq(Int)
    <3> HIDE DEF D
    <3> QED BY <2>2, <3>1 DEF D
  <2>5. Join(a, <<c>>) \in AbsPaths
    BY <2>3, <2>4 DEF AbsPaths, is_absolute
  <2> QED BY <1>3, <2>5 DEF a
<1>4. hits \subseteq DOMAIN lib.search_path_ /\ DOMAIN lib.search_path_ \subseteq Nat
  <2>1. DOMAIN lib.search_path_ \subseteq Nat
    BY <1>1
  <2> QED BY <2>1
<1>5. hits # {}
  BY <1>2
<1> DEFINE k == CHOOSE i \in hits : \A j \in hits : i <= j
<1>6. k \in hits
  <2> HIDE DEF hits
  <2>1. \E i \in hits : \A j \in hits : i <= j
    BY <1>4, <1>5, LeastElement
  <2> QED BY <2>1
<1>7. d = dirs[k]
  BY <1>2, <1>5
<1>8. k \in DOMAIN lib.search_path_ /\ find_in_directory(dirs[k], <<c>>)
  BY <1>4, <1>6
<1> HIDE DEF k
<1>9. dirs[k] \in AbsPaths
  BY <1>3, <1>8
<1> QED BY <1>7, <1>8, <1>9 DEF find_in_directory

LEMMA FileIsFound ==
  ASSUME NEW lib \in Library, lib.current_directory_ # <<>>, NEW name \in Names
  PROVE  Found(lib, name)
<1> DEFINE d == find_file(lib, name)
           c == name[Len(name)]
           cur == current_directory_get(lib)
<1>1. SUFFICES ASSUME d # <<>>
               PROVE  /\ d \in AbsPaths /\ Join(d, filename(name)) \in exists
                      /\ Join(d, filename(name)) \in Paths
                      /\ parent_path(Join(d, filename(name))) = d
  BY DEF Found
<1>2. /\ name \in Paths /\ name # <<>> /\ Len(name) \in Nat \ {0}
      /\ c \in Components /\ filename(name) = <<c>>
  BY NameParts
<1>3. cur \in AbsPaths
  <2>1. lib.current_directory_ \in Seq(AbsPaths)
    BY DEF Library
  <2>2. lib.current_directory_[1] \in AbsPaths
    BY <2>1
  <2> QED BY <2>2 DEF current_directory_get
<1> HIDE DEF c, cur
<1>4. ~is_absolute(<<c>>)
  BY <1>2, <1>3, OneMore DEF AbsPaths
<1>5. CASE find_in_directory(cur, name)
  <2> DEFINE w == Join(cur, name)
  <2>1. /\ parent_path(w) \in AbsPaths /\ w \in Paths
        /\ Join(parent_path(w), filename(name)) = w
    BY <1>3, FoundInDirectory
  <2>2. d = parent_path(w)
    BY <1>2, <1>4, <1>5 DEF find_file, cur
  <2>3. w \in exists
    BY <1>5 DEF find_in_directory
  <2> HIDE DEF w, d
  <2> QED BY <2>1, <2>2, <2>3
<1>6. CASE ~find_in_directory(cur, name)
  <2>1. d = find_in_search_path(lib, <<c>>, <<c>>)
    BY <1>2, <1>4, <1>6 DEF find_file, cur
  <2> HIDE DEF d
  <2>2. d \in AbsPaths /\ Join(d, <<c>>) \in exists
    BY <1>1, <1>2, <2>1, FoundInSearchPath
  <2>3. d \in Paths
    BY <2>2 DEF AbsPaths
  <2>4. Join(d, <<c>>) = d \o <<c>> /\ d \o <<c>> \in Paths /\ parent_path(d \o <<c>>) = d
    BY <1>2, <2>3, OneMore
  <2> QED BY <1>2, <2>2, <2>4
<1> QED BY <1>5, <1>6

-----------------------------------------------------------------------------
(* The stacks. *)

\* n of the files that are read are imports: a directory, an open file and a place
\* to go back to for each.
Stacked(fr, n, dirs, open, loc) ==
  /\ n \in 0..Len(fr)
  /\ Len(dirs) = n + 2 /\ \A i \in 1..n : dirs[i] = parent_path(fr[i].path)
  /\ open = [p \in DOMAIN open |-> open[p]]
  /\ DOMAIN open = {fr[i].path : i \in 1..n}
  /\ \A i, j \in 1..n : fr[i].path = fr[j].path => i = j
  /\ \A i \in 1..n : i < Len(fr) => open[fr[i].path] = fr[i + 1].path
  /\ \A i \in 1..(Len(fr) - 1) : fr[i].saved = fr[i + 1].path
  /\ fr # <<>> => loc = fr[1].path

TypeOK ==
  /\ main \in Texts /\ (prelude = <<>> \/ prelude \in Names)
  /\ options \in Seq([name : {"P", "p"}, dir : Paths])
  /\ l \in Library /\ library_ \in Library
  /\ frames \in Seq(Range(frames)) /\ \A i \in 1..Len(frames) : IsCall(frames[i])

\* The tasks' library has the directory of the program on the working directory
\* from when the program is read to when tc has its tree.
Phases ==
  /\ status = "options" => frames = <<>> /\ open_files_ = <<>> /\ l.current_directory_ = <<cwd>>
  /\ status \in {"file", "prelude", "tweast"} =>
       Len(l.current_directory_) = 2 /\ l.current_directory_[2] = cwd
  /\ status = "file" => frames # <<>>
  /\ status \in {"file", "prelude"} =>
       Stacked(frames, Importing, library_.current_directory_, open_files_, location_)
  /\ status = "tweast" => open_files_ = <<>>
  /\ status = "parsed" => l.current_directory_ = <<cwd>> /\ open_files_ = <<>>

DriverInv == TypeOK /\ Phases

\* A file that is not open is read.
LEMMA PushStacked ==
  ASSUME NEW S, NEW fr \in Seq(S), NEW c, NEW n \in Nat, NEW D, NEW dirs \in Seq(D), NEW open,
         NEW loc, NEW from, NEW d \in D,
         Stacked(fr, n, dirs, open, loc), c.path \notin DOMAIN open,
         fr # <<>> => from = fr[1].path, c.saved = loc, d = parent_path(c.path)
  PROVE  Stacked(<<c>> \o fr, n + 1, <<d>> \o dirs, With(open, c.path, from), c.path)
<1> DEFINE gr == <<c>> \o fr
           op == With(open, c.path, from)
           ds == <<d>> \o dirs
<1>1. /\ gr \in Seq(S \cup {c}) /\ Len(gr) = Len(fr) + 1 /\ Len(fr) \in Nat /\ gr[1] = c /\ gr # <<>>
      /\ \A i \in 1..Len(fr) : gr[i + 1] = fr[i]
  OBVIOUS
<1>2. /\ Len(ds) = Len(dirs) + 1 /\ Len(dirs) \in Nat /\ ds[1] = d
      /\ \A i \in 1..Len(dirs) : ds[i + 1] = dirs[i]
  OBVIOUS
<1>3. n <= Len(fr) /\ Len(dirs) = n + 2
  BY DEF Stacked
<1>4. /\ op = [p \in DOMAIN op |-> op[p]] /\ DOMAIN op = {c.path} \cup DOMAIN open
      /\ op[c.path] = from /\ \A p \in DOMAIN open : op[p] = open[p]
  BY DEF With
<1> HIDE DEF gr, op, ds
<1>5. \A i \in 2..(n + 1) : \E j \in 1..n : i = j + 1
  <2>1. \A i \in 2..(n + 1) : i - 1 \in 1..n /\ i = (i - 1) + 1
    OBVIOUS
  <2> QED BY <2>1
<1>6. \A j \in 1..n : j + 1 \in 2..(n + 1) /\ j \in 1..Len(fr) /\ j \in 1..Len(dirs)
  BY <1>1, <1>3
<1>7. \A i \in 1..(n + 1) : i = 1 \/ i \in 2..(n + 1)
  OBVIOUS
<1>8. \A i \in 1..(n + 1) : ds[i] = parent_path(gr[i].path)
  <2>1. ds[1] = parent_path(gr[1].path)
    BY <1>1, <1>2
  <2>2. \A j \in 1..n : ds[j + 1] = parent_path(gr[j + 1].path)
    BY <1>1, <1>2, <1>6 DEF Stacked
  <2> QED BY <1>5, <1>7, <2>1, <2>2
<1>9. DOMAIN op = {gr[i].path : i \in 1..(n + 1)}
  <2>1. DOMAIN open = {fr[j].path : j \in 1..n}
    BY DEF Stacked
  <2>2. \A j \in 1..n : gr[j + 1].path = fr[j].path /\ j + 1 \in 1..(n + 1)
    BY <1>1, <1>6
  <2>3. 1 \in 1..(n + 1)
    OBVIOUS
  <2>4. ASSUME NEW p \in DOMAIN op PROVE \E i \in 1..(n + 1) : p = gr[i].path
    <3>1. CASE p = c.path
      BY <1>1, <2>3, <3>1
    <3>2. CASE p # c.path
      <4>1. PICK j \in 1..n : p = fr[j].path
        BY <1>4, <2>1, <3>2
      <4> QED BY <2>2, <4>1
    <3> QED BY <3>1, <3>2
  <2>5. ASSUME NEW i \in 1..(n + 1) PROVE gr[i].path \in DOMAIN op
    <3>1. CASE i = 1
      BY <1>1, <1>4, <3>1
    <3>2. CASE i # 1
      <4>1. PICK j \in 1..n : i = j + 1
        BY <1>5, <1>7, <3>2
      <4> QED BY <1>4, <2>1, <2>2, <4>1
    <3> QED BY <3>1, <3>2
  <2> QED BY <2>4, <2>5
<1>10. \A i, j \in 1..(n + 1) : gr[i].path = gr[j].path => i = j
  <2>1. \A i \in 1..n : gr[i + 1].path = fr[i].path /\ fr[i].path \in DOMAIN open
    BY <1>1, <1>6 DEF Stacked
  <2>2. \A i, j \in 1..n : gr[i + 1].path = gr[j + 1].path => i = j
    <3>1. \A i, j \in 1..n : fr[i].path = fr[j].path => i = j
      BY DEF Stacked
    <3> QED BY <2>1, <3>1
  <2>3. \A i \in 1..n : gr[i + 1].path # gr[1].path
    BY <1>1, <2>1
  <2>4. SUFFICES ASSUME NEW i \in 1..(n + 1), NEW j \in 1..(n + 1), gr[i].path = gr[j].path
                 PROVE  i = j
    OBVIOUS
  <2>5. CASE i = 1 /\ j # 1
    <3>1. PICK k \in 1..n : j = k + 1
      BY <1>5, <1>7, <2>5
    <3> QED BY <2>3, <2>4, <2>5, <3>1
  <2>6. CASE i # 1 /\ j = 1
    <3>1. PICK k \in 1..n : i = k + 1
      BY <1>5, <1>7, <2>6
    <3> QED BY <2>3, <2>4, <2>6, <3>1
  <2>7. CASE i # 1 /\ j # 1
    <3>1. PICK k \in 1..n : i = k + 1
      BY <1>5, <1>7, <2>7
    <3>2. PICK m \in 1..n : j = m + 1
      BY <1>5, <1>7, <2>7
    <3> QED BY <2>2, <2>4, <3>1, <3>2
  <2> QED BY <2>5, <2>6, <2>7
<1>11. \A i \in 1..(n + 1) : i < Len(gr) => op[gr[i].path] = gr[i + 1].path
  <2>1. \A i \in 1..n : i < Len(fr) =>
          gr[i + 1].path = fr[i].path /\ fr[i].path \in DOMAIN open
          /\ open[fr[i].path] = fr[i + 1].path /\ gr[(i + 1) + 1] = fr[i + 1]
    <3>1. \A i \in 1..n : i < Len(fr) => i + 1 \in 1..Len(fr)
      BY <1>1
    <3> QED BY <1>1, <1>6, <3>1 DEF Stacked
  <2>2. 1 < Len(gr) => op[gr[1].path] = gr[1 + 1].path
    <3>1. 1 < Len(gr) => fr # <<>> /\ 1 \in 1..Len(fr)
      BY <1>1
    <3>2. 1 < Len(gr) => gr[1 + 1] = fr[1]
      BY <1>1, <3>1
    <3> QED BY <1>1, <1>4, <3>1, <3>2
  <2>3. \A i \in 1..n : i + 1 < Len(gr) => i < Len(fr)
    BY <1>1
  <2>4. \A i \in 1..n : i + 1 < Len(gr) => op[gr[i + 1].path] = gr[(i + 1) + 1].path
    <3>1. SUFFICES ASSUME NEW i \in 1..n, i + 1 < Len(gr)
                   PROVE  op[gr[i + 1].path] = gr[(i + 1) + 1].path
      OBVIOUS
    <3>2. i < Len(fr)
      BY <2>3, <3>1
    <3>3. gr[i + 1].path \in DOMAIN open /\ open[gr[i + 1].path] = gr[(i + 1) + 1].path
      BY <2>1, <3>2
    <3> QED BY <1>4, <3>3
  <2> QED BY <1>5, <1>7, <2>2, <2>4
<1>12. \A i \in 1..(Len(gr) - 1) : gr[i].saved = gr[i + 1].path
  <2>1. SUFFICES ASSUME NEW i \in 1..(Len(gr) - 1) PROVE gr[i].saved = gr[i + 1].path
    OBVIOUS
  <2>2. i \in 1..Len(fr) /\ gr[i + 1] = fr[i] /\ fr # <<>>
    BY <1>1, <2>1
  <2>3. CASE i = 1
    BY <1>1, <2>2, <2>3 DEF Stacked
  <2>4. CASE i # 1
    <3>1. PICK j \in 1..(Len(fr) - 1) : i = j + 1
      <4>1. i - 1 \in 1..(Len(fr) - 1) /\ i = (i - 1) + 1
        BY <1>1, <2>2, <2>4
      <4> QED BY <4>1
    <3>2. j \in 1..Len(fr)
      BY <1>1, <3>1
    <3>3. gr[j + 1] = fr[j] /\ fr[j].saved = fr[j + 1].path
      BY <1>1, <3>1, <3>2 DEF Stacked
    <3> QED BY <2>2, <3>1, <3>3
  <2> QED BY <2>3, <2>4
<1>13. n + 1 \in 0..Len(gr) /\ Len(ds) = (n + 1) + 2
  BY <1>1, <1>2, <1>3
<1>14. gr # <<>> => c.path = gr[1].path
  BY <1>1
<1>15. Stacked(gr, n + 1, ds, op, c.path)
  BY <1>4, <1>8, <1>9, <1>10, <1>11, <1>12, <1>13, <1>14 DEF Stacked
<1> QED BY <1>15 DEF gr, op, ds

\* A file that was an import has been read.
LEMMA PopStacked ==
  ASSUME NEW S, NEW fr \in Seq(S), NEW n \in Nat \ {0}, NEW D, NEW dirs \in Seq(D), NEW open, NEW loc,
         Stacked(fr, n, dirs, open, loc)
  PROVE  Stacked(Tail(fr), n - 1, Tail(dirs),
                 [p \in DOMAIN open \ {fr[1].path} |-> open[p]], fr[1].saved)
<1> DEFINE gr == Tail(fr)
           op == [p \in DOMAIN open \ {fr[1].path} |-> open[p]]
           ds == Tail(dirs)
<1>1. n <= Len(fr) /\ Len(dirs) = n + 2 /\ Len(fr) \in Nat /\ Len(dirs) \in Nat
  BY DEF Stacked
<1>2. fr # <<>> /\ dirs # <<>>
  BY <1>1
<1>3. gr \in Seq(S) /\ Len(gr) = Len(fr) - 1 /\ \A i \in 1..(Len(fr) - 1) : gr[i] = fr[i + 1]
  BY <1>2
<1>4. Len(ds) = Len(dirs) - 1 /\ \A i \in 1..(Len(dirs) - 1) : ds[i] = dirs[i + 1]
  BY <1>2
<1>5. /\ op = [p \in DOMAIN op |-> op[p]] /\ DOMAIN op = DOMAIN open \ {fr[1].path}
      /\ \A p \in DOMAIN op : op[p] = open[p]
  OBVIOUS
<1> HIDE DEF gr, op, ds
<1>6. \A i \in 1..(n - 1) : i + 1 \in 1..n /\ i \in 1..(Len(fr) - 1) /\ i \in 1..(Len(dirs) - 1)
  BY <1>1
<1>7. n - 1 \in 0..Len(gr) /\ Len(ds) = (n - 1) + 2
  BY <1>1, <1>3, <1>4
<1>8. \A i \in 1..(n - 1) : ds[i] = parent_path(gr[i].path)
  BY <1>3, <1>4, <1>6 DEF Stacked
<1>9. \A i \in 1..(n - 1) : gr[i].path = fr[i + 1].path /\ i + 1 # 1
  BY <1>3, <1>6
<1>10. 1 \in 1..n
  OBVIOUS
<1>11. \A i, j \in 1..n : fr[i].path = fr[j].path => i = j
  BY DEF Stacked
<1>12. DOMAIN op = {gr[i].path : i \in 1..(n - 1)}
  <2>1. DOMAIN open = {fr[i].path : i \in 1..n}
    BY DEF Stacked
  <2>2. ASSUME NEW p \in DOMAIN op PROVE \E i \in 1..(n - 1) : p = gr[i].path
    <3>1. PICK k \in 1..n : p = fr[k].path
      BY <1>5, <2>1
    <3>2. k # 1
      BY <1>5, <3>1
    <3>3. PICK i \in 1..(n - 1) : k = i + 1
      <4>1. k - 1 \in 1..(n - 1) /\ k = (k - 1) + 1
        BY <3>2
      <4> QED BY <4>1
    <3> QED BY <1>9, <3>1, <3>3
  <2>3. ASSUME NEW i \in 1..(n - 1) PROVE gr[i].path \in DOMAIN op
    BY <1>5, <1>6, <1>9, <1>10, <1>11, <2>1
  <2> QED BY <2>2, <2>3
<1>13. \A i, j \in 1..(n - 1) : gr[i].path = gr[j].path => i = j
  <2>1. SUFFICES ASSUME NEW i \in 1..(n - 1), NEW j \in 1..(n - 1), gr[i].path = gr[j].path
                 PROVE  i = j
    OBVIOUS
  <2>2. i + 1 = j + 1
    BY <1>6, <1>9, <1>11, <2>1
  <2> QED BY <2>2
<1>14. \A i \in 1..(n - 1) : i < Len(gr) => op[gr[i].path] = gr[i + 1].path
  <2>1. SUFFICES ASSUME NEW i \in 1..(n - 1), i < Len(gr)
                 PROVE  op[gr[i].path] = gr[i + 1].path
    OBVIOUS
  <2>2. i + 1 \in 1..n /\ i + 1 < Len(fr) /\ i + 1 \in 1..(Len(fr) - 1)
    BY <1>1, <1>3, <1>6, <2>1
  <2>3. open[fr[i + 1].path] = fr[(i + 1) + 1].path
    BY <2>2 DEF Stacked
  <2>4. gr[i + 1] = fr[(i + 1) + 1]
    BY <1>3, <2>2
  <2>5. gr[i].path \in DOMAIN op
    BY <1>12
  <2> QED BY <1>5, <1>9, <2>3, <2>4, <2>5
<1>15. \A i \in 1..(Len(gr) - 1) : gr[i].saved = gr[i + 1].path
  <2>1. SUFFICES ASSUME NEW i \in 1..(Len(gr) - 1) PROVE gr[i].saved = gr[i + 1].path
    OBVIOUS
  <2>2. i \in 1..(Len(fr) - 1) /\ i + 1 \in 1..(Len(fr) - 1)
    BY <1>1, <1>3, <2>1
  <2> QED BY <1>3, <2>2 DEF Stacked
<1>16. gr # <<>> => fr[1].saved = gr[1].path
  <2>1. SUFFICES ASSUME gr # <<>> PROVE fr[1].saved = gr[1].path
    OBVIOUS
  <2>2. 1 \in 1..(Len(fr) - 1)
    BY <1>1, <1>3, <2>1
  <2>3. gr[1] = fr[1 + 1] /\ fr[1].saved = fr[1 + 1].path
    BY <1>3, <2>2 DEF Stacked
  <2> QED BY <2>3
<1>17. Stacked(gr, n - 1, ds, op, fr[1].saved)
  BY <1>5, <1>7, <1>8, <1>12, <1>13, <1>14, <1>15, <1>16 DEF Stacked
<1> QED BY <1>17 DEF gr, op, ds

\* Nothing that the innermost file is read with is on a stack.
LEMMA KeepStacked ==
  ASSUME NEW S, NEW fr \in Seq(S), NEW R, NEW gr \in Seq(R), NEW n, NEW dirs, NEW open, NEW loc,
         Stacked(fr, n, dirs, open, loc), Len(gr) = Len(fr),
         \A i \in 1..Len(fr) : gr[i].path = fr[i].path /\ gr[i].saved = fr[i].saved
  PROVE  Stacked(gr, n, dirs, open, loc)
<1>1. Len(fr) \in Nat /\ n \in 0..Len(fr)
  BY DEF Stacked
<1>2. (fr # <<>> <=> gr # <<>>) /\ (fr # <<>> => 1 \in 1..Len(fr))
  BY <1>1
<1>3. \A i \in 1..n : i \in 1..Len(fr) /\ (i < Len(fr) => i + 1 \in 1..Len(fr))
  BY <1>1
<1>4. \A i \in 1..(Len(fr) - 1) : i \in 1..Len(fr) /\ i + 1 \in 1..Len(fr)
  BY <1>1
<1>5. \A i \in 1..n : dirs[i] = parent_path(gr[i].path)
  BY <1>3 DEF Stacked
<1>6. DOMAIN open = {gr[i].path : i \in 1..n}
  <2>1. DOMAIN open = {fr[i].path : i \in 1..n}
    BY DEF Stacked
  <2>2. \A i \in 1..n : gr[i].path = fr[i].path
    BY <1>3
  <2> QED BY <2>1, <2>2
<1>7. \A i, j \in 1..n : gr[i].path = gr[j].path => i = j
  BY <1>3 DEF Stacked
<1>8. \A i \in 1..n : i < Len(gr) => open[gr[i].path] = gr[i + 1].path
  BY <1>3 DEF Stacked
<1>9. \A i \in 1..(Len(gr) - 1) : gr[i].saved = gr[i + 1].path
  BY <1>4 DEF Stacked
<1>10. gr # <<>> => loc = gr[1].path
  BY <1>2 DEF Stacked
<1> QED BY <1>1, <1>5, <1>6, <1>7, <1>8, <1>9, <1>10 DEF Stacked

-----------------------------------------------------------------------------
(* What the operations keep. *)

\* The directory that is pushed is absolute.
LEMMA PushType ==
  ASSUME NEW lib \in Library, lib.current_directory_ # <<>>, NEW d \in Paths
  PROVE  /\ push_current_directory(lib, d) \in Library
         /\ \E e \in AbsPaths :
              /\ push_current_directory(lib, d).current_directory_ = <<e>> \o lib.current_directory_
              /\ d \in AbsPaths => e = d
<1> DEFINE cur == current_directory_get(lib)
           e == IF is_absolute(d) THEN d ELSE Join(cur, d)
<1>1. cur \in AbsPaths /\ lib.current_directory_ \in Seq(AbsPaths) /\ lib.search_path_ \in Seq(Paths)
  <2>1. lib.current_directory_ \in Seq(AbsPaths) /\ lib.search_path_ \in Seq(Paths)
    BY DEF Library
  <2>2. lib.current_directory_[1] \in AbsPaths
    BY <2>1
  <2> QED BY <2>1, <2>2 DEF current_directory_get
<1> HIDE DEF cur
<1>2. e \in AbsPaths
  <2>1. CASE is_absolute(d)
    BY <2>1 DEF AbsPaths
  <2>2. CASE ~is_absolute(d)
    <3> DEFINE D == Seq(Int)
    <3>1. cur \in Seq(D) /\ d \in Seq(D) /\ cur # <<>> /\ cur[1] = Root
      BY <1>1 DEF AbsPaths, Paths, is_absolute
    <3> HIDE DEF D
    <3>2. cur \o d \in Seq(D) /\ cur \o d # <<>> /\ (cur \o d)[1] = cur[1]
      BY <3>1
    <3>3. cur \o d \in AbsPaths
      BY <3>1, <3>2 DEF AbsPaths, Paths, is_absolute, D
    <3> QED BY <2>2, <3>3 DEF Join
  <2> QED BY <2>1, <2>2
<1>3. d \in AbsPaths => e = d
  BY DEF AbsPaths
<1>4. push_current_directory(lib, d) = [lib EXCEPT !.current_directory_ = <<e>> \o lib.current_directory_]
  BY DEF push_current_directory, cur
<1> HIDE DEF e
<1> DEFINE ds == <<e>> \o lib.current_directory_
<1>5. ds \in Seq(AbsPaths)
  BY <1>1, <1>2
<1> HIDE DEF ds
<1>6. [lib EXCEPT !.current_directory_ = ds] \in Library
      /\ [lib EXCEPT !.current_directory_ = ds].current_directory_ = ds
  BY <1>5 DEF Library
<1> QED BY <1>2, <1>3, <1>4, <1>6 DEF ds

LEMMA PopType ==
  ASSUME NEW lib \in Library, lib.current_directory_ # <<>>
  PROVE  /\ pop_current_directory(lib) \in Library
         /\ pop_current_directory(lib).current_directory_ = Tail(lib.current_directory_)
<1> DEFINE ds == Tail(lib.current_directory_)
<1>1. lib.current_directory_ \in Seq(AbsPaths)
  BY DEF Library
<1>2. ds \in Seq(AbsPaths)
  BY <1>1
<1> HIDE DEF ds
<1>3. [lib EXCEPT !.current_directory_ = ds] \in Library
      /\ [lib EXCEPT !.current_directory_ = ds].current_directory_ = ds
  BY <1>2 DEF Library
<1> QED BY <1>3 DEF pop_current_directory, ds

LEMMA SearchType ==
  ASSUME NEW lib \in Library, lib.current_directory_ # <<>>, NEW d \in Paths
  PROVE  /\ append_dir(lib, d) \in Library /\ prepend_dir(lib, d) \in Library
         /\ append_dir(lib, d).current_directory_ = lib.current_directory_
         /\ prepend_dir(lib, d).current_directory_ = lib.current_directory_
<1> DEFINE e == ensure_absolute_path(lib, d)
<1>1. lib.current_directory_ \in Seq(AbsPaths) /\ lib.search_path_ \in Seq(Paths)
  BY DEF Library
<1>2. e \in Paths
  <2> DEFINE D == Seq(Int)
  <2>1. current_directory_get(lib) \in Seq(D) /\ d \in Seq(D)
    <3>1. lib.current_directory_[1] \in AbsPaths
      BY <1>1
    <3> QED BY <3>1 DEF current_directory_get, AbsPaths, Paths
  <2> HIDE DEF D
  <2>2. current_directory_get(lib) \o d \in Seq(D)
    BY <2>1
  <2> QED BY <2>1, <2>2 DEF ensure_absolute_path, Join, Paths, D
<1> HIDE DEF e
<1> DEFINE after == Append(lib.search_path_, e)
           before == <<e>> \o lib.search_path_
<1>3. after \in Seq(Paths) /\ before \in Seq(Paths)
  BY <1>1, <1>2
<1> HIDE DEF after, before
<1>4. /\ [lib EXCEPT !.search_path_ = after] \in Library
      /\ [lib EXCEPT !.search_path_ = before] \in Library
      /\ [lib EXCEPT !.search_path_ = after].current_directory_ = lib.current_directory_
      /\ [lib EXCEPT !.search_path_ = before].current_directory_ = lib.current_directory_
  BY <1>3 DEF Library
<1> QED BY <1>4 DEF append_dir, prepend_dir, after, before, e

\* The innermost file with another value in place.
LEMMA FirstReplaced ==
  ASSUME NEW S, NEW fr \in Seq(S), fr # <<>>, NEW g
  PROVE  /\ [fr EXCEPT ![1] = g] \in Seq(S \cup {g}) /\ Len([fr EXCEPT ![1] = g]) = Len(fr)
         /\ [fr EXCEPT ![1] = g][1] = g
         /\ \A i \in 2..Len(fr) : [fr EXCEPT ![1] = g][i] = fr[i]
<1>1. Len(fr) \in Nat \ {0}
  OBVIOUS
<1> QED BY <1>1

LEMMA CallType ==
  ASSUME NEW path \in Paths, NEW text \in Texts
  PROVE  IsCall(Call(path, text)) /\ Call(path, text).path = path /\ Call(path, text).saved = location_
<1>1. Lexer \in Lexers
  <2>1. "INITIAL" \in Starts /\ <<>> \in Texts /\ 0 \in Int
    BY DEF Starts, Texts
  <2> QED BY <2>1 DEF Lexer, Lexers
<1>2. <<>> \in Seq(Toks) /\ 0 \in Nat
  OBVIOUS
<1> DEFINE x == Lexer
<1> HIDE DEF x
<1>3. Call(path, text) = [path |-> path, text |-> text, lexer |-> x, tokens |-> <<>>,
                          served |-> 0, import |-> <<>>, saved |-> location_]
  BY DEF Call, x
<1>4. x \in Lexers
  BY <1>1 DEF x
<1> QED BY <1>2, <1>3, <1>4 DEF IsCall

\* The text of a file.
LEMMA TextType ==
  ASSUME main \in Texts, NEW path \in exists
  PROVE  TextOf(path) \in Texts
BY ExistsAssumption, PathsAssumption DEF TextOf

LEMMA TheFile ==
  ASSUME TypeOK, frames # <<>>
  PROVE  /\ Len(frames) \in Nat \ {0} /\ file = frames[1] /\ IsCall(file)
         /\ frames \in Seq(Range(frames))
<1>1. frames \in Seq(Range(frames))
  BY DEF TypeOK
<1>2. Len(frames) \in Nat \ {0}
  BY <1>1
<1>3. 1 \in 1..Len(frames)
  BY <1>2
<1> QED BY <1>1, <1>2, <1>3 DEF TypeOK, file

-----------------------------------------------------------------------------
(* The innermost file, changed. *)

\* Its path and where to go back to stay.
SameCall(f, g) == IsCall(g) /\ g.path = f.path /\ g.saved = f.saved

Returned(f, given, n) == [f EXCEPT !.import = given, !.served = n]
Scanned(f, lexer, text, tokens) == [f EXCEPT !.lexer = lexer, !.text = text, !.tokens = tokens]

LEMMA ReturnedCall ==
  ASSUME NEW f, IsCall(f), NEW given, NEW n \in Nat
  PROVE  SameCall(f, Returned(f, given, n))
<1> DEFINE Im == {f.import}
           Gv == {given}
           Sv == {f.saved}
           Tk == Seq(Toks)
<1>1. /\ f \in [path : Paths, text : Texts, lexer : Lexers, tokens : Tk, served : Nat,
                import : Im, saved : Sv]
      /\ given \in Gv
  BY DEF IsCall
<1> HIDE DEF Im, Gv, Sv, Tk
<1>2. /\ Returned(f, given, n) \in [path : Paths, text : Texts, lexer : Lexers, tokens : Tk,
                                    served : Nat, import : Gv, saved : Sv]
      /\ Returned(f, given, n).path = f.path
  BY <1>1 DEF Returned
<1> DEFINE g == Returned(f, given, n)
<1> HIDE DEF g
<1>3. g.import = given /\ g.saved = f.saved
  BY <1>2 DEF Gv, Sv, g
<1>4. IsCall(g) /\ g.path = f.path
  BY <1>2, <1>3 DEF IsCall, g, Gv, Sv, Tk
<1> QED BY <1>3, <1>4 DEF g, SameCall

LEMMA ScannedCall ==
  ASSUME NEW f, IsCall(f), NEW lexer \in Lexers, NEW text \in Texts, NEW tokens \in Seq(Toks)
  PROVE  SameCall(f, Scanned(f, lexer, text, tokens))
<1> DEFINE Im == {f.import}
           Sv == {f.saved}
           Tk == Seq(Toks)
           g  == Scanned(f, lexer, text, tokens)
<1>1. /\ f \in [path : Paths, text : Texts, lexer : Lexers, tokens : Tk, served : Nat,
                import : Im, saved : Sv]
      /\ tokens \in Tk
  BY DEF IsCall
<1> HIDE DEF Im, Sv, Tk
<1>2. /\ g \in [path : Paths, text : Texts, lexer : Lexers, tokens : Tk, served : Nat,
                import : Im, saved : Sv]
      /\ g.path = f.path
  BY <1>1 DEF Scanned
<1> HIDE DEF g
<1>3. g.import = f.import /\ g.saved = f.saved
  BY <1>2 DEF Im, Sv
<1>4. IsCall(g)
  BY <1>2, <1>3 DEF IsCall, Im, Sv, Tk
<1> QED BY <1>2, <1>3, <1>4 DEF g, SameCall

\* The calls that are under way are the same, but for what the innermost has read.
SameCalls(fr, gr) ==
  /\ gr \in Seq(Range(gr)) /\ Len(gr) = Len(fr) /\ \A i \in 1..Len(gr) : IsCall(gr[i])
  /\ \A i \in 1..Len(fr) : gr[i].path = fr[i].path /\ gr[i].saved = fr[i].saved

LEMMA FirstChanged ==
  ASSUME NEW S, NEW fr \in Seq(S), fr # <<>>, \A i \in 1..Len(fr) : IsCall(fr[i]),
         NEW g, IsCall(g), g.path = fr[1].path, g.saved = fr[1].saved
  PROVE  SameCalls(fr, [fr EXCEPT ![1] = g])
<1> DEFINE gr == [fr EXCEPT ![1] = g]
<1>1. /\ gr \in Seq(S \cup {g}) /\ Len(gr) = Len(fr) /\ gr[1] = g
      /\ \A i \in 2..Len(fr) : gr[i] = fr[i]
  BY FirstReplaced
<1> HIDE DEF gr
<1>2. gr \in Seq(Range(gr))
  BY <1>1, SeqOfRange
<1>3. \A i \in 1..Len(fr) : i = 1 \/ i \in 2..Len(fr)
  OBVIOUS
<1>4. \A i \in 1..Len(fr) : IsCall(gr[i]) /\ gr[i].path = fr[i].path /\ gr[i].saved = fr[i].saved
  BY <1>1, <1>3
<1>5. SameCalls(fr, gr)
  BY <1>1, <1>2, <1>4 DEF SameCalls
<1> QED BY <1>5 DEF gr

\* parse_import returns to a file, or to parse with the chunks of the prelude.
LEMMA ReturnKeeps ==
  ASSUME NEW S, NEW fs \in Seq(S), \A i \in 1..Len(fs) : IsCall(fs[i]), NEW chunks,
         Return(fs, chunks)
  PROVE  /\ SameCalls(fs, frames')
         /\ fs = <<>> => status' = "tweast"
         /\ fs # <<>> => status' = status \/ status' = "undefined"
<1>1. CASE fs = <<>>
  <2>1. frames' = <<>> /\ status' = "tweast"
    BY <1>1 DEF Return
  <2>2. SameCalls(fs, frames')
    <3>1. frames' \in Seq(S) /\ Len(frames') = 0
      BY <2>1
    <3>2. frames' \in Seq(Range(frames'))
      BY <3>1, SeqOfRange
    <3> QED BY <1>1, <3>1, <3>2 DEF SameCalls
  <2> QED BY <1>1, <2>1, <2>2
<1>2. CASE fs # <<>>
  <2> DEFINE given == With(fs[1].import, Last(fs[1].tokens)[2], chunks)
             n == Len(fs[1].tokens)
             g == Returned(fs[1], given, n)
  <2>1. 1 \in 1..Len(fs)
    BY <1>2
  <2>2. IsCall(fs[1]) /\ n \in Nat
    <3>1. IsCall(fs[1])
      BY <2>1
    <3> QED BY <3>1 DEF IsCall
  <2>3. frames' = [fs EXCEPT ![1].import = given, ![1].served = n]
    BY <1>2 DEF Return
  <2> HIDE DEF given, n
  <2>4. IsCall(g) /\ g.path = fs[1].path /\ g.saved = fs[1].saved
    <3>1. SameCall(fs[1], Returned(fs[1], given, n))
      BY <2>2, ReturnedCall
    <3> QED BY <3>1 DEF SameCall
  <2>5. [fs EXCEPT ![1].import = given, ![1].served = n] = [fs EXCEPT ![1] = g]
    BY <2>1 DEF Returned
  <2> HIDE DEF g
  <2>6. SameCalls(fs, frames')
    BY <1>2, <2>3, <2>4, <2>5, FirstChanged
  <2>7. status' = status \/ status' = "undefined"
    BY <1>2 DEF Return
  <2> QED BY <1>2, <2>6, <2>7
<1> QED BY <1>1, <1>2

-----------------------------------------------------------------------------
(* Every operation keeps the stacks. *)

LEMMA NoCalls ==
  ASSUME NEW fr, fr = <<>>
  PROVE  fr \in Seq(Range(fr)) /\ Len(fr) = 0 /\ \A i \in 1..Len(fr) : IsCall(fr[i])
<1>1. fr \in Seq(Int) /\ Len(fr) = 0
  OBVIOUS
<1> QED BY <1>1, SeqOfRange

\* A function on no value is the empty one.
LEMMA NoneOpen ==
  ASSUME NEW open, open = [p \in DOMAIN open |-> open[p]], DOMAIN open = {}
  PROVE  open = <<>>
OBVIOUS

\* An option keeps its name, and its directory becomes one of a directory option.
LEMMA StoredType ==
  ASSUME NEW P, NEW given \in Seq([name : {"P", "p"}, dir : P])
  PROVE  Stored(given) \in Seq([name : {"P", "p"}, dir : P])
<1> DEFINE N == {"P", "p"}
           O == [name : N, dir : P]
           Is(name, i) == given[i].name = name /\ \A j \in DOMAIN given : given[j].name = name => j <= i
           last(name) == CHOOSE i \in DOMAIN given : Is(name, i)
<1>1. given \in Seq(O) /\ DOMAIN given = 1..Len(given) /\ Len(given) \in Nat
  OBVIOUS
<1>2. Stored(given) = [i \in DOMAIN given |-> [given[i] EXCEPT !.dir = given[last(given[i].name)].dir]]
  BY DEF Stored
<1> HIDE DEF N
<1>3. ASSUME NEW i \in DOMAIN given
      PROVE  last(given[i].name) \in DOMAIN given
  <2> DEFINE name == given[i].name
             Gaps == {Len(given) - k : k \in {m \in 1..Len(given) : given[m].name = name}}
  <2>1. Gaps \subseteq Nat
    BY <1>1
  <2>2. Gaps # {}
    <3>1. Len(given) - i \in Gaps
      BY <1>1
    <3> QED BY <3>1
  <2> HIDE DEF Gaps
  <2>3. PICK n \in Gaps : \A m \in Gaps : n <= m
    BY <2>1, <2>2, LeastElement
  <2>4. PICK k \in 1..Len(given) : given[k].name = name /\ n = Len(given) - k
    BY <2>3 DEF Gaps
  <2>5. ASSUME NEW j \in DOMAIN given, given[j].name = name
        PROVE  j <= k
    <3>1. Len(given) - j \in Gaps /\ j \in 1..Len(given)
      BY <1>1, <2>5 DEF Gaps
    <3>2. Len(given) - k <= Len(given) - j
      BY <2>3, <2>4, <3>1
    <3> QED BY <1>1, <3>1, <3>2
  <2>6. k \in DOMAIN given /\ Is(name, k)
    BY <1>1, <2>4, <2>5
  <2> QED BY <2>6
<1> HIDE DEF last, O
<1>4. \A i \in DOMAIN given : given[i] \in O
  BY <1>1
<1>5. ASSUME NEW x \in O, NEW y \in O
      PROVE  [x EXCEPT !.dir = y.dir] \in O
  BY DEF O
<1>6. \A i \in DOMAIN given : [given[i] EXCEPT !.dir = given[last(given[i].name)].dir] \in O
  BY <1>3, <1>4, <1>5, Zenon
<1>7. Stored(given) \in [1..Len(given) -> O]
  BY <1>1, <1>2, <1>6, Zenon
<1> QED BY <1>1, <1>7 DEF N, O

LEMMA DriverInit == Init => DriverInv
<1>1. SUFFICES ASSUME Init PROVE TypeOK /\ Phases
  BY DEF DriverInv
<1>2. PICK c \in Commands : main = c.main /\ prelude = c.prelude /\ options = Stored(c.options)
  BY <1>1 DEF Init
<1>3. /\ main \in Texts /\ (prelude = <<>> \/ prelude \in Names)
      /\ options \in Seq([name : {"P", "p"}, dir : Paths])
  <2>1. c.options \in Seq([name : {"P", "p"}, dir : Paths])
    BY PathsAssumption
  <2>2. options \in Seq([name : {"P", "p"}, dir : Paths])
    BY <1>2, <2>1, StoredType
  <2> QED BY <1>2, <2>2, PathsAssumption
<1>4. cwd \in AbsPaths
  BY PathsAssumption DEF AbsPaths
<1>5. <<PKGDATADIR>> \in Seq(Paths) /\ <<cwd>> \in Seq(AbsPaths)
  BY <1>4, PathsAssumption
<1>6. l \in Library /\ library_ \in Library /\ l.current_directory_ = <<cwd>>
  <2> DEFINE s == <<PKGDATADIR>>
             d == <<cwd>>
  <2>1. l = [search_path_ |-> s, current_directory_ |-> d] /\ library_ = l
    BY <1>1 DEF Init
  <2> HIDE DEF s, d
  <2>2. s \in Seq(Paths) /\ d \in Seq(AbsPaths)
    BY <1>5 DEF s, d
  <2>3. l \in Library /\ l.current_directory_ = d
    BY <2>1, <2>2 DEF Library
  <2> QED BY <2>1, <2>3 DEF d
<1>7. TypeOK
  <2>1. frames = <<>>
    BY <1>1 DEF Init
  <2> QED BY <1>3, <1>6, <2>1, NoCalls DEF TypeOK
<1>8. status = "options" /\ frames = <<>> /\ open_files_ = <<>>
  BY <1>1 DEF Init
<1>9. Phases
  <2>1. status \notin {"file", "prelude", "tweast"} /\ status # "parsed"
    BY <1>8
  <2> QED BY <1>6, <1>8, <2>1 DEF Phases
<1> QED BY <1>7, <1>9

\* How tc ends does not matter to the state it ends in.
LEMMA EndKeeps ==
  ASSUME DriverInv, UNCHANGED <<main, prelude, options, l, library_, frames, open_files_>>,
         status' \notin {"options", "file", "prelude", "tweast", "parsed"}
  PROVE  DriverInv'
<1>1. TypeOK'
  BY DEF DriverInv, TypeOK
<1>2. Phases'
  BY DEF Phases
<1> QED BY <1>1, <1>2 DEF DriverInv

LEMMA OptionKeeps ==
  ASSUME DriverInv, NEW name, NEW l2, Option(name, l2), l2 \in Library,
         l2.current_directory_ = l.current_directory_
  PROVE  DriverInv'
<1>1. TypeOK /\ Phases
  BY DEF DriverInv
<1>2. options' \in Seq([name : {"P", "p"}, dir : Paths])
  <2> DEFINE O == [name : {"P", "p"}, dir : Paths]
  <2>1. options \in Seq(O) /\ options # <<>> /\ options' = Tail(options)
    BY <1>1 DEF Option, TypeOK
  <2> HIDE DEF O
  <2>2. options' \in Seq(O)
    BY <2>1
  <2> QED BY <2>2 DEF O
<1>3. /\ l' = l2 /\ status = "options"
      /\ UNCHANGED <<main, prelude, library_, frames, open_files_, location_, status>>
  BY DEF Option
<1>4. TypeOK'
  BY <1>1, <1>2, <1>3 DEF TypeOK
<1>5. status' \notin {"file", "prelude", "tweast"} /\ status' # "parsed"
  BY <1>3
<1>6. status' = "options" => frames' = <<>> /\ open_files_' = <<>> /\ l'.current_directory_ = <<cwd>>
  BY <1>1, <1>3 DEF Phases
<1>7. Phases'
  BY <1>5, <1>6 DEF Phases
<1> QED BY <1>4, <1>7 DEF DriverInv

LEMMA OptionsKeep ==
  ASSUME DriverInv, library_append \/ library_prepend
  PROVE  DriverInv'
<1>1. l \in Library /\ options # <<>> /\ l.current_directory_ = <<cwd>> /\ <<cwd>> # <<>>
  <2>1. status = "options" /\ options # <<>>
    BY DEF library_append, library_prepend, Option
  <2>2. <<cwd>> # <<>>
    OBVIOUS
  <2> QED BY <2>1, <2>2 DEF DriverInv, TypeOK, Phases
<1>2. options[1].dir \in Paths
  <2> DEFINE O == [name : {"P", "p"}, dir : Paths]
  <2>1. options \in Seq(O) /\ options # <<>>
    BY <1>1 DEF DriverInv, TypeOK
  <2> HIDE DEF O
  <2>2. options[1] \in O
    BY <2>1
  <2> QED BY <2>2 DEF O
<1>3. l.current_directory_ # <<>>
  BY <1>1
<1> DEFINE d == options[1].dir
<1>4. /\ append_dir(l, d) \in Library /\ prepend_dir(l, d) \in Library
      /\ append_dir(l, d).current_directory_ = l.current_directory_
      /\ prepend_dir(l, d).current_directory_ = l.current_directory_
  <2> HIDE DEF d
  <2>1. d \in Paths
    BY <1>2 DEF d
  <2> QED BY <1>1, <1>3, <2>1, SearchType
<1>5. CASE library_append
  <2>1. Option("P", append_dir(l, d))
    BY <1>5 DEF library_append
  <2> HIDE DEF d
  <2> QED BY <1>4, <2>1, OptionKeeps
<1>6. CASE library_prepend
  <2>1. Option("p", prepend_dir(l, d))
    BY <1>6 DEF library_prepend
  <2> HIDE DEF d
  <2> QED BY <1>4, <2>1, OptionKeeps
<1> QED BY <1>5, <1>6

\* The program is read: no import is open.
LEMMA ParseKeeps ==
  ASSUME DriverInv, parse
  PROVE  DriverInv'
<1> DEFINE d == parent_path(filename_)
           c == Call(filename_, main)
           pushed == push_current_directory(l, d)
<1>1. TypeOK /\ Phases
  BY DEF DriverInv
<1>2. l \in Library /\ open_files_ = <<>> /\ l.current_directory_ = <<cwd>> /\ main \in Texts
  BY <1>1 DEF parse, TypeOK, Phases
<1>3. filename_ \in Paths /\ d \in Paths
  <2>1. filename_ \in Names
    BY PathsAssumption
  <2> QED BY <2>1, NameParts, SplitLast
<1>4. IsCall(c) /\ c.path = filename_
  BY <1>2, <1>3, CallType
<1>5. /\ l' = pushed /\ library_' = pushed /\ frames' = <<c>> /\ location_' = filename_
      /\ status' = "file" /\ UNCHANGED <<main, prelude, options, open_files_>>
  BY DEF parse
<1> HIDE DEF c, d
<1>6. pushed \in Library /\ \E e \in AbsPaths : pushed.current_directory_ = <<e>> \o <<cwd>>
  <2>1. l.current_directory_ # <<>>
    <3>1. <<cwd>> # <<>>
      OBVIOUS
    <3> QED BY <1>2, <3>1
  <2>2. /\ push_current_directory(l, d) \in Library
        /\ \E e \in AbsPaths :
             push_current_directory(l, d).current_directory_ = <<e>> \o l.current_directory_
    BY <1>2, <1>3, <2>1, PushType
  <2> QED BY <1>2, <2>2
<1> HIDE DEF pushed
<1>7. Len(pushed.current_directory_) = 2 /\ pushed.current_directory_[2] = cwd
  BY <1>6
<1>8. frames' \in Seq({c}) /\ Len(frames') = 1 /\ frames'[1] = c
  BY <1>5
<1>9. TypeOK'
  <2>1. frames' \in Seq(Range(frames'))
    BY <1>8, SeqOfRange
  <2>2. \A i \in 1..Len(frames') : IsCall(frames'[i])
    BY <1>4, <1>8
  <2> QED BY <1>1, <1>5, <1>6, <2>1, <2>2 DEF TypeOK
<1>10. Stacked(frames', 0, pushed.current_directory_, open_files_', location_')
  <2>1. DOMAIN open_files_' = {} /\ open_files_' = [p \in DOMAIN open_files_' |-> open_files_'[p]]
    BY <1>2, <1>5
  <2>2. 0 \in 0..Len(frames') /\ 1..0 = {} /\ 1..(Len(frames') - 1) = {}
    BY <1>8
  <2>3. location_' = frames'[1].path
    BY <1>4, <1>5, <1>8
  <2> QED BY <1>7, <2>1, <2>2, <2>3 DEF Stacked
<1>11. Importing' = 0
  BY <1>5, <1>8 DEF Importing
<1>12. frames' # <<>>
  BY <1>8
<1>13. status' # "options" /\ status' # "tweast" /\ status' # "parsed" /\ status' # "prelude"
  BY <1>5
<1>14. Phases'
  BY <1>5, <1>7, <1>10, <1>11, <1>12, <1>13 DEF Phases
<1> QED BY <1>9, <1>14 DEF DriverInv

\* The innermost file is read further.
LEMMA SameCallsKeep ==
  ASSUME DriverInv, Reads, SameCalls(frames, frames'), status' \in {"file", "prelude", "undefined"},
         status' # "undefined" => status' = status,
         UNCHANGED <<main, prelude, options, l, library_, open_files_, location_>>
  PROVE  DriverInv'
<1>1. TypeOK /\ Phases
  BY DEF DriverInv
<1>2. TypeOK'
  BY <1>1 DEF TypeOK, SameCalls
<1>3. CASE status' = "undefined"
  BY <1>2, <1>3 DEF DriverInv, Phases
<1>4. CASE status' # "undefined"
  <2>1. status' = status /\ status \in {"file", "prelude"} /\ frames # <<>>
    BY <1>4 DEF Reads
  <2>2. Stacked(frames, Importing, library_.current_directory_, open_files_, location_)
    BY <1>1, <2>1 DEF Phases
  <2>3. frames \in Seq(Range(frames)) /\ frames' \in Seq(Range(frames')) /\ Len(frames') = Len(frames)
    BY <1>1 DEF TypeOK, SameCalls
  <2>4. Importing' = Importing
    BY <2>1, <2>3 DEF Importing
  <2>5. Stacked(frames', Importing, library_.current_directory_, open_files_, location_)
    <3> DEFINE n == Importing
               ds == library_.current_directory_
    <3> HIDE DEF n, ds
    <3>1. Stacked(frames, n, ds, open_files_, location_)
      BY <2>2 DEF n, ds
    <3>2. \A i \in 1..Len(frames) : frames'[i].path = frames[i].path /\ frames'[i].saved = frames[i].saved
      BY DEF SameCalls
    <3>3. Stacked(frames', n, ds, open_files_, location_)
      BY <2>3, <3>1, <3>2, KeepStacked
    <3> QED BY <3>3 DEF n, ds
  <2>6. frames' # <<>>
    BY <2>1, <2>3
  <2>7. Stacked(frames', Importing', library_'.current_directory_, open_files_', location_')
    BY <2>4, <2>5
  <2>8. status' # "options" /\ status' # "tweast" /\ status' # "parsed"
    BY <2>1
  <2>9. Phases'
    BY <1>1, <2>1, <2>6, <2>7, <2>8 DEF Phases
  <2> QED BY <1>2, <2>9 DEF DriverInv
<1> QED BY <1>3, <1>4

LEMMA ScanKeeps ==
  ASSUME DriverInv, scan
  PROVE  DriverInv'
<1> DEFINE n == Longest(file.lexer.start, file.text)
           x == Rule_(file.lexer, file.text, n)
           g == Scanned(file, x.lexer, Rest(file.text, n), file.tokens \o x.tokens)
<1>1. TypeOK /\ Reads
  BY DEF DriverInv, scan
<1>2. /\ file = frames[1] /\ IsCall(file) /\ Len(frames) \in Nat \ {0} /\ frames # <<>>
      /\ frames \in Seq(Range(frames)) /\ \A i \in 1..Len(frames) : IsCall(frames[i])
  BY <1>1, TheFile DEF Reads, TypeOK
<1>3. file.lexer \in Lexers /\ file.text \in Texts /\ file.tokens \in Seq(Toks)
  BY <1>2 DEF IsCall
<1>4. Outcome(x)
  <2> DEFINE y == file.lexer
             t == file.text
  <2>1. y \in Lexers /\ t \in Texts
    BY <1>3
  <2> HIDE DEF y, t
  <2>2. Outcome(Rule_(y, t, Longest(y.start, t)))
    BY <2>1, RuleType
  <2> QED BY <2>2 DEF y, t
<1>5. Rest(file.text, n) \in Texts
  <2> DEFINE t == file.text
             s == file.lexer.start
  <2>1. t \in Texts
    BY <1>3
  <2> HIDE DEF t, s
  <2>2. Longest(s, t) \in 0..Len(t)
    BY <2>1, LongestMatches
  <2>3. Rest(t, Longest(s, t)) \in Texts
    BY <2>1, <2>2, RestType
  <2> QED BY <2>3 DEF s, t
<1>6. \/ Exits(x.out) /\ x.out # ""
      \/ /\ frames' = [frames EXCEPT ![1].lexer = x.lexer, ![1].text = Rest(@, n),
                                     ![1].tokens = @ \o x.tokens]
         /\ UNCHANGED <<l, library_, open_files_, location_, error_, ast, prelude_chunks, status>>
  BY DEF scan
<1>7. UNCHANGED <<main, prelude, options>>
  BY DEF scan
<1> HIDE DEF x, n
<1>8. CASE Exits(x.out) /\ x.out # ""
  <2>1. x.out = "scan"
    BY <1>4, <1>8 DEF Outcome
  <2>2. /\ UNCHANGED <<main, prelude, options, l, library_, frames, open_files_>>
        /\ status' \notin {"options", "file", "prelude", "tweast", "parsed"}
    BY <1>7, <1>8, <2>1 DEF Exits
  <2> QED BY <2>2, EndKeeps
<1>9. CASE /\ frames' = [frames EXCEPT ![1].lexer = x.lexer, ![1].text = Rest(@, n),
                                       ![1].tokens = @ \o x.tokens]
           /\ UNCHANGED <<l, library_, open_files_, location_, error_, ast, prelude_chunks, status>>
  <2> DEFINE y == x.lexer
             t == Rest(file.text, n)
             ts == file.tokens \o x.tokens
  <2>1. y \in Lexers /\ t \in Texts /\ ts \in Seq(Toks)
    <3> DEFINE Tk == Seq(Toks)
    <3>1. file.tokens \in Seq(Toks) /\ x.tokens \in Seq(Toks) /\ x.lexer \in Lexers
      BY <1>3, <1>4 DEF Outcome
    <3>2. ts \in Seq(Toks)
      BY <3>1
    <3> QED BY <1>5, <3>1, <3>2
  <2>2. frames' = [frames EXCEPT ![1] = Scanned(frames[1], y, t, ts)]
    <3>1. 1 \in DOMAIN frames
      BY <1>2
    <3> QED BY <1>2, <1>9, <3>1 DEF Scanned
  <2> HIDE DEF y, t, ts
  <2> DEFINE h == Scanned(frames[1], y, t, ts)
  <2>3. IsCall(h) /\ h.path = frames[1].path /\ h.saved = frames[1].saved
    <3>1. SameCall(frames[1], h)
      BY <1>2, <2>1, ScannedCall
    <3> QED BY <3>1 DEF SameCall
  <2>4. frames' = [frames EXCEPT ![1] = h]
    BY <2>2
  <2> HIDE DEF h
  <2>5. SameCalls(frames, frames')
    BY <1>2, <2>3, <2>4, FirstChanged
  <2>6. status' = status /\ status \in {"file", "prelude"}
    BY <1>1, <1>9 DEF Reads
  <2>7. UNCHANGED <<main, prelude, options, l, library_, open_files_, location_>>
    BY <1>7, <1>9
  <2> QED BY <1>1, <2>5, <2>6, <2>7, SameCallsKeep
<1> QED BY <1>6, <1>8, <1>9

\* A file that is found and is not open is read.
LEMMA ReadKeeps ==
  ASSUME DriverInv, status \in {"file", "prelude"}, NEW name \in Names, NEW d, NEW path, NEW from,
         d = find_file(library_, name), path = Join(d, filename(name)), d # <<>>,
         path \notin DOMAIN open_files_, frames # <<>> => from = frames[1].path,
         ReadImport(d, path, from), UNCHANGED <<main, prelude, options>>
  PROVE  DriverInv'
<1> DEFINE c == Call(path, TextOf(path))
           dirs == library_.current_directory_
           n == Importing
           pushed == push_current_directory(library_, d)
<1>1. TypeOK /\ Phases
  BY DEF DriverInv
<1>2. /\ library_ \in Library /\ main \in Texts
      /\ frames \in Seq(Range(frames)) /\ \A i \in 1..Len(frames) : IsCall(frames[i])
  BY <1>1 DEF TypeOK
<1>3. Stacked(frames, n, dirs, open_files_, location_)
  BY <1>1 DEF Phases
<1>4. dirs \in Seq(AbsPaths) /\ dirs # <<>> /\ n \in Nat
  <2>1. dirs \in Seq(AbsPaths)
    BY <1>2 DEF Library
  <2>2. n \in 0..Len(frames) /\ Len(dirs) = n + 2 /\ Len(frames) \in Nat
    BY <1>2, <1>3 DEF Stacked
  <2> QED BY <2>1, <2>2
<1>5. d \in AbsPaths /\ path \in exists /\ path \in Paths /\ parent_path(path) = d
  <2>1. Found(library_, name)
    BY <1>2, <1>4, FileIsFound
  <2> QED BY <2>1 DEF Found
<1>6. IsCall(c) /\ c.path = path /\ c.saved = location_
  <2>1. TextOf(path) \in Texts
    BY <1>2, <1>5, TextType
  <2> QED BY <1>5, <2>1, CallType
<1>7. /\ library_' = pushed /\ open_files_' = With(open_files_, path, from)
      /\ frames' = <<c>> \o frames /\ location_' = path /\ UNCHANGED <<l, status>>
  BY DEF ReadImport
<1>8. pushed \in Library /\ pushed.current_directory_ = <<d>> \o dirs
  <2>1. d \in Paths
    BY <1>5 DEF AbsPaths
  <2>2. /\ push_current_directory(library_, d) \in Library
        /\ \E e \in AbsPaths :
             /\ push_current_directory(library_, d).current_directory_ = <<e>> \o library_.current_directory_
             /\ d \in AbsPaths => e = d
    BY <1>2, <1>4, <2>1, PushType
  <2> QED BY <1>5, <2>2
<1> HIDE DEF c, dirs, n, pushed
<1>9. Stacked(frames', n + 1, <<d>> \o dirs, open_files_', location_')
  <2>1. Stacked(<<c>> \o frames, n + 1, <<d>> \o dirs, With(open_files_, c.path, from), c.path)
    BY <1>2, <1>3, <1>4, <1>5, <1>6, PushStacked
  <2> QED BY <1>6, <1>7, <2>1
<1>10. /\ frames' \in Seq(Range(frames')) /\ Len(frames') = Len(frames) + 1 /\ Len(frames) \in Nat
       /\ \A i \in 1..Len(frames') : IsCall(frames'[i])
  <2> DEFINE S == Range(frames) \cup {c}
  <2>1. frames' \in Seq(S) /\ Len(frames') = Len(frames) + 1 /\ Len(frames) \in Nat
        /\ frames'[1] = c /\ \A i \in 1..Len(frames) : frames'[i + 1] = frames[i]
    <3> DEFINE R == Range(frames)
    <3>1. frames \in Seq(R)
      BY <1>2
    <3> HIDE DEF R
    <3>2. <<c>> \o frames \in Seq(R \cup {c})
      BY <3>1
    <3> QED BY <1>7, <3>1, <3>2 DEF R
  <2>2. frames' \in Seq(Range(frames'))
    BY <2>1, SeqOfRange
  <2>3. \A i \in 1..Len(frames') : i = 1 \/ \E j \in 1..Len(frames) : i = j + 1
    <3>1. \A i \in 1..Len(frames') : i # 1 => i - 1 \in 1..Len(frames) /\ i = (i - 1) + 1
      BY <2>1
    <3> QED BY <3>1
  <2>4. \A i \in 1..Len(frames') : IsCall(frames'[i])
    BY <1>2, <1>6, <2>1, <2>3
  <2> QED BY <2>1, <2>2, <2>4
<1>11. TypeOK'
  BY <1>1, <1>7, <1>8, <1>10 DEF TypeOK
<1>12. Importing' = n + 1
  <2>1. n = IF status = "prelude" THEN Len(frames) ELSE Len(frames) - 1
    BY DEF n, Importing
  <2>2. Importing' = IF status = "prelude" THEN Len(frames') ELSE Len(frames') - 1
    BY <1>7 DEF Importing
  <2> QED BY <1>10, <2>1, <2>2
<1>13. Stacked(frames', Importing', library_'.current_directory_, open_files_', location_')
  BY <1>7, <1>8, <1>9, <1>12
<1>14. frames' # <<>>
  BY <1>10
<1>15. status' # "options" /\ status' # "tweast" /\ status' # "parsed"
  BY <1>7
<1>16. Phases'
  BY <1>1, <1>7, <1>13, <1>14, <1>15 DEF Phases
<1> QED BY <1>11, <1>16 DEF DriverInv

\* No file is open when none is read.
LEMMA NothingOpen ==
  ASSUME Phases, status = "prelude", frames = <<>>
  PROVE  open_files_ = <<>>
<1>1. Importing = 0
  <2>1. Len(frames) = 0
    OBVIOUS
  <2> QED BY <2>1 DEF Importing
<1>2. Stacked(frames, Importing, library_.current_directory_, open_files_, location_)
  BY DEF Phases
<1>3. open_files_ = [p \in DOMAIN open_files_ |-> open_files_[p]] /\ DOMAIN open_files_ = {}
  <2>1. DOMAIN open_files_ = {frames[i].path : i \in 1..0}
    BY <1>1, <1>2 DEF Stacked
  <2>2. 1..0 = {}
    OBVIOUS
  <2> QED BY <1>2, <2>1, <2>2 DEF Stacked
<1> QED BY <1>3, NoneOpen

\* parse_import returns a null pointer, to a file or for the prelude.
LEMMA NotImportedKeeps ==
  ASSUME DriverInv, status \in {"file", "prelude"}, NotImported, UNCHANGED <<main, prelude, options>>
  PROVE  DriverInv'
<1>1. TypeOK /\ Phases
  BY DEF DriverInv
<1>2. frames \in Seq(Range(frames)) /\ \A i \in 1..Len(frames) : IsCall(frames[i])
  BY <1>1 DEF TypeOK
<1>3. Return(frames, NoTree) /\ UNCHANGED <<l, library_, open_files_, location_>>
  BY DEF NotImported
<1>4. /\ SameCalls(frames, frames')
      /\ frames = <<>> => status' = "tweast"
      /\ frames # <<>> => status' = status \/ status' = "undefined"
  <2> DEFINE given == NoTree
  <2>1. Return(frames, given)
    BY <1>3
  <2> HIDE DEF given
  <2> QED BY <1>2, <2>1, ReturnKeeps
<1>5. CASE frames # <<>>
  <2>1. Reads /\ status' \in {"file", "prelude", "undefined"} /\ (status' # "undefined" => status' = status)
    BY <1>4, <1>5 DEF Reads
  <2> QED BY <1>3, <1>4, <2>1, SameCallsKeep
<1>6. CASE frames = <<>>
  <2>1. status = "prelude" /\ status' = "tweast"
    BY <1>1, <1>4, <1>6 DEF Phases
  <2>2. open_files_ = <<>>
    BY <1>1, <1>6, <2>1, NothingOpen
  <2>3. TypeOK'
    BY <1>1, <1>3, <1>4 DEF TypeOK, SameCalls
  <2>4. /\ status' \notin {"file", "prelude"} /\ status' # "options" /\ status' # "parsed"
        /\ status' # "file"
    BY <2>1
  <2>5. Phases'
    BY <1>1, <1>3, <2>1, <2>2, <2>4 DEF Phases
  <2> QED BY <2>3, <2>5 DEF DriverInv
<1> QED BY <1>5, <1>6

LEMMA parse_importKeeps ==
  ASSUME DriverInv, status \in {"file", "prelude"}, NEW name \in Names, NEW from,
         frames # <<>> => from = frames[1].path,
         parse_import(name, from), UNCHANGED <<main, prelude, options>>
  PROVE  DriverInv'
<1> DEFINE d == find_file(library_, name)
           path == Join(d, filename(name))
<1>1. CASE d = <<>> \/ path \in DOMAIN open_files_
  <2>1. NotImported
    BY <1>1 DEF parse_import
  <2> QED BY <2>1, NotImportedKeeps
<1>2. CASE ~(d = <<>> \/ path \in DOMAIN open_files_)
  <2>1. ReadImport(d, path, from)
    BY <1>2 DEF parse_import
  <2>2. d = find_file(library_, name) /\ path = Join(d, filename(name))
    OBVIOUS
  <2> HIDE DEF d, path
  <2> QED BY <1>2, <2>1, <2>2, ReadKeeps
<1> QED BY <1>1, <1>2

\* The name of an import is a string the scanner has read.
LEMMA ImportKeeps ==
  ASSUME DriverInv, import
  PROVE  DriverInv'
<1>1. TypeOK /\ Reads /\ Import(file) /\ UNCHANGED <<main, prelude, options>>
  BY DEF DriverInv, import
<1>2. file = frames[1] /\ IsCall(file)
  BY <1>1, TheFile DEF Reads
<1> DEFINE ts == file.tokens
<1>3. ts \in Seq(Toks) /\ Len(ts) > file.served + 1 /\ file.served \in Nat /\ Last(ts)[1] = "STRING"
  BY <1>1, <1>2 DEF IsCall, Import
<1>4. parse_import(Path(Last(ts)[2]), file.path)
  BY DEF import
<1> HIDE DEF ts
<1>5. Last(ts)[2] \in Texts
  <2> DEFINE D == Toks
  <2>1. ts \in Seq(D) /\ Len(ts) \in Nat \ {0}
    BY <1>3
  <2> HIDE DEF D
  <2>2. ts[Len(ts)] \in D
    BY <2>1
  <2> QED BY <1>3, <2>2, StringToken DEF D, Last
<1>6. Path(Last(ts)[2]) \in Names
  BY <1>5, PathIsName
<1> DEFINE name == Path(Last(ts)[2])
           from == file.path
<1>7. parse_import(name, from) /\ name \in Names /\ from = frames[1].path /\ status \in {"file", "prelude"}
  BY <1>1, <1>2, <1>4, <1>6 DEF Reads
<1> HIDE DEF name, from
<1> QED BY <1>1, <1>7, parse_importKeeps

\* An import that was read gives its chunks to the file that asked for it, or to
\* parse: fr are the calls under it.
LEMMA ImportedKeeps ==
  ASSUME DriverInv, status \in {"file", "prelude"}, NEW S, NEW fr \in Seq(S),
         \A i \in 1..Len(fr) : IsCall(fr[i]), NEW n,
         n = IF status = "prelude" THEN Len(fr) ELSE Len(fr) - 1,
         Stacked(fr, n, library_'.current_directory_, open_files_', location_'),
         NEW chunks, Return(fr, chunks), library_' \in Library,
         UNCHANGED <<main, prelude, options, l>>
  PROVE  DriverInv'
<1>1. TypeOK /\ Phases
  BY DEF DriverInv
<1>2. /\ SameCalls(fr, frames')
      /\ fr = <<>> => status' = "tweast"
      /\ fr # <<>> => status' = status \/ status' = "undefined"
  BY ReturnKeeps
<1>3. TypeOK'
  BY <1>1, <1>2 DEF TypeOK, SameCalls
<1>4. CASE fr = <<>>
  <2>1. Len(fr) = 0 /\ n \in 0..Len(fr)
    BY <1>4 DEF Stacked
  <2>2. n = 0
    BY <2>1
  <2>3. open_files_' = [p \in DOMAIN open_files_' |-> open_files_'[p]] /\ DOMAIN open_files_' = {}
    <3>1. DOMAIN open_files_' = {fr[i].path : i \in 1..0}
      BY <2>2 DEF Stacked
    <3>2. 1..0 = {}
      OBVIOUS
    <3> QED BY <3>1, <3>2 DEF Stacked
  <2>4. open_files_' = <<>>
    BY <2>3, NoneOpen
  <2>5. Len(l'.current_directory_) = 2 /\ l'.current_directory_[2] = cwd
    BY <1>1 DEF Phases
  <2>6. status' = "tweast"
    BY <1>2, <1>4
  <2>7. status' \notin {"file", "prelude"} /\ status' # "options" /\ status' # "parsed" /\ status' # "file"
    BY <2>6
  <2>8. Phases'
    BY <2>4, <2>5, <2>6, <2>7 DEF Phases
  <2> QED BY <1>3, <2>8 DEF DriverInv
<1>5. CASE fr # <<>> /\ status' = "undefined"
  BY <1>3, <1>5 DEF DriverInv, Phases
<1>6. CASE fr # <<>> /\ status' = status
  <2>1. frames' \in Seq(Range(frames')) /\ Len(frames') = Len(fr) /\ Len(fr) \in Nat \ {0}
    BY <1>2, <1>6 DEF SameCalls
  <2>2. Importing' = n
    BY <1>6, <2>1 DEF Importing
  <2>3. Stacked(frames', n, library_'.current_directory_, open_files_', location_')
    <3> DEFINE ds == library_'.current_directory_
               op == open_files_'
               lo == location_'
    <3>1. Stacked(fr, n, ds, op, lo)
      OBVIOUS
    <3> HIDE DEF ds, op, lo
    <3>2. \A i \in 1..Len(fr) : frames'[i].path = fr[i].path /\ frames'[i].saved = fr[i].saved
      BY <1>2 DEF SameCalls
    <3>3. Stacked(frames', n, ds, op, lo)
      BY <2>1, <3>1, <3>2, KeepStacked
    <3> QED BY <3>3 DEF ds, op, lo
  <2>4. frames' # <<>>
    BY <2>1
  <2>5. status' # "options" /\ status' # "tweast" /\ status' # "parsed"
    BY <1>6
  <2>6. Len(l'.current_directory_) = 2 /\ l'.current_directory_[2] = cwd
    BY <1>1 DEF Phases
  <2>7. Phases'
    BY <2>2, <2>3, <2>4, <2>5, <2>6 DEF Phases
  <2> QED BY <1>3, <2>7 DEF DriverInv
<1> QED BY <1>2, <1>4, <1>5, <1>6

\* The end of an import.
LEMMA PopKeeps ==
  ASSUME DriverInv, Reads, Imported, library_' = pop_current_directory(library_),
         open_files_' = [p \in DOMAIN open_files_ \ {file.path} |-> open_files_[p]],
         location_' = file.saved, NEW chunks, Return(Tail(frames), chunks),
         UNCHANGED <<main, prelude, options, l>>
  PROVE  DriverInv'
<1> DEFINE fr == Tail(frames)
           dirs == library_.current_directory_
           n == Importing
<1>1. /\ TypeOK /\ Phases /\ status \in {"file", "prelude"} /\ frames # <<>>
      /\ library_ \in Library
      /\ frames \in Seq(Range(frames)) /\ \A i \in 1..Len(frames) : IsCall(frames[i])
  BY DEF DriverInv, TypeOK, Reads
<1>2. Len(frames) \in Nat \ {0} /\ file = frames[1]
  BY <1>1, TheFile
<1>3. n \in Nat \ {0} /\ n = IF status = "prelude" THEN Len(frames) ELSE Len(frames) - 1
  <2>1. n = IF status = "prelude" THEN Len(frames) ELSE Len(frames) - 1
    BY DEF Importing
  <2>2. Len(frames) > 1 \/ status = "prelude"
    BY DEF Imported
  <2> DEFINE k == Len(frames)
  <2>3. k \in Nat \ {0} /\ (status = "prelude" => n = k) /\ (status # "prelude" => k > 1 /\ n = k - 1)
    BY <1>2, <2>1, <2>2
  <2> HIDE DEF k, n
  <2>4. n \in Nat \ {0}
    <3>1. CASE n = k
      BY <2>3, <3>1
    <3>2. CASE k > 1 /\ n = k - 1
      BY <2>3, <3>2
    <3> QED BY <2>3, <3>1, <3>2
  <2> QED BY <2>1, <2>4 DEF n
<1>4. Stacked(frames, n, dirs, open_files_, location_)
  BY <1>1 DEF Phases
<1>5. dirs \in Seq(AbsPaths) /\ dirs # <<>>
  <2>1. dirs \in Seq(AbsPaths)
    BY <1>1 DEF Library
  <2>2. Len(dirs) = n + 2
    BY <1>4 DEF Stacked
  <2> QED BY <1>3, <2>1, <2>2
<1>6. library_' \in Library /\ library_'.current_directory_ = Tail(dirs)
  BY <1>1, <1>5, PopType
<1> HIDE DEF n, dirs
<1>7. Stacked(fr, n - 1, library_'.current_directory_, open_files_', location_')
  <2>1. Stacked(Tail(frames), n - 1, Tail(dirs),
                [p \in DOMAIN open_files_ \ {frames[1].path} |-> open_files_[p]], frames[1].saved)
    BY <1>1, <1>3, <1>4, <1>5, PopStacked
  <2> QED BY <1>2, <1>6, <2>1
<1>8. /\ fr \in Seq(Range(frames)) /\ Len(fr) = Len(frames) - 1
      /\ \A i \in 1..Len(fr) : IsCall(fr[i])
  <2> DEFINE R == Range(frames)
  <2>1. frames \in Seq(R) /\ frames # <<>>
    BY <1>1
  <2> HIDE DEF R
  <2>2. fr \in Seq(R) /\ Len(fr) = Len(frames) - 1 /\ \A i \in 1..Len(fr) : fr[i] = frames[i + 1]
    BY <2>1
  <2>3. \A i \in 1..Len(fr) : i + 1 \in 1..Len(frames)
    BY <1>2, <2>2
  <2> QED BY <1>1, <2>2, <2>3 DEF R
<1>9. n - 1 = IF status = "prelude" THEN Len(fr) ELSE Len(fr) - 1
  BY <1>2, <1>3, <1>8
<1>10. Return(fr, chunks)
  OBVIOUS
<1> DEFINE m == n - 1
<1>11. m = n - 1
  OBVIOUS
<1> HIDE DEF fr, m
<1> QED BY <1>1, <1>6, <1>7, <1>8, <1>9, <1>10, <1>11, ImportedKeeps

LEMMA EndOfFileKeeps ==
  ASSUME DriverInv, parse_
  PROVE  DriverInv'
<1> DEFINE r == Grammar(file.tokens, file.import)
           no == r.i = 0 \/ (Imported /\ r.ns[1].k \notin {"ChunkList", "Null"})
<1>1. Reads /\ UNCHANGED <<main, prelude, options>>
  BY DEF parse_
<1>2. \/ Exits("parse")
      \/ /\ Imported /\ library_' = pop_current_directory(library_)
         /\ open_files_' = [p \in DOMAIN open_files_ \ {file.path} |-> open_files_[p]]
         /\ location_' = file.saved
         /\ Return(Tail(frames), r.ns[1]) /\ UNCHANGED <<l, error_, ast>>
      \/ /\ ~Imported
         /\ frames' = <<>> /\ ast' = r.ns[1] /\ status' = "prelude"
         /\ UNCHANGED <<l, library_, open_files_, location_, error_, prelude_chunks>>
  BY DEF parse_
<1> HIDE DEF r
<1>3. CASE Exits("parse")
  <2>1. /\ UNCHANGED <<main, prelude, options, l, library_, frames, open_files_>>
        /\ status' \notin {"options", "file", "prelude", "tweast", "parsed"}
    BY <1>1, <1>3 DEF Exits
  <2> QED BY <2>1, EndKeeps
<1>4. CASE /\ Imported /\ library_' = pop_current_directory(library_)
           /\ open_files_' = [p \in DOMAIN open_files_ \ {file.path} |-> open_files_[p]]
           /\ location_' = file.saved
           /\ Return(Tail(frames), r.ns[1]) /\ UNCHANGED <<l, error_, ast>>
  <2> DEFINE chunks == r.ns[1]
  <2>1. Return(Tail(frames), chunks)
    BY <1>4
  <2> HIDE DEF chunks
  <2> QED BY <1>1, <1>4, <2>1, PopKeeps
<1>5. CASE /\ ~Imported
           /\ frames' = <<>> /\ ast' = r.ns[1] /\ status' = "prelude"
           /\ UNCHANGED <<l, library_, open_files_, location_, error_, prelude_chunks>>
  <2>1. TypeOK /\ Phases /\ frames # <<>>
    BY <1>1 DEF DriverInv, Reads
  <2>2. Len(frames) \in Nat \ {0} /\ ~(Len(frames) > 1) /\ status = "file"
    BY <1>1, <1>5, <2>1, TheFile DEF Imported, Reads
  <2>3. Importing = 0
    <3>1. Importing = Len(frames) - 1
      BY <2>2 DEF Importing
    <3> QED BY <2>2, <3>1
  <2>4. Stacked(frames, 0, library_.current_directory_, open_files_, location_)
    BY <2>1, <2>2, <2>3 DEF Phases
  <2>5. Stacked(frames', 0, library_'.current_directory_, open_files_', location_')
    <3>1. Len(frames') = 0 /\ 1..0 = {} /\ 0 \in 0..0 /\ 1..(0 - 1) = {} /\ frames' = <<>>
      BY <1>5
    <3>2. Len(library_.current_directory_) = 0 + 2 /\ DOMAIN open_files_ = {}
          /\ open_files_ = [p \in DOMAIN open_files_ |-> open_files_[p]]
      BY <2>4, <3>1 DEF Stacked
    <3> QED BY <1>5, <3>1, <3>2 DEF Stacked
  <2>6. TypeOK'
    BY <1>1, <1>5, <2>1, NoCalls DEF TypeOK
  <2>7. Importing' = 0
    <3>1. Len(frames') = 0 /\ status' = "prelude"
      BY <1>5
    <3> QED BY <3>1 DEF Importing
  <2>8. status' # "options" /\ status' # "file" /\ status' # "tweast" /\ status' # "parsed"
    BY <1>5
  <2>9. Len(l'.current_directory_) = 2 /\ l'.current_directory_[2] = cwd
    BY <1>5, <2>1, <2>2 DEF Phases
  <2>10. Phases'
    BY <2>5, <2>7, <2>8, <2>9 DEF Phases
  <2> QED BY <2>6, <2>10 DEF DriverInv
<1> QED BY <1>2, <1>3, <1>4, <1>5

\* The program is what tasks::parse gets, and its directory is not the current one.
LEMMA ParsedKeeps ==
  ASSUME DriverInv, status \in {"prelude", "tweast"}, open_files_ = <<>>, NEW tree, Parsed(tree)
  PROVE  DriverInv'
<1> DEFINE ds == l.current_directory_
<1>1. TypeOK /\ Phases
  BY DEF DriverInv
<1>2. l \in Library /\ ds \in Seq(AbsPaths) /\ Len(ds) = 2 /\ ds[2] = cwd
  <2>1. l \in Library /\ Len(ds) = 2 /\ ds[2] = cwd
    BY <1>1 DEF TypeOK, Phases
  <2> QED BY <2>1 DEF Library
<1>3. l' \in Library /\ l'.current_directory_ = Tail(ds)
  <2>1. ds # <<>>
    BY <1>2
  <2>2. l' = pop_current_directory(l)
    BY DEF Parsed
  <2> QED BY <1>2, <2>1, <2>2, PopType
<1>4. Tail(ds) = <<cwd>>
  <2> DEFINE D == AbsPaths
  <2>1. ds \in Seq(D) /\ Len(ds) = 2 /\ ds[2] = cwd
    BY <1>2
  <2> HIDE DEF D, ds
  <2>2. Tail(ds) \in Seq(D) /\ Len(Tail(ds)) = 1 /\ Tail(ds)[1] = cwd
    BY <2>1
  <2> DEFINE t == Tail(ds)
  <2> HIDE DEF t
  <2>3. t = [i \in 1..1 |-> t[i]] /\ t[1] = cwd
    <3>1. t \in Seq(D) /\ Len(t) = 1 /\ t[1] = cwd
      BY <2>2 DEF t
    <3> QED BY <3>1
  <2>4. t = [i \in 1..1 |-> cwd]
    BY <2>3
  <2>5. <<cwd>> = [i \in 1..1 |-> cwd]
    OBVIOUS
  <2> QED BY <2>4, <2>5 DEF t
<1>5. /\ UNCHANGED <<main, prelude, options, library_, frames, open_files_>>
      /\ status' \in {"failure", "parsed"}
  BY DEF Parsed
<1>6. TypeOK'
  BY <1>1, <1>3, <1>5 DEF TypeOK
<1>7. l'.current_directory_ = <<cwd>> /\ open_files_' = <<>>
  BY <1>3, <1>4, <1>5
<1>8. status' \notin {"file", "prelude", "tweast"} /\ status' # "options"
  BY <1>5
<1>9. Phases'
  BY <1>7, <1>8 DEF Phases
<1> QED BY <1>6, <1>9 DEF DriverInv

LEMMA PreludeKeeps ==
  ASSUME DriverInv, import_prelude
  PROVE  DriverInv'
<1>1. /\ status = "prelude" /\ frames = <<>> /\ open_files_ = <<>>
      /\ prelude = <<>> \/ prelude \in Names
  <2>1. status = "prelude" /\ frames = <<>>
    BY DEF import_prelude
  <2> QED BY <2>1, NothingOpen DEF DriverInv, TypeOK
<1>2. \/ Parsed(ast)
      \/ Exits("tweast") /\ UNCHANGED <<main, prelude, options>>
      \/ prelude # <<>> /\ parse_import(prelude, <<>>) /\ UNCHANGED <<main, prelude, options>>
  BY DEF import_prelude
<1>3. CASE Parsed(ast)
  <2> DEFINE tree == ast
  <2>1. Parsed(tree)
    BY <1>3
  <2> HIDE DEF tree
  <2> QED BY <1>1, <2>1, ParsedKeeps
<1>4. CASE Exits("tweast") /\ UNCHANGED <<main, prelude, options>>
  <2>1. /\ UNCHANGED <<main, prelude, options, l, library_, frames, open_files_>> /\ status' = "tweast"
        /\ status = "prelude"
    BY <1>1, <1>4 DEF Exits
  <2>2. TypeOK'
    BY <2>1 DEF DriverInv, TypeOK
  <2>3. Len(l'.current_directory_) = 2 /\ l'.current_directory_[2] = cwd
    BY <2>1 DEF DriverInv, Phases
  <2>4. status' \notin {"file", "prelude"} /\ status' # "options" /\ status' # "parsed" /\ status' # "file"
    BY <2>1
  <2>5. Phases'
    BY <1>1, <2>1, <2>3, <2>4 DEF Phases
  <2> QED BY <2>2, <2>5 DEF DriverInv
<1>5. CASE prelude # <<>> /\ parse_import(prelude, <<>>) /\ UNCHANGED <<main, prelude, options>>
  <2> DEFINE name == prelude
             from == <<>>
  <2>1. parse_import(name, from) /\ name \in Names /\ UNCHANGED <<main, prelude, options>>
    BY <1>1, <1>5
  <2>2. frames # <<>> => from = frames[1].path
    BY <1>1
  <2>3. status \in {"file", "prelude"}
    BY <1>1
  <2> HIDE DEF name, from
  <2> QED BY <2>1, <2>2, <2>3, parse_importKeeps
<1> QED BY <1>2, <1>3, <1>4, <1>5

LEMMA InputKeeps ==
  ASSUME DriverInv, parse_input
  PROVE  DriverInv'
<1> DEFINE tree == MainTree(prelude_chunks, ast)
<1>1. status = "tweast" /\ Parsed(tree)
  BY DEF parse_input
<1>2. open_files_ = <<>>
  BY <1>1 DEF DriverInv, Phases
<1> HIDE DEF tree
<1> QED BY <1>1, <1>2, ParsedKeeps

LEMMA StutterKeeps ==
  ASSUME DriverInv, UNCHANGED vars
  PROVE  DriverInv'
<1>1. UNCHANGED <<status, frames, main, prelude, options, l, library_, open_files_, location_>>
  BY DEF vars
<1>2. TypeOK'
  BY <1>1 DEF DriverInv, TypeOK
<1>3. Importing' = Importing
  BY <1>1 DEF Importing
<1>4. Phases'
  BY <1>1, <1>3 DEF DriverInv, Phases
<1> QED BY <1>2, <1>4 DEF DriverInv

-----------------------------------------------------------------------------
(* What holds whenever tc reads a program. *)

\* Whatever the files hold and whatever the grammar makes of them, the scanners, the
\* libraries and the calls of parse_ are what their types say, and the three stacks,
\* of calls, of directories and of open files, agree.
THEOREM ReadingInvariant == Spec => []DriverInv
<1>1. Init => DriverInv
  BY DriverInit
<1>2. DriverInv /\ [Next]_vars => DriverInv'
  <2>1. SUFFICES ASSUME DriverInv, [Next]_vars PROVE DriverInv'
    OBVIOUS
  <2>2. CASE library_append \/ library_prepend
    BY <2>1, <2>2, OptionsKeep
  <2>3. CASE parse
    BY <2>1, <2>3, ParseKeeps
  <2>4. CASE scan
    BY <2>1, <2>4, ScanKeeps
  <2>5. CASE import
    BY <2>1, <2>5, ImportKeeps
  <2>6. CASE parse_
    BY <2>1, <2>6, EndOfFileKeeps
  <2>7. CASE import_prelude
    BY <2>1, <2>7, PreludeKeeps
  <2>8. CASE parse_input
    BY <2>1, <2>8, InputKeeps
  <2>9. CASE UNCHANGED vars
    BY <2>1, <2>9, StutterKeeps
  <2> QED BY <2>1, <2>2, <2>3, <2>4, <2>5, <2>6, <2>7, <2>8, <2>9 DEF Next
<1> QED BY <1>1, <1>2, PTL DEF Spec

\* As many files are open as calls are imports: their paths are distinct.
LEMMA OpenedOnce ==
  ASSUME NEW fr, NEW n \in Nat, NEW O, O = {fr[i].path : i \in 1..n},
         \A i, j \in 1..n : fr[i].path = fr[j].path => i = j
  PROVE  Cardinality(O) = n
<1> DEFINE M == [i \in 1..n |-> fr[i].path]
<1>1. M \in Bijection(1..n, O)
  BY DEF Bijection, Injection, Surjection, IsInjective
<1>2. ExistsBijection(1..n, O)
  BY <1>1 DEF ExistsBijection
<1> QED BY <1>2, FS_CountingElements

LEMMA AgreeType == DriverInv => StacksAgree
<1>1. SUFFICES ASSUME DriverInv PROVE StacksAgree
  OBVIOUS
<1> DEFINE n == Importing
           current == library_.current_directory_
<1>2. TypeOK /\ Phases
  BY <1>1 DEF DriverInv
<1>3. ASSUME Reads
      PROVE  /\ SubSeq(current, 1, n) = [i \in 1..n |-> parent_path(frames[i].path)]
             /\ Len(current) = n + 2 /\ location_ = frames[1].path
             /\ DOMAIN open_files_ = {frames[i].path : i \in 1..n} /\ Cardinality(DOMAIN open_files_) = n
             /\ \A i \in 1..n : i < Len(frames) => open_files_[frames[i].path] = frames[i + 1].path
  <2>1. Stacked(frames, n, current, open_files_, location_) /\ frames # <<>>
    BY <1>2, <1>3 DEF Phases, Reads
  <2>2. n \in Nat /\ Len(current) = n + 2 /\ current \in Seq(AbsPaths)
    <3>1. n \in 0..Len(frames) /\ Len(current) = n + 2
      BY <2>1 DEF Stacked
    <3>2. Len(frames) \in Nat /\ current \in Seq(AbsPaths)
      BY <1>2 DEF TypeOK, Library
    <3> QED BY <3>1, <3>2
  <2> HIDE DEF n, current
  <2>3. SubSeq(current, 1, n) = [i \in 1..n |-> parent_path(frames[i].path)]
    <3> DEFINE D == AbsPaths
               b == SubSeq(current, 1, n)
    <3>1. n + 2 \in Nat /\ n - 1 + 1 = n /\ \A i \in 1..n : i \in 1..(n + 2) /\ 1 + i - 1 = i
      BY <2>2
    <3>2. \A i \in 1..n : current[i] \in D
      BY <2>2, <3>1
    <3> HIDE DEF D
    <3>3. /\ SubSeq(current, 1, n) \in Seq(D) /\ Len(SubSeq(current, 1, n)) = IF 1 <= n THEN n - 1 + 1 ELSE 0
          /\ \A i \in 1..(n - 1 + 1) : SubSeq(current, 1, n)[i] = current[1 + i - 1]
      <4>1. 1 \in Int /\ n \in Int
        BY <2>2
      <4> QED BY <3>2, <4>1, SubSeqProperties
    <3>4. b \in Seq(D) /\ Len(b) = n /\ \A i \in 1..n : b[i] = current[i]
      BY <2>2, <3>1, <3>3
    <3> HIDE DEF b
    <3>5. \A i \in 1..n : current[i] = parent_path(frames[i].path)
      BY <2>1 DEF Stacked
    <3>6. b = [i \in 1..n |-> parent_path(frames[i].path)]
      BY <3>4, <3>5
    <3> QED BY <3>6 DEF b
  <2>4. /\ location_ = frames[1].path /\ DOMAIN open_files_ = {frames[i].path : i \in 1..n}
        /\ \A i, j \in 1..n : frames[i].path = frames[j].path => i = j
        /\ \A i \in 1..n : i < Len(frames) => open_files_[frames[i].path] = frames[i + 1].path
    BY <2>1 DEF Stacked
  <2>5. Cardinality(DOMAIN open_files_) = n
    BY <2>2, <2>4, OpenedOnce
  <2> QED BY <2>2, <2>3, <2>4, <2>5
<1>4. status = "parsed" => l.current_directory_ = <<cwd>> /\ open_files_ = <<>>
  BY <1>2 DEF Phases
<1> QED BY <1>3, <1>4 DEF StacksAgree

\* Imports nest: at any time the current directories are those of the files that are
\* read, the open files are the imports among them, each once and with the file that
\* asks for it, and afterwards nothing is left of either.
THEOREM ImportsNest == Spec => []StacksAgree
<1>1. DriverInv => StacksAgree
  BY AgreeType
<1> QED BY <1>1, ReadingInvariant, PTL

-----------------------------------------------------------------------------
(* What misc::escape writes. *)

\* The bytes of a string; a backslash is written as two, which are read as two.
Bytes == (0..255) \ {Backslash}

\* An escape of one letter is that of one byte.
LEMMA LetterIsOne ==
  ASSUME NEW b, NEW c \in LetterOf(b)
  PROVE  /\ EscapeOf(c) = {b} /\ c \in {110, 98, 102, 114, 116, 118, 34}
<1>1. PICK e \in DOMAIN Escapes \ {"a"} : Escapes[e][2] = b /\ c = Escapes[e][1]
  BY DEF LetterOf
<1>2. DOMAIN Escapes = {"n", "a", "b", "f", "r", "t", "v", "quote"}
  BY DEF Escapes
<1>3. /\ Escapes["n"] = <<110, 10>> /\ Escapes["a"] = <<97, 7>> /\ Escapes["b"] = <<98, 8>>
      /\ Escapes["f"] = <<102, 12>> /\ Escapes["r"] = <<114, 13>> /\ Escapes["t"] = <<116, 9>>
      /\ Escapes["v"] = <<118, 11>> /\ Escapes["quote"] = <<34, 34>>
  BY DEF Escapes
<1>4. c \in {110, 98, 102, 114, 116, 118, 34}
  BY <1>1, <1>2, <1>3
<1>5. \A d \in DOMAIN Escapes : Escapes[d][1] = c => Escapes[d][2] = b
  BY <1>1, <1>2, <1>3
<1>6. EscapeOf(c) = {b}
  BY <1>1, <1>5 DEF EscapeOf
<1> QED BY <1>4, <1>6

\* A byte is written as itself, as an escape of a letter or as three digits.
LEMMA EscapedCases ==
  ASSUME NEW b \in Bytes
  PROVE  \/ escaped(b) = <<b>> /\ b # Quote /\ b # 10
         \/ \E c \in LetterOf(b) : escaped(b) = <<Backslash, c>>
         \/ escaped(b) = InOctal(b)
<1>1. b # Backslash
  BY DEF Bytes
<1>2. CASE LetterOf(b) # {}
  <2> DEFINE c == CHOOSE x \in LetterOf(b) : TRUE
  <2>1. c \in LetterOf(b)
    BY <1>2
  <2>2. escaped(b) = <<Backslash, c>>
    BY <1>1, <1>2 DEF escaped
  <2> QED BY <2>1, <2>2
<1>3. CASE LetterOf(b) = {}
  <2>1. b # Quote /\ b # 10
    <3>1. /\ Escapes["n"] = <<110, 10>> /\ Escapes["quote"] = <<34, 34>>
          /\ "n" \in DOMAIN Escapes \ {"a"} /\ "quote" \in DOMAIN Escapes \ {"a"}
      BY DEF Escapes
    <3>2. 110 \in LetterOf(10) /\ 34 \in LetterOf(34)
      BY <3>1 DEF LetterOf
    <3> QED BY <1>3, <3>2 DEF Quote
  <2>2. escaped(b) = <<b>> \/ escaped(b) = InOctal(b)
    BY <1>1, <1>3 DEF escaped
  <2> QED BY <2>1, <2>2
<1> QED BY <1>2, <1>3

\* Three digits are the byte.
LEMMA OctalIsByte ==
  ASSUME NEW b \in 0..255
  PROVE  /\ InOctal(b) \in Texts /\ Len(InOctal(b)) = 4 /\ InOctal(b)[1] = Backslash
         /\ \A i \in 2..4 : InOctal(b)[i] \in 48..55
         /\ strtol(Tail(InOctal(b)), 8) = b
<1> DEFINE x == 48 + (b \div 64)
           y == 48 + ((b \div 8) % 8)
           z == 48 + (b % 8)
           w == InOctal(b)
           t == Tail(w)
<1>1. x \in 48..51 /\ y \in 48..55 /\ z \in 48..55
  OBVIOUS
<1>2. 64 * (x - 48) + 8 * (y - 48) + (z - 48) = b
  OBVIOUS
<1>3. w = <<Backslash, x, y, z>>
  BY DEF InOctal
<1> HIDE DEF x, y, z, w
<1>4. w \in Texts /\ Len(w) = 4 /\ w[1] = Backslash /\ w[2] = x /\ w[3] = y /\ w[4] = z
  BY <1>1, <1>3 DEF Texts, Backslash
<1>5. t \in Texts /\ Len(t) = 3 /\ t[1] = x /\ t[2] = y /\ t[3] = z
  <2> DEFINE D == Int
  <2>1. w \in Seq(D) /\ Len(w) = 4
    BY <1>4 DEF Texts
  <2> HIDE DEF D
  <2>2. w # <<>>
    BY <2>1
  <2>3. t \in Seq(D) /\ Len(t) = 3 /\ \A i \in 1..3 : t[i] = w[i + 1]
    BY <2>1, <2>2
  <2> HIDE DEF t
  <2>4. t[1] = w[2] /\ t[2] = w[3] /\ t[3] = w[4]
    BY <2>3
  <2> QED BY <1>4, <2>3, <2>4 DEF Texts, D
<1> HIDE DEF t
<1>6. PICK f \in [0..3 -> Int] :
        /\ strtol(t, 8) = f[3] /\ f[0] = 0
        /\ \A n \in 1..3 : f[n] = 8 * f[n - 1] + DigitOf(t[n])
  <2>1. 8 \in Int
    OBVIOUS
  <2>2. \E f \in [0..Len(t) -> Int] :
          /\ strtol(t, 8) = f[Len(t)] /\ f[0] = 0
          /\ \A n \in 1..Len(t) : f[n] = 8 * f[n - 1] + DigitOf(t[n])
    BY <1>5, <2>1, NumberSteps
  <2> QED BY <1>5, <2>2
<1>7. \A c \in 48..55 : DigitOf(c) = c - 48
  BY DEF DigitOf, Digit
<1>8. f[1] = x - 48 /\ f[2] = 8 * f[1] + (y - 48) /\ f[3] = 8 * f[2] + (z - 48)
  <2>1. DigitOf(x) = x - 48 /\ DigitOf(y) = y - 48 /\ DigitOf(z) = z - 48
    BY <1>1, <1>7
  <2>2. f[1] = 8 * f[0] + DigitOf(t[1]) /\ f[2] = 8 * f[1] + DigitOf(t[2])
        /\ f[3] = 8 * f[2] + DigitOf(t[3])
    BY <1>6
  <2> QED BY <1>1, <1>5, <1>6, <2>1, <2>2
<1>9. f[3] = b
  BY <1>1, <1>2, <1>8
<1>10. \A i \in 2..4 : w[i] \in 48..55
  <2>1. \A i \in 2..4 : i = 2 \/ i = 3 \/ i = 4
    OBVIOUS
  <2> QED BY <1>1, <1>4, <2>1
<1> QED BY <1>4, <1>6, <1>9, <1>10 DEF w, t

\* No rule of the scanner takes more than what a byte is written as.
LEMMA LongestIs ==
  ASSUME NEW start, NEW text \in Texts, NEW n \in 1..Len(text), Rules(start, SubSeq(text, 1, n)),
         \A j \in (n + 1)..Len(text) : ~Rules(start, SubSeq(text, 1, j))
  PROVE  Longest(start, text) = n
<1> DEFINE N == Len(text)
           matches(i) == Rules(start, SubSeq(text, 1, i))
           IsLongest(i) == (i = 0 \/ matches(i)) /\ \A j \in (i + 1)..N : ~matches(j)
<1>1. N \in Nat
  BY DEF Texts
<1>2. matches(n) /\ \A j \in (n + 1)..N : ~matches(j)
  OBVIOUS
<1>3. Longest(start, text) = CHOOSE i \in 0..N : IsLongest(i)
  BY DEF Longest
<1> HIDE DEF matches, N
<1>4. n \in 1..N
  BY DEF N
<1>5. \A i \in 0..N : IsLongest(i) => i = n
  <2>1. SUFFICES ASSUME NEW i \in 0..N, IsLongest(i), i # n PROVE FALSE
    OBVIOUS
  <2>2. CASE i < n
    <3>1. n \in (i + 1)..N
      BY <1>1, <1>4, <2>1, <2>2
    <3> QED BY <1>2, <2>1, <3>1
  <2>3. CASE i > n
    <3>1. i \in (n + 1)..N /\ i # 0
      BY <1>1, <1>4, <2>1, <2>3
    <3> QED BY <1>2, <2>1, <3>1
  <2> QED BY <1>1, <1>4, <2>1, <2>2, <2>3
<1>6. IsLongest(n) /\ n \in 0..N
  BY <1>1, <1>2, <1>4
<1> HIDE DEF IsLongest
<1> QED BY <1>3, <1>5, <1>6

LEMMA EscapedType ==
  ASSUME NEW b \in Bytes
  PROVE  escaped(b) \in Texts /\ Len(escaped(b)) \in {1, 2, 4}
<1>1. b \in 0..255 /\ b \in Int
  BY DEF Bytes
<1>2. CASE escaped(b) = <<b>>
  BY <1>1, <1>2 DEF Texts
<1>3. CASE \E c \in LetterOf(b) : escaped(b) = <<Backslash, c>>
  <2>1. PICK c \in LetterOf(b) : escaped(b) = <<Backslash, c>>
    BY <1>3
  <2>2. c \in Int /\ Backslash \in Int
    BY LetterIsOne DEF Backslash
  <2> QED BY <2>1, <2>2 DEF Texts
<1>4. CASE escaped(b) = InOctal(b)
  BY <1>1, <1>4, OctalIsByte
<1> QED BY <1>2, <1>3, <1>4, EscapedCases

\* A string is written byte by byte.
LEMMA EscapeSteps ==
  ASSUME NEW s \in Seq(Bytes)
  PROVE  \E f \in [0..Len(s) -> Texts] :
           /\ escape(s) = f[Len(s)] /\ f[0] = <<>>
           /\ \A n \in 1..Len(s) : f[n] = f[n - 1] \o escaped(s[n])
<1> DEFINE N == Len(s)
           step == [p \in (1..N) \X Texts |-> p[2] \o escaped(s[p[1]])]
           All_(f) == f = [n \in 0..N |-> IF n = 0 THEN <<>> ELSE f[n - 1] \o escaped(s[n])]
           all == CHOOSE f : All_(f)
<1>1. N \in Nat /\ \A i \in 1..N : s[i] \in Bytes /\ escaped(s[i]) \in Texts
  <2>1. N \in Nat /\ \A i \in 1..N : s[i] \in Bytes
    OBVIOUS
  <2> QED BY <2>1, EscapedType
<1>2. \A n \in 1..N, v \in Texts : v \o escaped(s[n]) \in Texts
  <2>1. \A v \in Texts, w \in Texts : v \o w \in Texts
    BY DEF Texts
  <2> QED BY <1>1, <2>1
<1>3. step \in [(1..N) \X Texts -> Texts]
  <2>1. \A p \in (1..N) \X Texts : p[2] \o escaped(s[p[1]]) \in Texts
    BY <1>2
  <2> QED BY <2>1
<1>4. \A n \in 1..N : \A v \in Texts : step[<<n, v>>] = v \o escaped(s[n])
  OBVIOUS
<1>5. <<>> \in Texts
  BY DEF Texts
<1> HIDE DEF step, N
<1>6. PICK f \in [0..N -> Texts] : Steps(f, N, <<>>, step)
  <2> DEFINE nil == <<>>
  <2>1. nil \in Texts
    BY <1>5
  <2> HIDE DEF nil
  <2>2. \E f \in [0..N -> Texts] : Steps(f, N, nil, step)
    BY <1>1, <1>3, <2>1, StepsExist
  <2> QED BY <2>2 DEF nil
<1>7. All_(f)
  <2>1. \A n \in 0..N : n # 0 => f[n - 1] \in Texts /\ n \in 1..N
    BY <1>1, <1>6
  <2>2. \A n \in 0..N : f[n] = IF n = 0 THEN <<>> ELSE f[n - 1] \o escaped(s[n])
    BY <1>4, <1>6, <2>1 DEF Steps
  <2>3. f = [n \in 0..N |-> f[n]]
    BY <1>6
  <2> QED BY <2>2, <2>3
<1>8. All_(all)
  <2> HIDE DEF All_
  <2> QED BY <1>7
<1> HIDE DEF all
<1>9. all[0] = <<>> /\ \A n \in 1..N : all[n] = all[n - 1] \o escaped(s[n])
  <2>1. 0 \in 0..N /\ \A n \in 1..N : n \in 0..N /\ n # 0
    BY <1>1
  <2> QED BY <1>8, <2>1
<1>10. all \in [0..N -> Texts]
  <2> DEFINE S == {n \in 0..N : all[n] \in Texts}
  <2>1. 0 \in S
    BY <1>1, <1>5, <1>9
  <2>2. \A n \in 0..(N - 1) : n \in S => n + 1 \in S
    <3>1. SUFFICES ASSUME NEW n \in 0..(N - 1), n \in S
                   PROVE  n + 1 \in S
      OBVIOUS
    <3>2. n + 1 \in 1..N /\ n + 1 \in 0..N /\ (n + 1) - 1 = n
      BY <1>1, <3>1
    <3>3. all[n + 1] = all[n] \o escaped(s[n + 1])
      BY <1>9, <3>2
    <3> QED BY <1>2, <3>1, <3>2, <3>3
  <2> HIDE DEF S
  <2>3. 0..N \subseteq S
    BY <1>1, <2>1, <2>2, InductionUpTo
  <2>4. \A n \in 0..N : all[n] \in Texts
    BY <2>3 DEF S
  <2> QED BY <1>8, <2>4
<1>11. escape(s) = all[N]
  BY DEF escape, all, N
<1> QED BY <1>9, <1>10, <1>11 DEF N

LEMMA Joining ==
  ASSUME NEW u \in Texts, NEW v \in Texts, NEW w \in Texts
  PROVE  (u \o v) \o w = u \o (v \o w)
<1> DEFINE D == Int
<1>1. u \in Seq(D) /\ v \in Seq(D) /\ w \in Seq(D)
  BY DEF Texts
<1> HIDE DEF D
<1> QED BY <1>1

\* The first byte comes first, and then the others.
LEMMA EscapeFirst ==
  ASSUME NEW s \in Seq(Bytes), s # <<>>
  PROVE  escape(s) = escaped(s[1]) \o escape(Tail(s)) /\ escape(Tail(s)) \in Texts
<1> DEFINE t == Tail(s)
           N == Len(t)
           e == escaped(s[1])
           D == Bytes
<1>1. s \in Seq(D) /\ s # <<>>
  OBVIOUS
<1> HIDE DEF D
<1>2. t \in Seq(D) /\ N \in Nat /\ Len(s) = N + 1 /\ s[1] \in D /\ \A n \in 1..N : t[n] = s[n + 1]
  BY <1>1
<1> HIDE DEF t, N, e
<1>3. PICK f \in [0..Len(s) -> Texts] :
        /\ escape(s) = f[Len(s)] /\ f[0] = <<>>
        /\ \A n \in 1..Len(s) : f[n] = f[n - 1] \o escaped(s[n])
  BY EscapeSteps
<1>4. PICK g \in [0..Len(t) -> Texts] :
        /\ escape(t) = g[Len(t)] /\ g[0] = <<>>
        /\ \A n \in 1..Len(t) : g[n] = g[n - 1] \o escaped(t[n])
  BY <1>2, EscapeSteps DEF D
<1>5. e \in Texts
  BY <1>2, EscapedType DEF D, e
<1> DEFINE S == {n \in 0..N : f[n + 1] = e \o g[n]}
<1>6. 0 \in S
  <2>1. f[1] = f[1 - 1] \o escaped(s[1]) /\ f[0] = <<>> /\ g[0] = <<>> /\ 1 - 1 = 0
    BY <1>2, <1>3, <1>4
  <2>2. <<>> \o e = e /\ e \o <<>> = e
    BY <1>5 DEF Texts
  <2>3. f[0 + 1] = e \o g[0] /\ 0 \in 0..N
    <3>1. 0 + 1 = 1 /\ 0 \in 0..N
      BY <1>2
    <3>2. f[1] = f[0] \o escaped(s[1])
      BY <2>1
    <3>3. f[1] = e
      BY <2>1, <2>2, <3>2 DEF e
    <3>4. e \o g[0] = e
      BY <2>1, <2>2
    <3> QED BY <3>1, <3>3, <3>4
  <2> QED BY <2>3
<1>7. \A n \in 0..(N - 1) : n \in S => n + 1 \in S
  <2>1. SUFFICES ASSUME NEW n \in 0..(N - 1), n \in S
                 PROVE  n + 1 \in S
    OBVIOUS
  <2>2. /\ n + 1 \in 1..N /\ n + 1 \in 0..N /\ (n + 1) + 1 \in 1..Len(s) /\ (n + 1) - 1 = n
        /\ ((n + 1) + 1) - 1 = n + 1 /\ n \in 0..N
    BY <1>2, <2>1
  <2>3. f[(n + 1) + 1] = f[n + 1] \o escaped(s[(n + 1) + 1])
    BY <1>3, <2>2
  <2>4. g[n + 1] = g[n] \o escaped(t[n + 1]) /\ t[n + 1] = s[(n + 1) + 1]
    BY <1>2, <1>4, <2>2 DEF N
  <2>5. f[n + 1] = e \o g[n] /\ g[n] \in Texts
    BY <1>4, <2>1, <2>2 DEF N
  <2> DEFINE a == g[n]
             c == escaped(t[n + 1])
  <2>6. c \in Texts
    <3>1. t[n + 1] \in D
      BY <1>2, <2>2 DEF N
    <3> QED BY <3>1, EscapedType DEF D
  <2>7. a \in Texts
    BY <2>5
  <2> HIDE DEF a, c
  <2>8. (e \o a) \o c = e \o (a \o c)
    BY <1>5, <2>6, <2>7, Joining
  <2>9. f[(n + 1) + 1] = e \o g[n + 1]
    BY <2>3, <2>4, <2>5, <2>8 DEF a, c
  <2> QED BY <2>2, <2>9
<1> HIDE DEF S
<1>8. N \in S
  <2>1. 0..N \subseteq S
    BY <1>2, <1>6, <1>7, InductionUpTo
  <2> QED BY <1>2, <2>1
<1>9. escape(s) = e \o escape(t)
  BY <1>2, <1>3, <1>4, <1>8 DEF S, N
<1>10. escape(t) \in Texts
  BY <1>2, <1>4 DEF N
<1> QED BY <1>9, <1>10 DEF e, t

LEMMA EscapeType_ == \A s \in Seq(Bytes) : escape(s) \in Texts
<1>1. SUFFICES ASSUME NEW s \in Seq(Bytes) PROVE escape(s) \in Texts
  OBVIOUS
<1>2. PICK f \in [0..Len(s) -> Texts] : escape(s) = f[Len(s)]
  <2>1. \E f \in [0..Len(s) -> Texts] :
          /\ escape(s) = f[Len(s)] /\ f[0] = <<>>
          /\ \A n \in 1..Len(s) : f[n] = f[n - 1] \o escaped(s[n])
    BY EscapeSteps
  <2> QED BY <2>1
<1>3. Len(s) \in 0..Len(s)
  OBVIOUS
<1> QED BY <1>2, <1>3

LEMMA EscapeNothing == escape(<<>>) = <<>>
<1> DEFINE s == <<>>
<1>1. s \in Seq(Bytes) /\ Len(s) = 0
  OBVIOUS
<1> HIDE DEF s
<1>2. PICK f \in [0..Len(s) -> Texts] : escape(s) = f[Len(s)] /\ f[0] = <<>>
  BY <1>1, EscapeSteps
<1> QED BY <1>1, <1>2 DEF s

-----------------------------------------------------------------------------
(* What the scanner makes of it. *)

\* What comes first is dropped, and what comes after it is left.
LEMMA Joined ==
  ASSUME NEW u \in Texts, NEW v \in Texts, u # <<>>
  PROVE  /\ u \o v \in Texts /\ Len(u) \in 1..Len(u \o v) /\ u \o v # <<>>
         /\ SubSeq(u \o v, 1, Len(u)) = u /\ Rest(u \o v, Len(u)) = v
         /\ \A i \in 1..Len(u) : (u \o v)[i] = u[i]
<1> DEFINE D == Int
           w == u \o v
           n == Len(u)
<1>1. u \in Seq(D) /\ v \in Seq(D)
  BY DEF Texts
<1> HIDE DEF D
<1>2. /\ w \in Seq(D) /\ Len(w) = n + Len(v) /\ n \in Nat \ {0} /\ Len(v) \in Nat
      /\ \A i \in 1..n : w[i] = u[i]
      /\ \A i \in 1..Len(v) : w[n + i] = v[i]
  BY <1>1
<1>3. SubSeq(w, 1, n) = u /\ SubSeq(w, n + 1, Len(w)) = v
  BY <1>1, <1>2
<1> HIDE DEF w, n
<1>4. n \in 1..Len(w) /\ w # <<>>
  BY <1>2
<1>5. Rest(w, n) = v
  <2>1. n # 0
    BY <1>2
  <2> QED BY <1>3, <2>1 DEF Rest
<1>6. w \in Texts
  BY <1>2 DEF D, Texts
<1> QED BY <1>2, <1>3, <1>4, <1>5, <1>6 DEF w, n

\* A text of four bytes without the first one.
LEMMA FourBytes ==
  ASSUME NEW s \in Texts, Len(s) = 4
  PROVE  s # <<>> /\ DOMAIN Tail(s) = 1..3 /\ \A i \in 1..3 : Tail(s)[i] = s[i + 1]
<1> DEFINE D == Int
<1>1. s # <<>>
  <2>1. Len(<<>>) = 0 /\ 4 # 0
    OBVIOUS
  <2> QED BY <2>1
<1>2. \A t \in Seq(D) : t # <<>> =>
        /\ Tail(t) \in Seq(D) /\ Len(Tail(t)) = Len(t) - 1
        /\ DOMAIN Tail(t) = 1..(Len(t) - 1)
        /\ \A i \in 1..(Len(t) - 1) : Tail(t)[i] = t[i + 1]
  OBVIOUS
<1>3. s \in Seq(D) /\ Len(s) = 4
  BY DEF Texts
<1>4. s # <<>> /\ 4 - 1 = 3
  BY <1>1, <1>3
<1> HIDE DEF D
<1>5. DOMAIN Tail(s) = 1..3 /\ \A i \in 1..3 : Tail(s)[i] = s[i + 1]
  BY <1>2, <1>3, <1>4
<1> QED BY <1>4, <1>5

\* The beginnings of a text.
LEMMA Beginning ==
  ASSUME NEW w \in Texts, NEW j \in 1..Len(w)
  PROVE  /\ SubSeq(w, 1, j) \in Texts /\ Len(SubSeq(w, 1, j)) = j
         /\ \A i \in 1..j : SubSeq(w, 1, j)[i] = w[i]
<1> DEFINE D == Int
<1>1. w \in Seq(D) /\ Len(w) \in Nat
  BY DEF Texts
<1> HIDE DEF D
<1>2. /\ SubSeq(w, 1, j) \in Seq(D) /\ Len(SubSeq(w, 1, j)) = j
      /\ \A i \in 1..j : SubSeq(w, 1, j)[i] = w[i]
  BY <1>1
<1> QED BY <1>2 DEF D, Texts

\* What no rule for strings matches.
LEMMA TooLong ==
  ASSUME NEW s \in Texts, NEW j \in Nat, Len(s) = j,
         \/ j > 1 /\ s[1] # Backslash
         \/ j > 2 /\ s[2] \in {110, 98, 102, 114, 116, 118, 34}
         \/ j > 4
  PROVE  ~Rules("SC_STRING", s)
<1>1. SUFFICES ASSUME Rules("SC_STRING", s) PROVE FALSE
  OBVIOUS
<1>2. j = 1 \/ (s[1] = Backslash /\ j = 2)
      \/ (s[1] = Backslash /\ j = 4 /\ (All(Tail(s), Octal) \/ s[2] = 120))
  BY <1>1 DEF Rules
<1>3. CASE s[1] = Backslash /\ j = 4 /\ s[2] \in {110, 98, 102, 114, 116, 118, 34}
  <2>1. Len(s) = 4
    BY <1>3
  <2>2. 1 \in DOMAIN Tail(s) /\ Tail(s)[1] = s[2]
    BY <2>1, FourBytes
  <2>3. All(Tail(s), Octal) => Octal(s[2])
    BY <2>2 DEF All
  <2>4. ~Octal(s[2]) /\ s[2] # 120
    BY <1>3 DEF Octal
  <2>5. 4 # 1 /\ 4 # 2
    OBVIOUS
  <2> QED BY <1>2, <1>3, <2>3, <2>4, <2>5
<1>4. j = 1 \/ j = 2 \/ j = 4
  BY <1>2
<1>5. CASE j > 1 /\ s[1] # Backslash
  BY <1>2, <1>5
<1>6. CASE j > 2 /\ s[2] \in {110, 98, 102, 114, 116, 118, 34}
  <2>1. j = 4 /\ j # 1 /\ j # 2
    BY <1>4, <1>6
  <2> QED BY <1>2, <1>3, <1>6, <2>1
<1>7. CASE j > 4
  BY <1>4, <1>7
<1> QED BY <1>5, <1>6, <1>7

\* A byte that was written is read, whatever comes after it.
LEMMA ByteIsRead ==
  ASSUME NEW b \in Bytes, NEW rest \in Texts, NEW x, x.start = "SC_STRING"
  PROVE  LET text == escaped(b) \o rest
             n    == Longest("SC_STRING", text)
         IN  Rule_(x, text, n) = Grown(x, <<b>>) /\ Rest(text, n) = rest
<1> DEFINE e == escaped(b)
           m == Len(e)
           text == e \o rest
           n == Longest("SC_STRING", text)
<1>1. e \in Texts /\ m \in {1, 2, 4} /\ e # <<>>
  <2>1. e \in Texts /\ m \in {1, 2, 4}
    BY EscapedType
  <2>2. Len(<<>>) = 0
    OBVIOUS
  <2> HIDE DEF e
  <2>3. e # <<>>
    BY <2>1, <2>2
  <2> QED BY <2>1, <2>3
<1>2. /\ text \in Texts /\ m \in 1..Len(text) /\ text # <<>>
      /\ SubSeq(text, 1, m) = e /\ Rest(text, m) = rest
      /\ \A i \in 1..m : text[i] = e[i]
  <2> HIDE DEF e
  <2> QED BY <1>1, Joined
<1> HIDE DEF text, n
<1>3. /\ Rules("SC_STRING", e) /\ ScanString(x, e) = Grown(x, <<b>>)
      /\ \/ m > 0 /\ e[1] # Backslash
         \/ m > 1 /\ e[2] \in {110, 98, 102, 114, 116, 118, 34}
         \/ m > 3
  <2>1. CASE e = <<b>> /\ b # Quote /\ b # 10
    <3>1. Len(e) = 1 /\ e[1] = b /\ e # <<10>> /\ e # <<Quote>> /\ b # Backslash
      BY <2>1 DEF Bytes
    <3>2. Rules("SC_STRING", e)
      BY <3>1 DEF Rules
    <3>3. ScanString(x, e) = Grown(x, e)
      <4> HIDE DEF e
      <4> QED BY <3>1 DEF ScanString
    <3> QED BY <2>1, <3>1, <3>2, <3>3
  <2>2. CASE \E c \in LetterOf(b) : e = <<Backslash, c>>
    <3>1. PICK c \in LetterOf(b) : e = <<Backslash, c>>
      BY <2>2
    <3>2. EscapeOf(c) = {b} /\ c \in {110, 98, 102, 114, 116, 118, 34}
      BY LetterIsOne
    <3>3. Len(e) = 2 /\ e[1] = Backslash /\ e[2] = c /\ e # <<Quote>>
      BY <3>1
    <3>4. Rules("SC_STRING", e)
      BY <3>2, <3>3 DEF Rules
    <3>5. (CHOOSE v \in EscapeOf(e[2]) : TRUE) = b
      BY <3>2, <3>3
    <3>6. ScanString(x, e) = Grown(x, <<CHOOSE v \in EscapeOf(e[2]) : TRUE>>)
      <4> HIDE DEF e
      <4> QED BY <3>3 DEF ScanString
    <3> QED BY <3>2, <3>3, <3>4, <3>5, <3>6
  <2>3. CASE e = InOctal(b)
    <3>1. /\ e \in Texts /\ Len(e) = 4 /\ e[1] = Backslash /\ \A i \in 2..4 : e[i] \in 48..55
          /\ strtol(Tail(e), 8) = b
      <4>1. b \in 0..255
        BY DEF Bytes
      <4> QED BY <2>3, <4>1, OctalIsByte
    <3> HIDE DEF e
    <3>2. All(Tail(e), Octal)
      <4>3. DOMAIN Tail(e) = 1..3 /\ \A i \in 1..3 : Tail(e)[i] = e[i + 1]
        BY <3>1, FourBytes
      <4>4. \A i \in 1..3 : i + 1 \in 2..4
        OBVIOUS
      <4>5. \A i \in DOMAIN Tail(e) : Octal(Tail(e)[i])
        BY <3>1, <4>3, <4>4 DEF Octal
      <4> QED BY <4>5 DEF All
    <3>3. Rules("SC_STRING", e)
      BY <3>1, <3>2 DEF Rules
    <3>4. e # <<Quote>> /\ e[2] # 120
      <4>1. e[2] \in 48..55 /\ Len(<<Quote>>) = 1
        BY <3>1
      <4>2. e[2] # 120
        BY <4>1
      <4>3. e # <<Quote>>
        BY <3>1, <4>1
      <4> QED BY <4>2, <4>3
    <3>5. ScanString(x, e) = IF b > 255 THEN Dies(x) ELSE Grown(x, <<b>>)
      BY <3>1, <3>4 DEF ScanString
    <3>6. ~(b > 255)
      BY DEF Bytes
    <3> QED BY <3>1, <3>3, <3>5, <3>6
  <2> QED BY <2>1, <2>2, <2>3, EscapedCases
<1> HIDE DEF e, m
<1>4. \A j \in (m + 1)..Len(text) : ~Rules("SC_STRING", SubSeq(text, 1, j))
  <2>1. SUFFICES ASSUME NEW j \in (m + 1)..Len(text)
                 PROVE  ~Rules("SC_STRING", SubSeq(text, 1, j))
    OBVIOUS
  <2> DEFINE s == SubSeq(text, 1, j)
  <2>2. j \in 1..Len(text) /\ j > m /\ j \in Nat /\ 1 \in 1..m /\ Len(text) \in Nat
    <3>1. Len(text) \in Nat
      BY <1>2 DEF Texts
    <3> QED BY <1>1, <3>1
  <2>3. s \in Texts /\ Len(s) = j /\ \A i \in 1..j : s[i] = text[i]
    BY <1>2, <2>2, Beginning
  <2> HIDE DEF s
  <2>4. \A i \in 1..m : s[i] = e[i]
    <3>1. \A i \in 1..m : i \in 1..j
      BY <1>1, <2>2
    <3> QED BY <1>2, <2>3, <3>1
  <2>5. CASE m > 0 /\ e[1] # Backslash
    <3>1. j > 1 /\ s[1] # Backslash
      BY <1>1, <2>2, <2>4, <2>5
    <3> QED BY <2>2, <2>3, <3>1, TooLong DEF s
  <2>6. CASE m > 1 /\ e[2] \in {110, 98, 102, 114, 116, 118, 34}
    <3>1. 2 \in 1..m /\ j > 2
      BY <1>1, <2>2, <2>6
    <3>2. s[2] \in {110, 98, 102, 114, 116, 118, 34}
      BY <2>4, <2>6, <3>1
    <3> QED BY <2>2, <2>3, <3>1, <3>2, TooLong DEF s
  <2>7. CASE m > 3
    <3>1. j > 4
      BY <1>1, <2>2, <2>7
    <3> QED BY <2>2, <2>3, <3>1, TooLong DEF s
  <2> QED BY <1>3, <2>5, <2>6, <2>7
<1>5. n = m
  <2>1. Rules("SC_STRING", SubSeq(text, 1, m))
    BY <1>2, <1>3
  <2>2. Longest("SC_STRING", text) = m
    BY <1>2, <1>4, <2>1, LongestIs
  <2> QED BY <2>2 DEF n
<1>6. n # 0
  BY <1>1, <1>5
<1>7. Rule_(x, text, n) = ScanString(x, SubSeq(text, 1, n))
  BY <1>2, <1>6 DEF Rule_
<1> QED BY <1>2, <1>3, <1>5, <1>7 DEF text, n, e

\* A string between quotes: what is read at the first one.
LEMMA OpeningIsRead ==
  ASSUME NEW rest \in Texts
  PROVE  LET text == <<Quote>> \o rest
             n    == Longest("INITIAL", text)
             r    == Rule_(Lexer, text, n)
         IN  /\ r = Gives([start |-> "SC_STRING", grown_string |-> <<>>, depth |-> 0], <<>>)
             /\ Rest(text, n) = rest
<1> DEFINE e == <<Quote>>
           text == e \o rest
           n == Longest("INITIAL", text)
<1>1. e \in Texts /\ Len(e) = 1 /\ e[1] = 34 /\ e # <<>>
  BY DEF Texts, Quote
<1>2. /\ e \notin DOMAIN Reserved /\ e \notin whitechar \cup endofline /\ e # Open
      /\ ~int(e)
  <2>1. e \notin DOMAIN Reserved
    BY <1>1, ReservedAssumption DEF Quote
  <2>2. e \notin whitechar \cup endofline /\ e # Open
    BY <1>1 DEF whitechar, endofline, Open
  <2>3. ~int(e)
    BY <1>1 DEF int, All, Digit
  <2> QED BY <2>1, <2>2, <2>3
<1>3. Rules("INITIAL", e)
  BY DEF Rules
<1>4. ScanInitial(Lexer, e) = Gives([start |-> "SC_STRING", grown_string |-> <<>>, depth |-> 0], <<>>)
  <2>1. [Lexer EXCEPT !.grown_string = <<>>, !.start = "SC_STRING"]
          = [start |-> "SC_STRING", grown_string |-> <<>>, depth |-> 0]
    <3> DEFINE nil == <<>>
               a == "INITIAL"
               b == "SC_STRING"
               c == 0
               y == [start |-> a, grown_string |-> nil, depth |-> c]
    <3>1. [y EXCEPT !.grown_string = nil] = y /\ [y EXCEPT !.start = b] = [start |-> b, grown_string |-> nil, depth |-> c]
      <4> HIDE DEF nil, a, b, c
      <4>1. [y EXCEPT !.grown_string = nil] = y
        OBVIOUS
      <4>2. [y EXCEPT !.start = b] = [start |-> b, grown_string |-> nil, depth |-> c]
        OBVIOUS
      <4> QED BY <4>1, <4>2
    <3>2. Lexer = y
      BY DEF Lexer
    <3> HIDE DEF y, nil, a, b, c
    <3>3. [[Lexer EXCEPT !.grown_string = nil] EXCEPT !.start = b] = [start |-> b, grown_string |-> nil, depth |-> c]
      BY <3>1, <3>2
    <3> QED BY <3>3 DEF nil, b, c
  <2>2. ScanInitial(Lexer, e)
          = Gives([Lexer EXCEPT !.grown_string = <<>>, !.start = "SC_STRING"], <<>>)
    BY <1>2 DEF ScanInitial
  <2> QED BY <2>1, <2>2
<1> HIDE DEF e
<1>5. /\ text \in Texts /\ 1 \in 1..Len(text) /\ text # <<>>
      /\ SubSeq(text, 1, 1) = e /\ Rest(text, 1) = rest /\ text[1] = 34
  <2>1. /\ text \in Texts /\ Len(e) \in 1..Len(text) /\ text # <<>>
        /\ SubSeq(text, 1, Len(e)) = e /\ Rest(text, Len(e)) = rest
        /\ \A i \in 1..Len(e) : text[i] = e[i]
    BY <1>1, Joined
  <2>2. 1 \in 1..Len(e)
    BY <1>1
  <2> HIDE DEF text
  <2> QED BY <1>1, <2>1, <2>2
<1> HIDE DEF text, n
<1>6. \A j \in 2..Len(text) : ~Rules("INITIAL", SubSeq(text, 1, j))
  <2>1. SUFFICES ASSUME NEW j \in 2..Len(text)
                 PROVE  ~Rules("INITIAL", SubSeq(text, 1, j))
    OBVIOUS
  <2> DEFINE s == SubSeq(text, 1, j)
  <2>2. j \in 1..Len(text) /\ j > 1 /\ 1 \in 1..j
    <3>1. Len(text) \in Nat
      BY <1>5 DEF Texts
    <3> QED BY <3>1
  <2>3. s \in Texts /\ Len(s) = j /\ s[1] = 34 /\ 1 \in DOMAIN s
    <3>1. /\ SubSeq(text, 1, j) \in Texts /\ Len(SubSeq(text, 1, j)) = j
          /\ \A i \in 1..j : SubSeq(text, 1, j)[i] = text[i]
      BY <1>5, <2>2, Beginning
    <3> HIDE DEF s
    <3>2. s \in Texts /\ Len(s) = j /\ s[1] = 34
      BY <1>5, <2>2, <3>1 DEF s
    <3>3. DOMAIN s = 1..j
      BY <3>2 DEF Texts
    <3> QED BY <2>2, <3>2, <3>3
  <2> HIDE DEF s
  <2>4. s \notin DOMAIN Reserved
    BY <2>3, ReservedAssumption DEF Quote
  <2>5. s \notin whitechar \cup endofline /\ s # Open
    BY <2>3 DEF whitechar, endofline, Open
  <2>6. s # <<Quote>>
    <3>1. Len(<<Quote>>) = 1
      OBVIOUS
    <3> QED BY <2>2, <2>3, <3>1
  <2>7. ~int(s) /\ ~id(s)
    BY <2>3 DEF int, id, All, Digit, Letter
  <2>8. ~Rules("INITIAL", s)
    BY <2>4, <2>5, <2>6, <2>7 DEF Rules
  <2> QED BY <2>8 DEF s
<1>7. n = 1
  <2>1. 1 + 1 = 2
    OBVIOUS
  <2>2. Rules("INITIAL", SubSeq(text, 1, 1))
    BY <1>3, <1>5, Zenon
  <2>3. Longest("INITIAL", text) = 1
    BY <1>5, <1>6, <2>1, <2>2, LongestIs
  <2> QED BY <2>3 DEF n
<1>8. Rule_(Lexer, text, n) = ScanInitial(Lexer, SubSeq(text, 1, n))
  <2>1. Lexer.start = "INITIAL" /\ n # 0
    BY <1>7 DEF Lexer
  <2> QED BY <1>5, <2>1 DEF Rule_
<1> QED BY <1>4, <1>5, <1>7, <1>8 DEF text, n, e

\* And what is read at the last one.
LEMMA ClosingIsRead ==
  ASSUME NEW x, x.start = "SC_STRING"
  PROVE  LET text == <<Quote>>
             n    == Longest("SC_STRING", text)
         IN  /\ Rule_(x, text, n) = Gives([x EXCEPT !.start = "INITIAL"], <<Str(x.grown_string)>>)
             /\ Rest(text, n) = <<>>
<1> DEFINE text == <<Quote>>
           n == Longest("SC_STRING", text)
<1>1. text \in Texts /\ Len(text) = 1 /\ text # <<>> /\ text # <<10>>
  BY DEF Texts, Quote
<1>2. ScanString(x, text) = Gives([x EXCEPT !.start = "INITIAL"], <<Str(x.grown_string)>>)
  BY <1>1 DEF ScanString
<1>3. SubSeq(text, 1, 1) = text
  <2> DEFINE D == Int
             t == text
  <2>1. t \in Seq(D) /\ Len(t) = 1
    BY <1>1 DEF Texts
  <2> HIDE DEF D, t
  <2>2. SubSeq(t, 1, 1) = t
    BY <2>1
  <2> QED BY <2>2 DEF t
<1> HIDE DEF text, n
<1>4. Rules("SC_STRING", text)
  BY <1>1 DEF Rules
<1>5. n = 1
  <2>1. 1 \in 1..Len(text) /\ (1 + 1)..Len(text) = {}
    BY <1>1
  <2>2. Rules("SC_STRING", SubSeq(text, 1, 1))
    BY <1>3, <1>4, Zenon
  <2>3. Longest("SC_STRING", text) = 1
    BY <1>1, <2>1, <2>2, LongestIs
  <2> QED BY <2>3 DEF n
<1>6. Rule_(x, text, n) = ScanString(x, SubSeq(text, 1, n))
  <2>1. n # 0
    BY <1>5
  <2> QED BY <1>1, <2>1 DEF Rule_
<1>7. Rest(text, n) = <<>>
  <2>1. Rest(text, 1) = SubSeq(text, 2, 1)
    BY <1>1 DEF Rest
  <2>2. SubSeq(text, 2, 1) = <<>>
    BY <1>1 DEF text
  <2> QED BY <1>5, <2>1, <2>2
<1> QED BY <1>2, <1>3, <1>5, <1>6, <1>7 DEF text, n

-----------------------------------------------------------------------------
(* A program that is a string. *)

Written(s) == <<Quote>> \o (escape(s) \o <<Quote>>)

\* How far the string s is read: its first quote is next, or what is left of it is
\* written between what was read and the last quote, or it is a token.
Reading(lexer, text, tokens, s) ==
  \/ lexer = Lexer /\ text = Written(s) /\ tokens = <<>>
  \/ /\ lexer.start = "SC_STRING" /\ tokens = <<>>
     /\ \E left \in Seq(Bytes) : /\ lexer.grown_string \o left = s
                                 /\ text = escape(left) \o <<Quote>>
  \/ lexer.start = "INITIAL" /\ text = <<>> /\ tokens = <<Str(s)>>

\* The first byte of what is left goes to the end of what was read.
LEMMA OneByteMore ==
  ASSUME NEW u \in Texts, NEW left \in Seq(Bytes), left # <<>>
  PROVE  /\ left[1] \in Bytes /\ Tail(left) \in Seq(Bytes)
         /\ (u \o <<left[1]>>) \o Tail(left) = u \o left
<1> DEFINE D == Int
           v == left
           b == v[1]
<1>1. u \in Seq(D) /\ left \in Seq(Bytes) /\ left # <<>>
  BY DEF Texts
<1>2. v \in Seq(D)
  <2> DEFINE B == Bytes
  <2>1. B \subseteq D
    <3>1. 0..255 \subseteq D
      OBVIOUS
    <3> HIDE DEF D
    <3> QED BY <3>1 DEF Bytes
  <2>2. v \in Seq(B)
    OBVIOUS
  <2> HIDE DEF B, D, v
  <2> QED BY <2>1, <2>2
<1>3. left[1] \in Bytes /\ Tail(left) \in Seq(Bytes)
  <2> DEFINE B == Bytes
  <2>1. left \in Seq(B)
    OBVIOUS
  <2> HIDE DEF B
  <2>2. left[1] \in B /\ Tail(left) \in Seq(B)
    BY <1>1, <2>1
  <2> QED BY <2>2 DEF B
<1>4. v # <<>>
  OBVIOUS
<1> HIDE DEF D, v
<1>5. b \in D /\ Tail(v) \in Seq(D)
  BY <1>2, <1>4
<1>6. <<b>> \o Tail(v) = v
  BY <1>2, <1>4
<1>7. (u \o <<b>>) \o Tail(v) = u \o (<<b>> \o Tail(v))
  BY <1>1, <1>5
<1>8. (u \o <<b>>) \o Tail(v) = u \o v
  BY <1>6, <1>7
<1> QED BY <1>3, <1>8 DEF v

\* One rule reads the string further, whatever it is.
LEMMA ReadsFurther ==
  ASSUME NEW x \in Lexers, NEW text, NEW tokens, NEW s \in Seq(Bytes),
         Reading(x, text, tokens, s), ~(text = <<>> /\ x.start = "INITIAL")
  PROVE  LET n == Longest(x.start, text)
             r == Rule_(x, text, n)
         IN  r.out = "" /\ Reading(r.lexer, Rest(text, n), tokens \o r.tokens, s)
<1> DEFINE n == Longest(x.start, text)
           r == Rule_(x, text, n)
           q == <<Quote>>
<1>1. q \in Texts
  BY DEF Texts, Quote
<1>2. \A y, ts : Gives(y, ts).lexer = y /\ Gives(y, ts).tokens = ts /\ Gives(y, ts).out = ""
  BY DEF Gives
<1>3. CASE x = Lexer /\ text = Written(s) /\ tokens = <<>>
  <2> DEFINE rest == escape(s) \o q
             y == [start |-> "SC_STRING", grown_string |-> <<>>, depth |-> 0]
  <2>1. rest \in Texts
    <3>1. escape(s) \in Texts
      BY EscapeType_
    <3> HIDE DEF q
    <3> QED BY <1>1, <3>1 DEF Texts
  <2>2. text = q \o rest
    BY <1>3 DEF Written
  <2>3. x.start = "INITIAL"
    BY <1>3 DEF Lexer
  <2>4. r = Gives(y, <<>>) /\ Rest(text, n) = rest
    <3> HIDE DEF rest
    <3>1. LET w == <<Quote>> \o rest
              k == Longest("INITIAL", w)
          IN  Rule_(Lexer, w, k) = Gives(y, <<>>) /\ Rest(w, k) = rest
      BY <2>1, OpeningIsRead
    <3> QED BY <1>3, <2>2, <2>3, <3>1
  <2>5. y.start = "SC_STRING" /\ y.grown_string = <<>>
    OBVIOUS
  <2>6. <<>> \o s = s /\ tokens \o <<>> = <<>>
    <3>1. tokens \o <<>> = <<>>
      BY <1>3
    <3>2. <<>> \o s = s
      <4> DEFINE B == Bytes
      <4>1. s \in Seq(B)
        OBVIOUS
      <4> HIDE DEF B
      <4> QED BY <4>1
    <3> QED BY <3>1, <3>2
  <2> HIDE DEF y, r, n
  <2>7. r.out = "" /\ r.lexer = y /\ r.tokens = <<>>
    BY <1>2, <2>4
  <2>8. Reading(y, rest, <<>>, s)
    <3>1. y.grown_string \o s = s
      BY <2>5, <2>6
    <3> QED BY <2>5, <3>1 DEF Reading
  <2>9. Reading(r.lexer, Rest(text, n), tokens \o r.tokens, s)
    BY <2>4, <2>6, <2>7, <2>8
  <2> QED BY <2>7, <2>9 DEF r, n
<1>4. CASE /\ x.start = "SC_STRING" /\ tokens = <<>>
           /\ \E left \in Seq(Bytes) : x.grown_string \o left = s /\ text = escape(left) \o q
  <2>1. PICK left \in Seq(Bytes) : x.grown_string \o left = s /\ text = escape(left) \o q
    BY <1>4
  <2>2. x.grown_string \in Texts
    BY DEF Lexers
  <2>3. CASE left = <<>>
    <3> DEFINE y == [x EXCEPT !.start = "INITIAL"]
               ts == <<Str(x.grown_string)>>
    <3>1. text = q
      <4>1. text = <<>> \o q
        BY <2>1, <2>3, EscapeNothing
      <4> QED BY <1>1, <4>1 DEF Texts
    <3>2. x.grown_string = s
      <4> DEFINE u == x.grown_string
                 D == Int
      <4>1. u \in Seq(D) /\ u \o <<>> = s
        BY <2>1, <2>2, <2>3 DEF Texts
      <4> HIDE DEF u, D
      <4>2. u \o <<>> = u
        BY <4>1
      <4> QED BY <4>1, <4>2 DEF u
    <3>3. r = Gives(y, ts) /\ Rest(text, n) = <<>>
      <4>1. LET w == <<Quote>>
                k == Longest("SC_STRING", w)
            IN  Rule_(x, w, k) = Gives(y, ts) /\ Rest(w, k) = <<>>
        BY <1>4, ClosingIsRead
      <4> QED BY <1>4, <3>1, <4>1
    <3>4. y.start = "INITIAL"
      BY DEF Lexers
    <3>5. ts = <<Str(s)>>
      BY <3>2
    <3>6. tokens \o ts = ts
      <4>1. \A t : <<>> \o <<t>> = <<t>>
        OBVIOUS
      <4> QED BY <1>4, <4>1
    <3> HIDE DEF y, ts, r, n
    <3>7. r.out = "" /\ r.lexer = y /\ r.tokens = ts
      BY <1>2, <3>3
    <3>8. Reading(y, <<>>, ts, s)
      BY <3>4, <3>5 DEF Reading
    <3>9. Reading(r.lexer, Rest(text, n), tokens \o r.tokens, s)
      BY <3>3, <3>6, <3>7, <3>8
    <3> QED BY <3>7, <3>9 DEF r, n
  <2>4. CASE left # <<>>
    <3> DEFINE b == left[1]
               t == Tail(left)
               u == x.grown_string
               rest == escape(t) \o q
               y == [x EXCEPT !.grown_string = @ \o <<b>>]
    <3>1. b \in Bytes /\ t \in Seq(Bytes) /\ (u \o <<b>>) \o t = s
      <4>1. u \in Texts /\ u \o left = s
        BY <2>1, <2>2
      <4> HIDE DEF u
      <4> QED BY <2>4, <4>1, OneByteMore
    <3>2. text = escaped(b) \o rest /\ rest \in Texts
      <4>1. escape(left) = escaped(b) \o escape(t) /\ escape(t) \in Texts
        BY <2>4, EscapeFirst
      <4>2. escaped(b) \in Texts
        BY <3>1, EscapedType
      <4> DEFINE e == escaped(b)
                 f == escape(t)
      <4>3. e \in Texts /\ f \in Texts
        BY <4>1, <4>2
      <4> HIDE DEF e, f, q
      <4>4. (e \o f) \o q = e \o (f \o q)
        BY <1>1, <4>3, Joining
      <4>5. f \o q \in Texts
        BY <1>1, <4>3 DEF Texts
      <4>6. escape(left) = e \o f
        BY <4>1 DEF e, f
      <4> QED BY <2>1, <4>4, <4>5, <4>6 DEF e, f
    <3>3. r = Grown(x, <<b>>) /\ Rest(text, n) = rest
      <4> HIDE DEF b, rest
      <4>1. LET w == escaped(b) \o rest
                k == Longest("SC_STRING", w)
            IN  Rule_(x, w, k) = Grown(x, <<b>>) /\ Rest(w, k) = rest
        BY <1>4, <3>1, <3>2, ByteIsRead
      <4> QED BY <1>4, <3>2, <4>1
    <3>4. Grown(x, <<b>>) = Gives(y, <<>>)
      BY DEF Grown
    <3>5. y.start = "SC_STRING" /\ y.grown_string = u \o <<b>>
      BY <1>4 DEF Lexers
    <3>6. tokens \o <<>> = <<>>
      BY <1>4
    <3> HIDE DEF y, r, n, b, t, rest, u
    <3>7. r.out = "" /\ r.lexer = y /\ r.tokens = <<>>
      <4>1. r = Gives(y, <<>>)
        BY <3>3, <3>4
      <4> QED BY <1>2, <4>1, Zenon
    <3>8. Reading(y, rest, <<>>, s)
      <4>1. y.grown_string \o t = s /\ rest = escape(t) \o <<Quote>>
        BY <3>1, <3>5 DEF rest
      <4> QED BY <3>1, <3>5, <4>1 DEF Reading
    <3>9. Reading(r.lexer, Rest(text, n), tokens \o r.tokens, s)
      BY <3>3, <3>6, <3>7, <3>8
    <3> QED BY <3>7, <3>9 DEF r, n
  <2> QED BY <2>3, <2>4
<1> QED BY <1>3, <1>4 DEF Reading

\* A program that is a string is read by one scanner; a scanner that fails then is
\* that of an import, the prelude's.
ReadsString(s, text, st, fr, open) ==
  text = Written(s) =>
    /\ st = "file" => Len(fr) = 1 /\ Reading(fr[1].lexer, fr[1].text, fr[1].tokens, s)
    /\ st = "scan" => open # <<>>
ReadsStrings == \A s \in Seq(Bytes) : ReadsString(s, main, status, frames, open_files_)

\* Whether tc reads on or not, it no longer reads the program.
LEMMA LaterReads ==
  ASSUME UNCHANGED main, status' # "file", status' # "scan"
  PROVE  ReadsStrings'
BY DEF ReadsStrings, ReadsString

LEMMA ReadsSame ==
  ASSUME ReadsStrings, UNCHANGED <<main, status, frames, open_files_>>
  PROVE  ReadsStrings'
BY DEF ReadsStrings

LEMMA StringBegins ==
  ASSUME parse
  PROVE  ReadsStrings'
<1> DEFINE c == Call(filename_, main)
<1>1. frames' = <<c>> /\ status' = "file" /\ main' = main
  BY DEF parse
<1>2. c.lexer = Lexer /\ c.text = main /\ c.tokens = <<>>
  BY DEF Call
<1> HIDE DEF c
<1>3. Len(frames') = 1 /\ frames'[1] = c
  BY <1>1
<1>4. status' # "scan"
  BY <1>1
<1>5. SUFFICES ASSUME NEW s \in Seq(Bytes), main = Written(s)
               PROVE  Reading(c.lexer, c.text, c.tokens, s)
  BY <1>1, <1>3, <1>4 DEF ReadsStrings, ReadsString
<1> QED BY <1>2, <1>5 DEF Reading

\* An import of the program is none of a program that is a string.
LEMMA StringImports ==
  ASSUME NEW s \in Seq(Bytes), NEW f, IsCall(f), Reading(f.lexer, f.text, f.tokens, s)
  PROVE  ~Import(f)
<1> DEFINE ts == f.tokens
           v == Str(s)
           n == f.served
<1>1. ts = <<>> \/ ts = <<v>>
  BY DEF Reading
<1>2. n \in Nat
  BY DEF IsCall
<1> HIDE DEF ts, v, n
<1>3. Len(ts) \in {0, 1}
  BY <1>1
<1>4. ~(Len(ts) > n + 1)
  <2>1. \A k \in {0, 1}, m \in Nat : ~(k > m + 1)
    OBVIOUS
  <2> QED BY <1>2, <1>3, <2>1, Zenon
<1> QED BY <1>4 DEF Import, ts, n

\* While imports are read some file is open.
LEMMA SomeOpen ==
  ASSUME DriverInv, status = "prelude", frames # <<>>
  PROVE  open_files_ # <<>>
<1>1. StacksAgree /\ Reads
  BY AgreeType DEF Reads
<1>2. DOMAIN open_files_ = {frames[i].path : i \in 1..Importing}
  BY <1>1 DEF StacksAgree
<1>3. 1 \in 1..Importing
  <2>1. TypeOK
    BY DEF DriverInv
  <2>2. Len(frames) \in Nat \ {0}
    BY <2>1, TheFile
  <2>3. Importing = Len(frames)
    BY DEF Importing
  <2> QED BY <2>2, <2>3
<1>4. DOMAIN open_files_ # {}
  BY <1>2, <1>3
<1>5. DOMAIN <<>> = {}
  OBVIOUS
<1> QED BY <1>4, <1>5

LEMMA ScanReads ==
  ASSUME DriverInv, ReadsStrings, scan
  PROVE  ReadsStrings'
<1> DEFINE n == Longest(file.lexer.start, file.text)
           x == Rule_(file.lexer, file.text, n)
<1>1. TypeOK /\ Reads /\ ~AtEnd
  BY DEF DriverInv, scan
<1>2. /\ file = frames[1] /\ IsCall(file) /\ Len(frames) \in Nat \ {0} /\ frames # <<>>
      /\ frames \in Seq(Range(frames))
  BY <1>1, TheFile DEF Reads
<1>3. \/ Exits(x.out) /\ x.out # ""
      \/ /\ frames' = [frames EXCEPT ![1].lexer = x.lexer, ![1].text = Rest(@, n),
                                     ![1].tokens = @ \o x.tokens]
         /\ UNCHANGED <<l, library_, open_files_, location_, error_, ast, prelude_chunks, status>>
  BY DEF scan
<1>4. UNCHANGED main
  BY DEF scan
<1>5. SUFFICES ASSUME NEW s \in Seq(Bytes), main = Written(s)
               PROVE  ReadsString(s, main', status', frames', open_files_')
  BY <1>4 DEF ReadsStrings, ReadsString
<1>6. ReadsString(s, main, status, frames, open_files_)
  BY DEF ReadsStrings
<1>7. CASE status = "prelude"
  <2>1. open_files_ # <<>>
    BY <1>2, <1>7, SomeOpen
  <2>2. open_files_' = open_files_
    BY <1>3 DEF Exits
  <2>3. status' # "file"
    <3>1. CASE status' = status
      BY <1>7, <3>1
    <3>2. CASE Exits(x.out) /\ x.out # ""
      <4> DEFINE y == file.lexer
                 t == file.text
      <4>1. y \in Lexers /\ t \in Texts
        BY <1>2 DEF IsCall
      <4> HIDE DEF y, t
      <4>2. Outcome(Rule_(y, t, Longest(y.start, t)))
        BY <4>1, RuleType
      <4>3. x.out = "scan"
        BY <3>2, <4>2 DEF Outcome, y, t
      <4> QED BY <3>2, <4>3 DEF Exits
    <3> QED BY <1>3, <3>1, <3>2
  <2> QED BY <2>1, <2>2, <2>3 DEF ReadsString
<1>8. CASE status = "file"
  <2>1. Len(frames) = 1 /\ Reading(file.lexer, file.text, file.tokens, s)
    BY <1>2, <1>5, <1>6, <1>8 DEF ReadsString
  <2>2. x.out = "" /\ Reading(x.lexer, Rest(file.text, n), file.tokens \o x.tokens, s)
    <3> DEFINE y == file.lexer
               t == file.text
               ts == file.tokens
    <3>1. y \in Lexers /\ Reading(y, t, ts, s) /\ ~(t = <<>> /\ y.start = "INITIAL")
      BY <1>1, <1>2, <2>1 DEF IsCall, AtEnd
    <3> HIDE DEF y, t, ts
    <3>2. LET k == Longest(y.start, t)
              r == Rule_(y, t, k)
          IN  r.out = "" /\ Reading(r.lexer, Rest(t, k), ts \o r.tokens, s)
      BY <3>1, ReadsFurther
    <3> QED BY <3>2 DEF y, t, ts
  <2> DEFINE y == x.lexer
             t == Rest(file.text, n)
             ts == file.tokens \o x.tokens
             g == Scanned(file, y, t, ts)
  <2>3. frames' = [frames EXCEPT ![1].lexer = x.lexer, ![1].text = Rest(@, n),
                                 ![1].tokens = @ \o x.tokens] /\ status' = "file"
    BY <1>3, <1>8, <2>2
  <2> HIDE DEF x, n
  <2>4. frames' = [frames EXCEPT ![1] = g]
    <3>1. 1 \in DOMAIN frames
      BY <1>2
    <3> QED BY <1>2, <2>3, <3>1 DEF Scanned
  <2>5. g.lexer = y /\ g.text = t /\ g.tokens = ts
    <3> DEFINE f == file
               Fields == [path : Paths, text : Texts, lexer : Lexers, tokens : Seq(Toks), served : Nat,
                          import : {f.import}, saved : {f.saved}]
    <3>1. f \in Fields
      BY <1>2 DEF IsCall
    <3> HIDE DEF f, y, t, ts
    <3>2. /\ Scanned(f, y, t, ts).lexer = y /\ Scanned(f, y, t, ts).text = t
          /\ Scanned(f, y, t, ts).tokens = ts
      BY <3>1 DEF Scanned
    <3> QED BY <3>2 DEF f
  <2> HIDE DEF g
  <2>6. Len(frames') = 1 /\ frames'[1] = g
    BY <1>2, <2>1, <2>4, FirstReplaced
  <2>7. Reading(g.lexer, g.text, g.tokens, s)
    BY <2>2, <2>5
  <2>8. status' # "scan"
    BY <2>3
  <2> QED BY <2>6, <2>7, <2>8 DEF ReadsString
<1> QED BY <1>1, <1>7, <1>8 DEF Reads

\* An import that is read, and the end of one, are not the program's.
LEMMA ReturnReads ==
  ASSUME NEW fs, NEW chunks, Return(fs, chunks), UNCHANGED main, status = "prelude"
  PROVE  ReadsStrings'
<1>1. status' \in {"tweast", "undefined", "prelude"}
  BY DEF Return
<1>2. status' # "file" /\ status' # "scan"
  BY <1>1
<1> QED BY <1>2, LaterReads

LEMMA ImportReads ==
  ASSUME NEW name, NEW loc, parse_import(name, loc), UNCHANGED main, status = "prelude"
  PROVE  ReadsStrings'
<1>1. CASE NotImported
  BY <1>1, ReturnReads DEF NotImported
<1>2. CASE \E d, p : ReadImport(d, p, loc)
  <2>1. status' = "prelude"
    BY <1>2 DEF ReadImport
  <2> QED BY <2>1, LaterReads
<1> QED BY <1>1, <1>2 DEF parse_import

\* Whatever tc does next, the program is read so.
LEMMA StringSteps ==
  ASSUME DriverInv, ReadsStrings, Next
  PROVE  ReadsStrings'
<1>1. CASE library_append \/ library_prepend
  <2>1. UNCHANGED <<main, status, frames, open_files_>>
    BY <1>1 DEF library_append, library_prepend, Option
  <2> QED BY <2>1, ReadsSame
<1>2. CASE parse
  BY <1>2, StringBegins
<1>3. CASE scan
  BY <1>3, ScanReads
<1>4. ASSUME status = "file", NEW s \in Seq(Bytes), main = Written(s), Reads
      PROVE  Len(frames) = 1 /\ ~Import(file)
  <2>1. ReadsString(s, main, status, frames, open_files_)
    BY DEF ReadsStrings
  <2>2. Len(frames) = 1 /\ Reading(frames[1].lexer, frames[1].text, frames[1].tokens, s)
    BY <1>4, <2>1 DEF ReadsString
  <2>3. IsCall(file) /\ file = frames[1]
    <3>1. TypeOK /\ frames # <<>>
      BY <1>4 DEF DriverInv, Reads
    <3> QED BY <3>1, TheFile
  <2> QED BY <2>2, <2>3, StringImports
<1>5. CASE import
  <2>1. Reads /\ Import(file) /\ UNCHANGED main
    BY <1>5 DEF import
  <2>2. CASE status = "file"
    <3>1. \A s \in Seq(Bytes) : main' # Written(s)
      BY <1>4, <2>1, <2>2
    <3> QED BY <3>1 DEF ReadsStrings, ReadsString
  <2>3. CASE status = "prelude"
    <3> DEFINE name == Path(Last(file.tokens)[2])
               loc == file.path
    <3>1. parse_import(name, loc)
      BY <1>5 DEF import
    <3> HIDE DEF name, loc
    <3> QED BY <2>1, <2>3, <3>1, ImportReads
  <2> QED BY <2>1, <2>2, <2>3 DEF Reads
<1>6. CASE parse_
  <2> DEFINE r == Grammar(file.tokens, file.import)
  <2>1. Reads /\ UNCHANGED main
    BY <1>6 DEF parse_
  <2>2. \/ Exits("parse")
        \/ Imported /\ Return(Tail(frames), r.ns[1])
        \/ ~Imported /\ status' = "prelude"
    BY <1>6 DEF parse_
  <2>3. CASE Exits("parse")
    <3>1. status' = "parse"
      BY <2>3 DEF Exits
    <3> QED BY <2>1, <3>1, LaterReads
  <2>4. CASE Imported /\ Return(Tail(frames), r.ns[1])
    <3>1. CASE status = "file"
      <4>1. \A s \in Seq(Bytes) : main' # Written(s)
        <5>1. SUFFICES ASSUME NEW s \in Seq(Bytes), main = Written(s) PROVE FALSE
          BY <2>1
        <5>2. Len(frames) = 1
          BY <1>4, <2>1, <3>1, <5>1
        <5> QED BY <2>4, <3>1, <5>2 DEF Imported
      <4> QED BY <4>1 DEF ReadsStrings, ReadsString
    <3>2. CASE status = "prelude"
      <4> DEFINE fs == Tail(frames)
                 chunks == r.ns[1]
      <4>1. Return(fs, chunks)
        BY <2>4
      <4> HIDE DEF fs, chunks
      <4> QED BY <2>1, <3>2, <4>1, ReturnReads
    <3> QED BY <2>1, <3>1, <3>2 DEF Reads
  <2>5. CASE ~Imported /\ status' = "prelude"
    BY <2>1, <2>5, LaterReads
  <2> QED BY <2>2, <2>3, <2>4, <2>5
<1>7. ASSUME NEW tree, Parsed(tree) PROVE ReadsStrings'
  <2>1. status' \in {"failure", "parsed"} /\ UNCHANGED main
    BY <1>7 DEF Parsed
  <2>2. status' # "file" /\ status' # "scan"
    BY <2>1
  <2> QED BY <2>1, <2>2, LaterReads
<1>8. CASE import_prelude
  <2>1. \/ Parsed(ast)
        \/ Exits("tweast") /\ UNCHANGED main
        \/ parse_import(prelude, <<>>) /\ UNCHANGED main
    BY <1>8 DEF import_prelude
  <2>2. status = "prelude"
    BY <1>8 DEF import_prelude
  <2>3. CASE Exits("tweast") /\ UNCHANGED main
    <3>1. status' = "tweast"
      BY <2>3 DEF Exits
    <3> QED BY <2>3, <3>1, LaterReads
  <2>4. CASE parse_import(prelude, <<>>) /\ UNCHANGED main
    <3> DEFINE name == prelude
               loc == <<>>
    <3>1. parse_import(name, loc) /\ UNCHANGED main
      BY <2>4
    <3> HIDE DEF name, loc
    <3> QED BY <2>2, <3>1, ImportReads
  <2> QED BY <1>7, <2>1, <2>3, <2>4
<1>9. CASE parse_input
  <2> DEFINE tree == MainTree(prelude_chunks, ast)
  <2>1. Parsed(tree)
    BY <1>9 DEF parse_input
  <2> HIDE DEF tree
  <2> QED BY <1>7, <2>1
<1> QED BY <1>1, <1>2, <1>3, <1>5, <1>6, <1>8, <1>9 DEF Next

\* What misc::escape writes is read as what it is written from: a program that is a
\* string between quotes, whatever its bytes are, a backslash apart, never fails to
\* scan, and at its end the parser got one token, the string.
THEOREM StringsReadBack == Spec => [](\A s \in Seq(Bytes) : ReadAs(Written(s), <<Str(s)>>))
<1>1. Init => ReadsStrings
  <2>1. ASSUME Init PROVE status # "file" /\ status # "scan"
    BY <2>1 DEF Init
  <2> QED BY <2>1 DEF ReadsStrings, ReadsString
<1>2. DriverInv /\ ReadsStrings /\ [Next]_vars => ReadsStrings'
  <2>1. CASE UNCHANGED vars
    BY <2>1, ReadsSame DEF vars
  <2> QED BY <2>1, StringSteps
<1>3. ReadsStrings => \A s \in Seq(Bytes) : ReadAs(Written(s), <<Str(s)>>)
  <2>1. SUFFICES ASSUME NEW s \in Seq(Bytes), ReadsStrings, main = Written(s)
                 PROVE  /\ status = "scan" => open_files_ # <<>>
                        /\ (status = "file" /\ Len(frames) = 1 /\ AtEnd) => file.tokens = <<Str(s)>>
    BY DEF ReadAs
  <2>2. ReadsString(s, main, status, frames, open_files_)
    BY <2>1 DEF ReadsStrings
  <2>3. status = "scan" => open_files_ # <<>>
    BY <2>1, <2>2 DEF ReadsString
  <2>4. ASSUME status = "file", AtEnd PROVE file.tokens = <<Str(s)>>
    <3>1. Reading(file.lexer, file.text, file.tokens, s)
      BY <2>1, <2>2, <2>4 DEF ReadsString, file
    <3>2. file.text = <<>> /\ file.lexer.start = "INITIAL"
      BY <2>4 DEF AtEnd
    <3>3. Written(s) # <<>>
      <4>1. <<Quote>> \in Texts /\ <<Quote>> # <<>> /\ escape(s) \in Texts
        BY EscapeType_ DEF Texts, Quote
      <4> DEFINE q == <<Quote>>
                 rest == escape(s) \o q
      <4>2. rest \in Texts
        BY <4>1 DEF Texts
      <4> HIDE DEF q, rest
      <4>3. q \o rest # <<>>
        BY <4>1, <4>2, Joined DEF q
      <4> QED BY <4>3 DEF Written, q, rest
    <3>4. "INITIAL" # "SC_STRING"
      OBVIOUS
    <3> QED BY <3>1, <3>2, <3>3, <3>4 DEF Reading
  <2> QED BY <2>3, <2>4
<1> QED BY <1>1, <1>2, <1>3, ReadingInvariant, PTL DEF Spec
=============================================================================
