--------------------------------- MODULE Scanner -------------------------------
(***************************************************************************)
(* The scanner (src/src/parse/scantiger.ll).  Text is a sequence of bytes. *)
(* A lexer is in one start condition and keeps the string it has read so   *)
(* far and how deep the comments nest.  Scan is one rule: what it matches, *)
(* the longest match first, is dropped from the text and its action run.   *)
(* Where no rule matches, the generated scanner drops one byte; that is    *)
(* what a line break in a comment or a string comes to.  Locations are     *)
(* left out.                                                               *)
(***************************************************************************)
EXTENDS Integers, Sequences, Tokens

CONSTANTS Reserved,  \* the words and signs of the language: bytes to token
          INT_MAX

Quote     == 34
Backslash == 92
Open      == <<47, 42>>
Close     == <<42, 47>>
Digit(b)  == b \in 48..57
Octal(b)  == b \in 48..55
Hexa(b)   == b \in 48..57 \cup 65..70 \cup 97..102
Letter(b) == b \in 65..90 \cup 97..122
All(s, P(_)) == \A i \in DOMAIN s : P(s[i])

whitechar   == {<<32>>, <<9>>}
endofline   == {<<10, 13>>, <<13, 10>>, <<13>>, <<10>>}
int(s)      == All(s, Digit)
id(s)       == /\ Letter(s[1]) \/ s[1] = 95
               /\ \A i \in DOMAIN s : Letter(s[i]) \/ Digit(s[i]) \/ s[i] = 95

\* Escapes of one letter, and what they stand for.
Escapes == [n |-> <<110, 10>>, a |-> <<97, 7>>, b |-> <<98, 8>>, f |-> <<102, 12>>,
            r |-> <<114, 13>>, t |-> <<116, 9>>, v |-> <<118, 11>>, quote |-> <<34, 34>>]
EscapeOf(b) == {Escapes[e][2] : e \in {x \in DOMAIN Escapes : Escapes[x][1] = b}}

\* The beginnings of the text that some rule of a start condition matches.
Rules(start, s) ==
  CASE start = "INITIAL" ->
         s \in DOMAIN Reserved \cup whitechar \cup endofline \cup {<<Quote>>, Open} \/ int(s) \/ id(s)
    [] start = "SC_COMMENT" -> s \in {Open, Close} \/ (Len(s) = 1 /\ s # <<10>>)
    [] start = "SC_STRING" ->
         \/ Len(s) = 1 /\ s # <<10>>
         \/ s[1] = Backslash /\ Len(s) = 2 /\ EscapeOf(s[2]) # {}
         \/ s[1] = Backslash /\ Len(s) = 4 /\ \/ All(Tail(s), Octal)
                                              \/ s[2] = 120 /\ Hexa(s[3]) /\ Hexa(s[4])

\* The length of the longest one, or 0.
Longest(start, text) ==
  LET matches(i) == Rules(start, SubSeq(text, 1, i))
  IN  CHOOSE i \in 0..Len(text) : /\ (i = 0 \/ matches(i))
                                   /\ \A j \in i + 1 .. Len(text) : ~matches(j)

\* The number that digits are in a base.
DigitOf(b) == CASE Digit(b) -> b - 48 [] b \in 65..70 -> b - 55 [] OTHER -> b - 87
strtol(s, base) ==
  LET value[n \in 0..Len(s)] == IF n = 0 THEN 0 ELSE base * value[n - 1] + DigitOf(s[n])
  IN  value[Len(s)]

Lexer == [start |-> "INITIAL", grown_string |-> <<>>, depth |-> 0]

\* What a rule leaves: the lexer, the tokens it returns and, if it ends tc, how.
Gives(x, tokens) == [lexer |-> x, tokens |-> tokens, out |-> ""]
Dies(x)          == [lexer |-> x, tokens |-> <<>>, out |-> "scan"]
Grown(x, s)      == Gives([x EXCEPT !.grown_string = @ \o s], <<>>)

ScanString(x, s) ==
  CASE s = <<Quote>> -> Gives([x EXCEPT !.start = "INITIAL"], <<Str(x.grown_string)>>)
    [] Len(s) = 4 -> LET v == IF s[2] = 120 THEN strtol(SubSeq(s, 3, 4), 16) ELSE strtol(Tail(s), 8)
                     IN  IF v > 255 THEN Dies(x) ELSE Grown(x, <<v>>)
    [] Len(s) = 2 -> Grown(x, <<CHOOSE v \in EscapeOf(s[2]) : TRUE>>)
    [] OTHER -> Grown(x, s)

\* Mutant: an opening in a comment is skipped like any other text.
ScanCommentFlat(x, s) ==
  Gives(IF s = Close THEN [x EXCEPT !.depth = @ - 1,
                                    !.start = IF x.depth = 1 THEN "INITIAL" ELSE @] ELSE x, <<>>)

ScanComment(x, s) ==
  Gives(CASE s = Open  -> [x EXCEPT !.depth = @ + 1]
          [] s = Close -> [x EXCEPT !.depth = @ - 1,
                                    !.start = IF x.depth = 1 THEN "INITIAL" ELSE @]
          [] OTHER     -> x, <<>>)

ScanInitial(x, s) ==
  CASE s \in DOMAIN Reserved -> Gives(x, <<T(Reserved[s])>>)
    [] s = <<Quote>> -> Gives([x EXCEPT !.grown_string = <<>>, !.start = "SC_STRING"], <<>>)
    [] s = Open      -> Gives([x EXCEPT !.depth = 1, !.start = "SC_COMMENT"], <<>>)
    [] s \in whitechar \cup endofline -> Gives(x, <<>>)
    [] int(s) -> IF strtol(s, 10) > INT_MAX THEN Dies(x) ELSE Gives(x, <<Num(strtol(s, 10))>>)
    [] OTHER -> Gives(x, <<Id(s)>>)

ScanEnd(x) == IF x.start = "INITIAL" THEN Gives(x, <<T("EOF")>>) ELSE Dies(x)

\* One rule on a text: n is the length of what it matches.
Rule_(x, text, n) ==
  LET s == SubSeq(text, 1, n)
  IN  CASE text = <<>>            -> ScanEnd(x)
        [] text # <<>> /\ n = 0   -> Gives(x, <<>>)
        [] n # 0 /\ x.start = "INITIAL"    -> ScanInitial(x, s)
        [] n # 0 /\ x.start = "SC_COMMENT" -> ScanComment(x, s)
        [] n # 0 /\ x.start = "SC_STRING"  -> ScanString(x, s)
Rest(text, n) == SubSeq(text, (IF n = 0 THEN 1 ELSE n) + 1, Len(text))

-----------------------------------------------------------------------------
\* misc::escape: how the compiler writes a byte, and a string.
LetterOf(b) == {Escapes[e][1] : e \in {x \in DOMAIN Escapes \ {"a"} : Escapes[x][2] = b}}
InOctal(b)  == <<Backslash, 48 + (b \div 64), 48 + ((b \div 8) % 8), 48 + (b % 8)>>
escaped(b) ==
  CASE b = Backslash     -> <<Backslash, Backslash>>
    [] LetterOf(b) # {}  -> <<Backslash, CHOOSE c \in LetterOf(b) : TRUE>>
    [] b \in 32..126 /\ b # Backslash /\ LetterOf(b) = {} -> <<b>>
    [] OTHER             -> InOctal(b)
escape(s) ==
  LET all[n \in 0..Len(s)] == IF n = 0 THEN <<>> ELSE all[n - 1] \o escaped(s[n])
  IN  all[Len(s)]
================================================================================
