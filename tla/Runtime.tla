---------------------------------- MODULE Runtime ------------------------------
(***************************************************************************)
(* The primitives of the run time (src/src/llvmtranslate/tiger-runtime.c). *)
(* A value is tagged with its sort; a string is the sequence of its bytes, *)
(* without the 0 that ends it.  A primitive yields a value and how the     *)
(* program goes on: "", "exit" or "undefined".                             *)
(***************************************************************************)
EXTENDS Integers, Sequences

IntOf(n)  == <<"int", n>>
StrOf(cs) == <<"str", cs>>
Unit      == IntOf(0)

Gives(v)    == [v |-> v, stop |-> "", out |-> <<>>]
Fails(how)  == [v |-> Unit, stop |-> how, out |-> <<>>]
Prints(x)   == [v |-> Unit, stop |-> "", out |-> <<x>>]

\* A char of the build is signed.
Signed(c) == IF c > 127 THEN c - 256 ELSE c

\* What the two bytes of consts at 2 * i are as a string: the byte 0 is the empty
\* one, and before the array there is no string.
consts(i) ==
  IF i \notin 0 .. 255 THEN Fails("undefined")
  ELSE Gives(StrOf(IF i = 0 THEN <<>> ELSE <<i>>))

tc_not(i)  == Gives(IntOf(IF i = 0 THEN 1 ELSE 0))
tc_exit(i) == Fails("exit")

tc_chr(i) == IF i \in 0 .. 255 THEN consts(i) ELSE Fails("exit")
tc_concat(a, b) == Gives(StrOf(a \o b))
tc_ord(s)  == Gives(IntOf(IF s = <<>> THEN -1 ELSE Signed(s[1])))
tc_size(s) == Gives(IntOf(Len(s)))

\* A part of one byte is not copied but looked up, as if the byte were positive.
tc_substring(s, first, n) ==
  IF ~(0 <= first /\ 0 <= n /\ first + n <= Len(s)) THEN Fails("exit")
  ELSE IF n = 1 THEN consts(Signed(s[first + 1]))
  ELSE Gives(StrOf(SubSeq(s, first + 1, first + n)))

\* The sign of the comparison of the first bytes that differ.
Before(a, b) ==
  \/ Len(a) < Len(b) /\ SubSeq(b, 1, Len(a)) = a
  \/ \E i \in DOMAIN a \cap DOMAIN b :
       a[i] < b[i] /\ SubSeq(a, 1, i - 1) = SubSeq(b, 1, i - 1)
tc_strcmp(a, b) == Gives(IntOf(IF a = b THEN 0 ELSE IF Before(a, b) THEN -1 ELSE 1))
tc_streq(a, b)  == Gives(IntOf(IF a = b THEN 1 ELSE 0))

\* The standard input is empty.
tc_getchar == Gives(StrOf(<<>>))

\* The call of the primitive of a name.
Primitive(name, args) ==
  LET a == args[1][2]
      b == args[2][2]
  IN  CASE name = "not"       -> tc_not(a)
        [] name = "exit"      -> tc_exit(a)
        [] name = "chr"       -> tc_chr(a)
        [] name = "concat"    -> tc_concat(a, b)
        [] name = "ord"       -> tc_ord(a)
        [] name = "size"      -> tc_size(a)
        [] name = "substring" -> tc_substring(a, b, args[3][2])
        [] name = "strcmp"    -> tc_strcmp(a, b)
        [] name = "streq"     -> tc_streq(a, b)
        [] name = "getchar"   -> tc_getchar
        [] name \in {"print", "print_err", "print_int"} -> Prints(args[1])
        [] name = "flush"     -> Gives(Unit)

\* The sorts of the arguments of a primitive.
Signature(name) ==
  CASE name \in {"not", "exit", "chr", "print_int"} -> <<"int">>
    [] name \in {"ord", "size", "print", "print_err"} -> <<"str">>
    [] name \in {"concat", "strcmp", "streq"} -> <<"str", "str">>
    [] name = "substring" -> <<"str", "int", "int">>
    [] OTHER -> <<>>
================================================================================
