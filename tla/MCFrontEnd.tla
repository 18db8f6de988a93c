-------------------------------- MODULE MCFrontEnd ------------------------------
(***************************************************************************)
(* The programs of the front end run: words between spaces are tokens.     *)
(***************************************************************************)
EXTENDS FrontEndProps

Numbers == {0, 1, 2, 3, 13, 15, 16, 31}
Strings == {"'a", "'b", "'"}
Names   == {"print", "print_int", "strcmp", "streq", "chr", "ord", "exit", "int", "string",
            "_main", "s", "x", "y", "f", "g", "i", "j", "t", "c"}
Lex(words) ==
  [n \in DOMAIN words |->
     LET w == words[n]
         m == {k \in Numbers : ToString(k) = w}
     IN  CASE m # {} -> Num(CHOOSE k \in m : TRUE)
           [] w \in Strings -> Str(w)
           [] w \in Names -> Id(w)
           [] OTHER -> T(w)]

MCBytes == "'a" :> <<97>> @@ "'b" :> <<98>> @@ "'" :> <<>> @@ "1 = 1" :> <<49>>
             @@ "1 = 2" :> <<50>> @@ "nullptr" :> <<110>>

MCPrelude == Lex(
  <<"primitive", "print", "(", "s", ":", "string", ")",
    "primitive", "print_int", "(", "i", ":", "int", ")",
    "primitive", "exit", "(", "i", ":", "int", ")",
    "primitive", "chr", "(", "i", ":", "int", ")", ":", "string",
    "primitive", "ord", "(", "s", ":", "string", ")", ":", "int",
    "primitive", "strcmp", "(", "s", ":", "string", ",", "x", ":", "string", ")", ":", "int",
    "primitive", "streq", "(", "s", ":", "string", ",", "x", ":", "string", ")", ":", "int">>)

\* Loops: their bounds, the greatest integer as the last one, breaks, nesting.
For(lo, hi, body) == <<"for", "i", ":=">> \o lo \o <<"to">> \o hi \o <<"do">> \o body
Show(e) == <<"print_int", "(">> \o e \o <<")">>
Top(n)  == <<"31", "*", "16", "+", n>>
Loops == {
  For(<<"1">>, <<"3">>, Show(<<"i">>)),
  For(<<"3">>, <<"1">>, Show(<<"i">>)),
  For(Top("13"), Top("15"), Show(<<"i">>)),
  For(<<"1">>, <<"3">>, <<"(">> \o Show(<<"i">>) \o <<";", "if", "i", "=", "2", "then", "break", ")">>),
  For(<<"1">>, <<"2">>, For(<<"i">>, <<"2">>, Show(<<"i">>))),
  For(<<"1">>, <<"2">>, <<"while", "1", "do", "(">> \o Show(<<"i">>) \o <<";", "break", ")">>),
  For(<<"1">>, <<"2">>, <<"i", ":=", "3">>),
  For(<<"i">>, <<"2">>, Show(<<"i">>)),
  <<"while", "1", "do", "break">>, <<"break">>}

\* Declarations: shadowing, recursion, captured variables, names of primitives.
Let(decs, body) == <<"let">> \o decs \o <<"in">> \o body \o <<"end">>
Lets == {
  Let(<<"var", "x", ":=", "1">>,
      Let(<<"var", "x", ":=", "x", "+", "1">>, Show(<<"x">>)) \o <<";">> \o Show(<<"x">>)),
  Let(<<"function", "f", "(", "x", ":", "int", ")", ":", "int", "=", "if", "x", "then", "x",
        "*", "f", "(", "x", "-", "1", ")", "else", "1">>, Show(<<"f", "(", "3", ")">>)),
  Let(<<"function", "f", "(", "x", ":", "int", ")", "=", "if", "x", "then", "g", "(", "x", ")",
        "function", "g", "(", "y", ":", "int", ")", "=", "(", "print_int", "(", "y", ")", ";",
        "f", "(", "y", "-", "1", ")", ")">>, <<"f", "(", "2", ")">>),
  Let(<<"var", "x", ":=", "1", "function", "f", "(", ")", "=", "x", ":=", "x", "+", "1">>,
      <<"f", "(", ")", ";", "f", "(", ")", ";">> \o Show(<<"x">>)),
  Let(<<"function", "strcmp", "(", "x", ":", "int", ")", "=">> \o Show(<<"x">>),
      <<"if", "'a", "<", "'b", "then", "strcmp", "(", "1", ")">>),
  Let(<<"type", "t", "=", "{", "x", ":", "int", "}", "var", "y", ":=", "t", "{", "x", "=", "1", "}">>,
      <<"if", "y", "=", "y", "then">> \o Show(<<"y", ".", "x">>)),
  Let(<<"type", "t", "=", "{", "x", ":", "int", "}", "var", "y", ":=", "t", "{", "x", "=", "1", "}">>,
      <<"if", "y", "<>", "nil", "then">> \o Show(<<"1">>)),
  Let(<<"function", "f", "(", "x", ":", "int", ")", "=",
        "let", "function", "g", "(", ")", "=", "print_int", "(", "x", ")", "in", "g", "(", ")", "end">>,
      Let(<<"function", "g", "(", ")", "=", "f", "(", "1", ")">>, <<"g", "(", ")">>)),
  Let(<<"type", "t", "=", "array", "of", "t", "function", "f", "(", "x", ":", "t", ")", "=", "(", ")">>, <<>>),
  Let(<<"type", "t", "=", "array", "of", "int", "var", "y", ":=", "t", "[", "3", "]", "of", "0">>,
      <<"y", "[", "0", "]", ":=", "1">>)}

\* Expressions: comparisons of strings, arithmetic, the run time.
Choice(test) == <<"if">> \o test \o <<"then", "print", "(", "'a", ")", "else", "print", "(", "'b", ")">>
Exprs ==
  {Choice(<<a, op, b>>) : a \in {"'a"}, b \in {"'a", "'b"}, op \in {"=", "<>", "<", ">="}} \cup
  {Show(<<"(", "2", "-", "3", ")", "*", "2">>), Show(Top("15") \o <<"+", "1">>),
   Show(<<"-", "2", "*", "3">>), Show(<<"ord", "(", "chr", "(", "31", ")", ")">>),
   <<"(", "print", "(", "'a", ")", ";", "exit", "(", "1", ")", ";", "print", "(", "'b", ")", ")">>,
   Choice(<<"1", "&", "0">>), Show(<<"1", "+", "'a">>), Show(<<"1", ",", "2">>),
   Show(<<"if", "0", "then", "1", "else", "if", "1", "then", "2", "else", "3">>),
   For(<<"1">>, <<"2">>, Show(<<"if", "i", "=", "2", "then", "(", "break", ";", "1", ")", "else", "i">>)),
   <<"if", "1", "then", "1">>, <<"print">> , <<"let", "in", "(">>}

\* Every use of a variable and of the argument and the result of a function.
Values_ == {<<"1">>, <<"'a">>, <<"x">>, <<"nil">>, <<"(", ")">>, <<"if", "1", "then", "x", "else", "2">>,
            <<"chr", "(", "x", ")">>}
Function_(a, b, r, p, d) ==
  Let(<<"var", "x", ":=">> \o a \o <<"function", "f", "(", "y", ":", "int", ")", ":", r, "=">> \o b,
      <<p, "(", "f", "(">> \o d \o <<")", ")">>)
Functions_ ==
  {Function_(a, b, r, p, <<"1">>) :
     a \in {<<"1">>, <<"'a">>, <<"x">>, <<"nil">>}, b \in Values_, r \in {"int", "string"},
     p \in {"print", "print_int"}} \cup
  {Function_(a, <<"y">>, "int", "print_int", d) : a \in {<<"1">>, <<"'a">>, <<"x">>}, d \in {<<"1">>, <<"x">>}}

\* Other preludes and none; lists of declarations, which have none whatever is asked
\* for; and strcmp and streq as declared by the program, well or otherwise.
Given(prelude, words) == [text |-> Lex(words), prelude |-> prelude]
Printing == <<"primitive", "print", "(", "s", ":", "string", ")">>
Comparing == [name \in {"strcmp", "streq"} |->
                <<name, "(", "s", ":", "string", ",", "x", ":", "string", ")", ":", "int">>]
Primitives == Printing \o <<"primitive">> \o Comparing["strcmp"] \o <<"primitive">> \o Comparing["streq"]
Test(op) == Choice(<<"'a", op, "'b">>)
Others ==
  {Given(<<>>, Let(decs, Test(op))) :
     decs \in {Printing, Primitives, Printing \o <<"function">> \o Comparing["streq"] \o <<"=", "1">>,
               Printing \o <<"function", "strcmp", "(", "x", ":", "int", ")", "=", "(", ")">>},
     op \in {"=", "<"}} \cup
  {Given(Lex(Printing), Test(op)) : op \in {"=", "<"}} \cup
  {Given(p, <<"function", "f", "(", ")", "=", "if", "'a", "<", "'b", "then", "(", ")">>) :
     p \in {<<>>, MCPrelude}} \cup
  {Given(p, Primitives \o <<"function", "_main", "(", ")", "=">> \o Test("<")) : p \in {<<>>, MCPrelude}} \cup
  {Given(<<>>, For(<<"1">>, <<"2">>, <<"(", ")">>)), Given(<<>>, Show(<<"1">>)),
   Given(<<>>, <<"type", "t", "=", "int", "var", "x", ":=", "1">>)}

\* Arrays: their size and their initial value have several blocks, in any order.
Arrays ==
  {Let(<<"type", "t", "=", "array", "of", "int", "function", "f", "(", "x", ":", "t", ")", "=",
         "(", "t", "[">> \o size \o <<"]", "of">> \o init \o <<";", "(", ")", ")">>, <<>>) :
     size \in {<<"2">>, <<"ord", "(", "'a", ")">>, <<"if", "1", "then", "1", "else", "2">>},
     init \in {<<"x">>, <<"if", "0", "then", "x", "else", "x">>}}

MCPrograms == Others \cup {Given(MCPrelude, p) : p \in Loops \cup Lets \cup Exprs \cup Functions_ \cup Arrays}
===============================================================================
