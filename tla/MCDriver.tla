--------------------------------- MODULE MCDriver ------------------------------
(***************************************************************************)
(* The files of the driver runs.  Bytes: " is 34, / 47, * 42, a to z 97 to *)
(* 122.  The working directory is /w, and the program is p/m.              *)
(***************************************************************************)
EXTENDS DriverProps, Tweasts

RECURSIVE MCUngrouped(_)
MCUngrouped(tree) ==
  LET join(r, x) == IF r # <<>> /\ Last(r).k = x.k /\ x.k \in {"FunctionChunk", "TypeChunk"}
                    THEN [r EXCEPT ![Len(r)].ch = IF x.k = "FunctionChunk" THEN x.ch \o @ ELSE @ \o x.ch]
                    ELSE Append(r, x)
      inside == Each(tree.ch, MCUngrouped)
  IN  [tree EXCEPT !.ch = IF tree.k = "ChunkList" THEN FoldLeft(join, <<>>, inside) ELSE inside]

MCGrammar(ts, import_) == program(ts, [meta |-> <<>>, import |-> import_])

sp    == <<32>>
W_import == <<105, 109, 112, 111, 114, 116>>
W_let == <<108, 101, 116>>
W_in  == <<105, 110>>
W_end == <<101, 110, 100>>
W_var == <<118, 97, 114>>
W_set == <<58, 61>>
W_function == <<102, 117, 110, 99, 116, 105, 111, 110>>
W_type == <<116, 121, 112, 101>>
MCReserved == W_import :> "import" @@ W_let :> "let" @@ W_in :> "in" @@ W_end :> "end"
                @@ W_var :> "var" @@ W_set :> ":=" @@ <<47>> :> "/" @@ <<42>> :> "*"
                @@ W_function :> "function" @@ W_type :> "type" @@ <<40>> :> "(" @@ <<41>> :> ")"
                @@ <<61>> :> "="

String(s) == <<34>> \o s \o <<34>>
Im(name)  == W_import \o sp \o String(name)
Var(x)    == W_var \o sp \o <<x>> \o W_set \o <<49>> \o sp
Fun(x)    == W_function \o sp \o <<x, 40, 41, 61, 49>> \o sp
Type_(x)  == W_type \o sp \o <<x, 61, 120>> \o sp
Let(chunks, body) == W_let \o sp \o chunks \o sp \o W_in \o sp \o body \o sp \o W_end

\* Names: of files that import others, one with a directory, one with an absolute
\* path, itself, an expression, one that is missing, and two of the search path.
a == 97  b == 98  c == 99  d == 100  e == 101  f == 102  g == 103  h == 104  m == 109  p == 112
s == 115  w == 119  k == 107  z == 122  q == 113  u == 117  j == 106
Names_ == {<<a>>, <<b>>, <<s, 47, c>>, <<47, w, 47, b>>, <<d>>, <<e>>, <<f>>, <<g>>, <<k>>,
           <<m>>, <<z>>, <<s, 47, d>>}
Abs(names) == <<Root>> \o [i \in DOMAIN names |-> <<names[i]>>]

MCFiles ==
  Abs(<<w, p, a>>) :> Var(a) \o Im(<<b>>)
  @@ Abs(<<w, p, b>>) :> Var(b)
  @@ Abs(<<w, b>>) :> Var(d)
  @@ Abs(<<w, p, s, b>>) :> Var(c)
  @@ Abs(<<w, p, s, c>>) :> Im(<<b>>)
  @@ Abs(<<w, p, s, d>>) :> Var(e) \o Im(<<c>>)
  @@ Abs(<<w, p, d>>) :> Im(<<e>>)
  @@ Abs(<<w, p, e>>) :> Im(<<d>>)
  @@ Abs(<<w, p, f>>) :> <<49>>
  @@ Abs(<<w, p, g>>) :> Var(g) \o Im(<<z>>)
  @@ Abs(<<w, p, u>>) :> Fun(u) \o Fun(a)
  @@ Abs(<<w, p, j>>) :> Type_(j) \o Fun(j)
  @@ Abs(<<w, p, q>>) :> Fun(q) \o Im(<<u>>)
  @@ Abs(<<w, k, k, k>>) :> Var(k)
  @@ Abs(<<w, k, h>>) :> Var(h)
MCFilename == <<<<p>>, <<m>>>>
MCExists   == DOMAIN MCFiles \cup {Abs(<<w, p, m>>)}
MCCwd      == Abs(<<w>>)
Opt(name, dir) == [name |-> name, dir |-> dir]

Imports ==
  {Im(n) : n \in Names_} \cup {Var(m) \o Im(n) : n \in Names_}
  \cup {Let(Im(n), Let(Var(m) \o Im(o), <<49>>)) : n \in Names_, o \in Names_}
  \cup {Im(<<b>>) \o sp \o Im(<<b>>), <<>>, W_let}

\* Functions and types before an import of functions and types.
Before_  == {Fun(m), Fun(m) \o Fun(z), Type_(m), Type_(m) \o Type_(z), Fun(m) \o Type_(z), Var(m)}
Chunked_ == {x \o Im(<<n>>) : x \in Before_, n \in {u, j, q}}

\* Strings of one and two bytes, among them those with an escape and a digit that
\* follows one, and comments in comments.
Bytes_   == {97, 48, 120, 34, 7, 10, 13, 200, 255}
Strings_ == {<<x>> : x \in Bytes_} \cup {<<x, y>> : x \in Bytes_, y \in Bytes_}
Flat_    == {<<>>, <<42>>, <<32, 10, 34>>, <<47, 32>>, <<97, 42, 97>>}
Nest(inner) == {Open \o x \o Close : x \in inner}
Comments_ == LET once == Nest(Flat_)
             IN  once \cup Nest({x \o y : x \in Flat_ \ {<<42>>}, y \in once}) \cup Nest({x \o y : x \in once, y \in once})
MCSpelled ==
  {<<String(escape(x)), <<Str(x)>>>> : x \in Strings_}
  \cup {<<<<49>> \o x \o <<47, 50>>, <<Num(1), T("/"), Num(2)>>>> : x \in Comments_}
  \cup {<<<<49, 57>>, <<Num(19)>>>>}

MCCommands ==
  [main : Imports, prelude : {<<>>}, options : {<<>>}]
  \cup [main : {Let(Im(<<k>>), <<49>>), Let(Im(<<h>>), <<49>>), Let(Im(<<a>>), <<49>>), Im(<<e>>)},
        prelude : {<<>>, <<<<a>>>>, <<<<z>>>>, <<<<f>>>>, <<<<d>>>>},
        options : {<<>>, <<Opt("P", <<<<k>>>>)>>, <<Opt("p", <<<<k>>>>), Opt("P", Abs(<<w, p>>))>>,
                   <<Opt("P", <<<<z>>>>), Opt("p", <<<<k>>>>), Opt("P", <<<<k>>>>)>>}]
  \cup [main : Chunked_ \cup {Let(x, <<49>>) : x \in Chunked_}, prelude : {<<>>, <<<<j>>>>}, options : {<<>>}]
  \cup [main : {t[1] : t \in MCSpelled} \cup {<<50, 48>>, Open, <<34, 97>>, <<34, 92, 55, 55, 55, 34>>},
        prelude : {<<>>}, options : {<<>>}]
===============================================================================
