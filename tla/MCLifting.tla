------------------------------ MODULE MCLifting ------------------------------
(***************************************************************************)
(* Lambda lifting on all programs of three shapes with functions f and g   *)
(* in _main, and on chunks of three functions that call each other.  The   *)
(* body of _main declares x; f has the formal y and g the variable z.      *)
(***************************************************************************)
EXTENDS LiftingProps, SequencesExt

CONSTANTS main, f, g, h, x, y, z, none

Item(op, of) == <<[op |-> op, of |-> of]>>
Use(v) == Item("use", v)
Call(k) == Item("call", k)
Declare(v) == Item("var", v)
Functions(fs) == Item("functions", fs)
InLet(items) == Item("open", none) \o items \o Item("close", none)

\* Up to n of these pieces, one after the other.
UpTo(n, pieces) == {FlattenSeq(s) : s \in BoundedSeq(pieces, n)}

Both == {Call(f), Call(g), Use(x)}
OfF == Both \cup {Use(y), InLet(Use(y))}
OfG == Both \cup {InLet(Use(z))}
OfMain == UpTo(1, {Call(f), InLet(Use(x))})

\* main, f and g made of these bodies.
Program(m, bodyF, bodyG, bodyH) ==
  [formals |-> [k \in Fun |-> IF k = f THEN {y} ELSE {}],
   body |-> (main :> Declare(x) \o m) @@ (f :> bodyF) @@ (g :> bodyG) @@ (h :> bodyH)]

OneChunk ==
  {Program(Functions(<<f, g>>) \o m, b, Declare(z) \o c, <<>>) :
     m \in OfMain, b \in UpTo(2, OfF), c \in UpTo(2, OfG)}

TwoChunks ==
  {Program(Functions(<<f>>) \o Functions(<<g>>) \o m, b, Declare(z) \o c, <<>>) :
     m \in OfMain, b \in UpTo(2, OfF \ {Call(g)}), c \in UpTo(2, OfG)}

\* g is nested in f, whose formal it sees.
OneInOther ==
  {Program(Functions(<<f>>) \o m, Functions(<<g>>) \o b, Declare(z) \o c, <<>>) :
     m \in OfMain, b \in UpTo(1, OfF), c \in UpTo(2, OfG \cup {Use(y)})}

Third == UpTo(1, Both \cup {Call(h)}) \cup {Use(x) \o Call(f), Call(g) \o Use(x)}

ThreeInChunk ==
  {Program(Functions(<<f, g, h>>) \o Call(f), b, c, d) : b \in Third, c \in Third, d \in Third}

AllPrograms == OneChunk \cup TwoChunks \cup OneInOther \cup ThreeInChunk
=============================================================================
