--------------------------------- MODULE Tokens --------------------------------
(***************************************************************************)
(* What the scanner hands to the parser (the %token section of             *)
(* src/src/parse/parsetiger.yy): a sort, and the symbol or the integer     *)
(* that some sorts carry.  White space, comments and locations are left    *)
(* out.                                                                    *)
(***************************************************************************)
T(t)      == <<t, "", 0>>
Id(s)     == <<"ID", s, 0>>
Str(s)    == <<"STRING", s, 0>>
Num(n)    == <<"INT", "", n>>
================================================================================
