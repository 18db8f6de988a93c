------------------------------ MODULE MCBinder ------------------------------
(***************************************************************************)
(* The binder on all programs of a few nodes.                              *)
(***************************************************************************)
EXTENDS BinderProps

CONSTANTS a, b, int

Names == Permutations({a, b})
=============================================================================
