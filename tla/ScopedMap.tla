------------------------------ MODULE ScopedMap ------------------------------
(***************************************************************************)
(* misc::scoped_map with pointers as data: a stack of dictionaries, here a *)
(* sequence of functions from the keys put in each scope, innermost last.  *)
(***************************************************************************)
EXTENDS SequencesExt

CONSTANTS
  Key,       \* what maps are indexed by
  NoPointer  \* nullptr

\* The constructor opens the first scope.
NewMap == <<[k \in {} |-> NoPointer]>>

scope_begin(m) == Append(m, [k \in {} |-> NoPointer])

scope_end(m) == Front(m)

\* In the innermost scope, over an older value of the key in that scope.
put(m, key, value) ==
  [m EXCEPT ![Len(m)] =
     [k \in DOMAIN m[Len(m)] \cup {key} |->
        IF k = key THEN value ELSE m[Len(m)][k]]]

Defining(m, key) == {i \in 1..Len(m) : key \in DOMAIN m[i]}

contains(m, key) == Defining(m, key) # {}

\* Mutant: the scopes are searched from the outermost one.
getOutermost(m, key) ==
  IF Defining(m, key) = {} THEN NoPointer ELSE m[Min(Defining(m, key))][key]

\* Searched from the innermost scope outwards.
get(m, key) ==
  IF Defining(m, key) = {} THEN NoPointer ELSE m[Max(Defining(m, key))][key]
=============================================================================
