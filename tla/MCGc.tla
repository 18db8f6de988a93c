-------------------------------- MODULE MCGc --------------------------------
(***************************************************************************)
(* Small instances of the collector for TLC.                               *)
(***************************************************************************)
EXTENDS GcProps

AddrSymmetry == Permutations(Addr)

=============================================================================
