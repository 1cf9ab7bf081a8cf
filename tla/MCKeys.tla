-------------------------------- MODULE MCKeys --------------------------------
(***************************************************************************)
(* Instances of Keys for TLC.                                              *)
(***************************************************************************)
EXTENDS Keys, TLC

CONSTANTS r1, r2, r3, w1, w2

Symmetry == Permutations({r1, r2, r3}) \cup Permutations({w1, w2})
===============================================================================
