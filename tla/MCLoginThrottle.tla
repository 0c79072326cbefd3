--------------------------- MODULE MCLoginThrottle ---------------------------
(***************************************************************************)
(* A small instance of LoginThrottle for TLC.                              *)
(***************************************************************************)
EXTENDS LoginThrottle, TLC

CONSTANTS c1, c2, c3

Symmetry == Permutations({c1, c2, c3})
=============================================================================
