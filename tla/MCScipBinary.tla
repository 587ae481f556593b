---------------------------- MODULE MCScipBinary ----------------------------
(* ScipBinary on a few workers. *)
EXTENDS ScipBinary, TLC

Symmetry == Permutations(Workers)
=============================================================================
