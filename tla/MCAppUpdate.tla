---------------------------- MODULE MCAppUpdate ----------------------------
(* Small instances of AppUpdate for TLC. *)
EXTENDS AppUpdate, TLC

CONSTANTS t1, t2

Symmetry == Permutations(Tasks)
=============================================================================
