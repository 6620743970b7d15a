---------------------------- MODULE MCLlmClient ----------------------------
(* Small instances of LlmClient for TLC. *)
EXTENDS LlmClient, TLC

CONSTANTS c1, c2, c3

Symmetry == Permutations(Callers)
=============================================================================
