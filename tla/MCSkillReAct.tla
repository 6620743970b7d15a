---------------------------- MODULE MCSkillReAct ----------------------------
(* Small instances of SkillReAct for TLC. *)
EXTENDS SkillReAct, TLC

CONSTANTS list, write, note, e1, e2

Symmetry == Permutations({e1, e2})
=============================================================================
