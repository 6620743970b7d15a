--------------------------- MODULE MCPlanExecution ---------------------------
(* A small instance of PlanExecution for TLC: a skill call and a plain one. *)
EXTENDS PlanExecution

CONSTANTS skill, tool
=============================================================================
