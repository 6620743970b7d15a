-------------------------- MODULE MCGatewayRouting --------------------------
(* Small instances of GatewayRouting for TLC. *)
EXTENDS GatewayRouting, TLC

CONSTANTS h1, h2, h3, a1, a2, anon, s1, s2, m1, m2

MCSessionOf == [m \in Messages |-> IF m = m1 THEN s1 ELSE s2]
SameSession == [m \in Messages |-> s1]

Symmetry == Permutations(Handlers) \cup Permutations(Agents \ {Nameless})

\* With SameSession the messages are alike, too.
SameSessionSymmetry == Symmetry \cup Permutations(Messages)
=============================================================================
