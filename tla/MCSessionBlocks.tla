--------------------------- MODULE MCSessionBlocks ---------------------------
(* Small instances of SessionBlocks for TLC. *)
EXTENDS SessionBlocks, TLC

CONSTANTS r1, r2, r3, s1, s2

MCSessionOf == [r \in Runs |-> IF r = r2 THEN s2 ELSE s1]

MCCallsOf == [r \in Runs |-> IF r = r1 THEN 2 ELSE IF r = r2 THEN 1 ELSE 0]
=============================================================================
