--------------------------- MODULE MCCopilotSession ---------------------------
(* Values for checking CopilotSession: three callers may be inside a turn at *)
(* once, and more turns are asked than the largest history keeps.            *)
EXTENDS CopilotSession, TLC

CONSTANTS c1, c2, c3

ThreeCallers == {c1, c2, c3}
Symmetry == Permutations(ThreeCallers)

=============================================================================
