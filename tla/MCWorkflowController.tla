----------------------- MODULE MCWorkflowController -----------------------
(* Values for the constants of WorkflowController.                        *)
EXTENDS WorkflowController, TLC

CONSTANTS t1, t2, a1, a2, k1, k2, p1, p2, s1, v1, v2

\* The target meets the preconditions of every spec in version v1 only.
OnePrecondition == [s \in Specs |-> v1]

Symmetry == Permutations({t1, t2}) \cup Permutations({a1, a2})
              \cup Permutations({k1, k2}) \cup Permutations({p1, p2})
=============================================================================
