--------------------------- MODULE MCWorkflowTools ---------------------------
(* Values for checking WorkflowTools: an identifier proposed with two keys   *)
(* and two specs, a model thread and a host thread.                          *)
EXTENDS WorkflowTools, TLC

CONSTANTS t1, t2, a1, k1, k2, p1, s1, s2, v1, v2

OnePrecondition == [s \in Specs |-> v1]
=============================================================================
