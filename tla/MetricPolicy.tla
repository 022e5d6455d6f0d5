---------------------------- MODULE MetricPolicy ----------------------------
(***************************************************************************)
(* experiment_comparability.py: whether what is declared of two results of *)
(* a metric makes them comparable (policy metric-result-v1).  A result is  *)
(* a function from the fields the policy requires to a value or None.      *)
(***************************************************************************)
EXTENDS Evidence

CONSTANT RequiredFields  \* _REQUIRED_FIELDS

Mismatched(l, r) == {f \in RequiredFields : l[f] # None /\ r[f] # None /\ l[f] # r[f]}
Undeclared(l, r) == {f \in RequiredFields : l[f] = None \/ r[f] = None}

Comparability(l, r) ==
    IF Mismatched(l, r) # {} THEN "incompatible"
    ELSE IF Undeclared(l, r) # {} THEN "unknown"
    ELSE "comparable"

=============================================================================
