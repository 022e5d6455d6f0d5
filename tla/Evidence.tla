------------------------------ MODULE Evidence ------------------------------
(***************************************************************************)
(* Experiment evidence as experiment_identity.py and                       *)
(* experiment_repository.py see it: which execution of which experiment a  *)
(* snapshot is stored for, what it declares, when two snapshots conflict,  *)
(* and what a row of the table looks like.  A declaration may be missing   *)
(* (None), and what is missing conflicts with nothing, so consistency is   *)
(* not transitive.                                                         *)
(***************************************************************************)
EXTENDS Integers, FiniteSets

CONSTANTS
    Executions,  \* execution identifiers, ordered like the column execution_id
    Experiment,  \* the experiment each execution belongs to
    Snapshots,   \* canonical JSON of a record; equal iff structurally equal
    Fields,      \* _DEFINITION_FIELDS
    Declared,    \* what each snapshot declares in each field, None if nothing
    Reasons,     \* invalidation reasons
    None         \* absence

Experiments == {Experiment[e] : e \in Executions}

\* Rows of experiment_records.
ActiveRows      == [evidence : Snapshots, status : {"active"}, reason : {None}]
InvalidatedRows == [evidence : Snapshots, status : {"invalidated"}, reason : Reasons]
Rows            == ActiveRows \cup InvalidatedRows
Tables          == [Executions -> Rows \cup {None}]

EmptyTable == [e \in Executions |-> None]

ASSUME EvidenceAssumption ==
    /\ Executions \subseteq Int
    /\ DOMAIN Experiment = Executions
    /\ DOMAIN Declared = Snapshots
    /\ \A s \in Snapshots : DOMAIN Declared[s] = Fields
    /\ None \notin Rows

----------------------------------------------------------------------------
(* check_identity_consistency *)

\* The fields both snapshots declare, differently: the *_mismatch reasons.
Mismatches(s, u) == {f \in Fields :
    /\ Declared[s][f] # None /\ Declared[u][f] # None
    /\ Declared[s][f] # Declared[u][f]}

\* The fields one of them does not declare: the missing_* reasons.
Missing(s, u) == {f \in Fields : Declared[s][f] = None \/ Declared[u][f] = None}

Consistency(s, u) ==
    IF Mismatches(s, u) # {} THEN "conflict"
    ELSE IF Missing(s, u) # {} THEN "unknown"
    ELSE "consistent"

----------------------------------------------------------------------------
(* What is written into a table, and read from it *)

\* Mutant of Invalidated: the status changes without its reason.
InvalidatedBare(row, why) == [row EXCEPT !.status = "invalidated"]

Active(s)              == [evidence |-> s, status |-> "active", reason |-> None]
Invalidated(row, why)  == [row EXCEPT !.status = "invalidated", !.reason = why]

\* The executions of an experiment that have a row, invalidated ones included.
Retained(table, x) == {e \in Executions : table[e] # None /\ Experiment[e] = x}

\* The rows of some executions, which is what a call may return.
Only(table, some) == [e \in Executions |-> IF e \in some THEN table[e] ELSE None]

\* No two rows of one experiment declare different definitions.
NoConflict(table) ==
    \A d, e \in Executions :
        table[d] # None /\ table[e] # None /\ Experiment[d] = Experiment[e] =>
            Consistency(table[d].evidence, table[e].evidence) # "conflict"

=============================================================================
