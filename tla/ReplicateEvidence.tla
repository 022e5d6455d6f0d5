-------------------------- MODULE ReplicateEvidence --------------------------
(***************************************************************************)
(* experiment_replicates.py: the aggregate of one declared group of        *)
(* replicates.  A host declares the roster of a group, supplies a snapshot *)
(* of some of its executions, and selects metrics; the group is assessed   *)
(* as a whole (identity, training protocol, seeds), each metric over all   *)
(* pairs of snapshots, and only then are numbers put together.             *)
(*                                                                         *)
(* A group is a record:                                                    *)
(*   experiment, protocol   its declared identity and training protocol    *)
(*   seeds      the expected seed of each execution of its roster          *)
(*   snapshots  of each execution supplied, what it declares (a member of  *)
(*              Snapshots), its seed and protocol, and its evidence: None, *)
(*              or for each target the first fault of the reading and the  *)
(*              number read                                                *)
(*   section    of each target                                             *)
(*   selectors  of each target, what its selector declares per execution   *)
(* Texts, seeds and numbers are small values; median and deviation are     *)
(* left out, but for the overflow the deviation may end in.                *)
(***************************************************************************)
EXTENDS MetricPolicy

CONSTANTS
    Targets,     \* target_id
    MaxRoster,   \* 16 in the code
    MaxFloat     \* the spread of numbers beyond which arithmetic overflows

\* What selectors declare; the other required fields are of the provenance.
SelectorFields == RequiredFields \ Fields

----------------------------------------------------------------------------
(* _validate *)

Roster(g) == DOMAIN g.seeds

ValidGroup(g) ==
    /\ Roster(g) # {} /\ Cardinality(Roster(g)) <= MaxRoster
    /\ DOMAIN g.snapshots \subseteq Roster(g)
    /\ \A t \in Targets : DOMAIN g.selectors[t] = Roster(g)

----------------------------------------------------------------------------
(* _group_assessment *)

\* _pairs: one item is paired with itself, as its declarations may be missing.
Pairs(S) == IF Cardinality(S) = 1 THEN S \X S ELSE {p \in S \X S : p[1] # p[2]}

Supplied(g) == DOMAIN g.snapshots
Available(g, e) == e \in Supplied(g) /\ g.snapshots[e].evidence # None

\* The status of several assessments: the worst one counts, and none is unknown.
Worst(statuses, bad) ==
    IF bad \in statuses THEN bad
    ELSE IF "unknown" \in statuses \/ statuses = {} THEN "unknown"
    ELSE "agree"

Identity(g) ==
    LET one(d, e) == IF Experiment[d] # Experiment[e] THEN "conflict"
                     ELSE Consistency(g.snapshots[d].declares, g.snapshots[e].declares)
    IN  Worst({one(p[1], p[2]) : p \in Pairs(Supplied(g))}
              \cup {"conflict" : e \in {e \in Roster(g) : Experiment[e] # g.experiment}},
              "conflict")

Protocols(g) == {g.protocol} \cup {g.snapshots[e].protocol : e \in Supplied(g)}

UnexpectedSeeds(g) == {e \in Supplied(g) :
    /\ g.snapshots[e].seed # None /\ g.seeds[e] # None
    /\ g.snapshots[e].seed # g.seeds[e]}

GroupVerdict(g, identity, protocols) ==
    IF identity = "conflict" \/ Cardinality(protocols \ {None}) > 1 \/ UnexpectedSeeds(g) # {}
    THEN "blocked"
    ELSE IF \/ identity = "unknown" \/ None \in protocols
            \/ \A e \in Roster(g) : ~Available(g, e)
         THEN "insufficient"
         ELSE "eligible"

GroupStatus(g) == GroupVerdict(g, Identity(g), Protocols(g))

----------------------------------------------------------------------------
(* _observation: what the first fault of a reading makes of it *)

Absent  == {"section_missing", "observation_unavailable", "metric_missing"}
Unread  == {"invalid_evidence", "invalid_numeric_observation"}
Foreign == {"evidence_kind_mismatch", "evidence_spec_mismatch", "invalid_source"}
Faults  == Absent \cup Unread \cup Foreign \cup {"none"}

State(g, t, e) ==
    IF ~Available(g, e) \/ g.snapshots[e].evidence[t].fault \in Absent THEN "missing"
    ELSE IF g.snapshots[e].evidence[t].fault = "none" THEN "included"
    ELSE "excluded"

In(g, t, state) == {e \in Roster(g) : State(g, t, e) = state}

\* Foreign evidence still holds a number.
Number(g, t, e) ==
    IF Available(g, e) /\ g.snapshots[e].evidence[t].fault \in Foreign \cup {"none"}
    THEN g.snapshots[e].evidence[t].value ELSE None

----------------------------------------------------------------------------
(* _metric_assessment: declarations of every snapshot, read or not *)

Operand(g, t, e) == [f \in RequiredFields |->
    IF f \in Fields THEN Declared[g.snapshots[e].declares][f]
    ELSE g.selectors[t][e][f]]

\* Mutant of MetricStatus: only what was read is assessed.
MetricStatusOfRead(g, t) ==
    Worst({Comparability(Operand(g, t, p[1]), Operand(g, t, p[2])) :
              p \in Pairs(In(g, t, "included"))}, "incompatible")

MetricStatus(g, t) ==
    Worst({Comparability(Operand(g, t, p[1]), Operand(g, t, p[2])) :
              p \in Pairs(Supplied(g))}, "incompatible")

----------------------------------------------------------------------------
(* _target and _statistics *)

Values(included) == {included[e] : e \in DOMAIN included}
Sum(included)    ==
    LET some(S) == CHOOSE e \in S : TRUE
        sum[S \in SUBSET DOMAIN included] ==
            IF S = {} THEN 0 ELSE included[some(S)] + sum[S \ {some(S)}]
    IN  sum[DOMAIN included]

\* The deviation of numbers far apart is no float.
Overflows(included) == \E x, y \in Values(included) : x - y > MaxFloat

Gate(group, metric) ==
    IF group = "blocked" \/ metric = "incompatible" THEN "blocked"
    ELSE IF group = "insufficient" \/ metric = "unknown" THEN "insufficient" ELSE "eligible"

\* One target, from its gate, what is declared of its metric and what was read.
TargetRow(g, t, gate, metric, read) ==
    LET overflow == gate = "eligible" /\ Overflows(read)
        included == IF gate = "eligible" /\ ~overflow THEN read ELSE <<>>
    IN  [eligibility |->
             IF gate = "blocked" \/ overflow THEN "blocked"
             ELSE IF gate = "insufficient" \/ DOMAIN included = {} THEN "insufficient"
             ELSE "eligible",
         included |-> included,
         missing  |-> In(g, t, "missing"),
         excluded |-> In(g, t, "excluded") \cup (DOMAIN read \ DOMAIN included),
         complete |-> DOMAIN included = Roster(g),
         metric   |-> IF \A e \in Roster(g) : Number(g, t, e) = None THEN None ELSE metric]

Aggregate(g, t) ==
    TargetRow(g, t, Gate(GroupStatus(g), MetricStatus(g, t)), MetricStatus(g, t),
              [e \in In(g, t, "included") |-> Number(g, t, e)])

\* aggregate_replicate_evidence
AggregateGroup(g) ==
    LET rows == [t \in Targets |-> Aggregate(g, t)]
    IN  [targets |-> rows,
         usable  |-> {e \in Roster(g) : \A t \in Targets : e \in DOMAIN rows[t].included}]

=============================================================================
