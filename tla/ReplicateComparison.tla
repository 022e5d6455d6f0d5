------------------------- MODULE ReplicateComparison -------------------------
(***************************************************************************)
(* experiment_comparison.py, experiment_group_comparison.py and            *)
(* experiment_paired_comparison.py: two experiments, two groups of         *)
(* replicates, or declared pairs of their executions.  The difference is b *)
(* less a; a difference of means is kept as a fraction over the product of *)
(* the two counts.                                                         *)
(***************************************************************************)
EXTENDS ReplicateEvidence

Directions == {"maximize", "minimize"}

\* Whether an amount (over some positive count) is beyond a float.
Beyond(amount, count) == amount > MaxFloat * count \/ -amount > MaxFloat * count

\* Mutant of Favors: no difference is judged like any other.
FavorsAlways(delta, direction) ==
    IF (delta > 0) = (direction = "maximize") THEN "b" ELSE "a"

\* Which side a difference speaks for.
Favors(delta, direction) ==
    IF delta = 0 THEN "equal"
    ELSE IF (delta > 0) = (direction = "maximize") THEN "b" ELSE "a"

----------------------------------------------------------------------------
(* _validate_mapping, _mapping: targets are matched one to one *)

OneToOne(pairs) == \A p, q \in pairs : (p.a = q.a \/ p.b = q.b) => p = q

ValidMapping(mapping) ==
    /\ OneToOne(mapping)
    /\ {m.a : m \in mapping} = Targets /\ {m.b : m \in mapping} = Targets

----------------------------------------------------------------------------
(* compare_experiment_evidence: one target of two experiments.  A side has *)
(* its section, the status of its evidence and the number, whether its     *)
(* metadata is there and fits the evidence, and what it declares.          *)

SemanticConflicts(l, r) ==
    Mismatched(l, r) \cap {"metric_definition", "direction", "aggregation"}

CompareSides(a, b) ==
    LET aligned  == a.section = b.section /\ a.fits /\ b.fits
        judged   == a.status = "available" /\ b.status = "available" /\ aligned
        status   == IF judged THEN Comparability(a.declares, b.declares) ELSE None
        computed == judged /\ status # "incompatible" /\ ~Beyond(b.value - a.value, 1)
    IN  [comparability |-> status,
         aligned |-> aligned /\ (judged => SemanticConflicts(a.declares, b.declares) = {}),
         delta   |-> IF computed THEN b.value - a.value ELSE None,
         favors  |-> IF computed THEN Favors(b.value - a.value, a.declares["direction"])
                     ELSE None]

----------------------------------------------------------------------------
(* compare_replicate_groups *)

CrossStatus(a, ta, b, tb) ==
    Worst({Comparability(Operand(a, ta, d), Operand(b, tb, e)) :
              d \in Supplied(a), e \in Supplied(b)}, "incompatible")

\* The one direction all declare, if it is one.
SharedDirection(a, ta, b, tb) ==
    LET declared == {Operand(a, ta, e)["direction"] : e \in Supplied(a)}
                    \cup {Operand(b, tb, e)["direction"] : e \in Supplied(b)}
    IN  IF \E d \in Directions : declared = {d} THEN CHOOSE d \in Directions : declared = {d}
        ELSE None

\* What is wrong with a comparison, or missing for it, before any number is used.
Blocked(a, ta, b, tb, left, right, cross) ==
    \/ a.section[ta] # b.section[tb]
    \/ Roster(a) \cap Roster(b) # {}
    \/ cross = "incompatible"
    \/ "blocked" \in {left.eligibility, right.eligibility}

Lacking(left, right, cross) ==
    \/ cross = "unknown" \/ "insufficient" \in {left.eligibility, right.eligibility}
    \/ {} \in {DOMAIN left.included, DOMAIN right.included}

Limited(a, b, left, right) ==
    \/ ~left.complete \/ ~right.complete
    \/ Cardinality(Roster(a)) # Cardinality(Roster(b))
    \/ 1 \in {Cardinality(DOMAIN left.included), Cardinality(DOMAIN right.included)}

\* The difference of the means, times the product of the counts.
MeanDelta(left, right) ==
    Sum(right) * Cardinality(DOMAIN left) - Sum(left) * Cardinality(DOMAIN right)
Counts(left, right) == Cardinality(DOMAIN left) * Cardinality(DOMAIN right)

GroupRow(blocked, lacking, limited, delta, count, direction) ==
    LET usable   == ~blocked /\ ~lacking
        overflow == usable /\ Beyond(delta, count)
    IN  [eligibility |-> IF blocked \/ overflow THEN "blocked"
                         ELSE IF lacking THEN "insufficient"
                         ELSE IF limited THEN "limited" ELSE "eligible",
         delta  |-> IF usable /\ ~overflow THEN delta ELSE None,
         favors |-> IF usable /\ ~overflow /\ direction # None
                    THEN Favors(delta, direction) ELSE None]

CompareAggregates(a, ta, b, tb, left, right, cross) ==
    GroupRow(Blocked(a, ta, b, tb, left, right, cross), Lacking(left, right, cross),
             Limited(a, b, left, right), MeanDelta(left.included, right.included),
             Counts(left.included, right.included), SharedDirection(a, ta, b, tb))

CompareTargets(a, ta, b, tb) ==
    CompareAggregates(a, ta, b, tb, Aggregate(a, ta), Aggregate(b, tb),
                      CrossStatus(a, ta, b, tb))

CompareGroups(a, b, mapping) ==
    [m \in mapping |-> CompareTargets(a, m.a, b, m.b)]

----------------------------------------------------------------------------
(* compare_paired_replicates *)

\* _pairing: distinct executions of two rosters apart, none twice.
ValidPairing(a, b, pairs) ==
    /\ pairs # {} /\ OneToOne(pairs)
    /\ Roster(a) \cap Roster(b) = {}
    /\ {p.a : p \in pairs} \subseteq Roster(a)
    /\ {p.b : p \in pairs} \subseteq Roster(b)

\* What is declared of the two results of a pair, None unless both are supplied.
PairStatus(a, ta, b, tb, p) ==
    IF p.a \in Supplied(a) /\ p.b \in Supplied(b)
    THEN Comparability(Operand(a, ta, p.a), Operand(b, tb, p.b)) ELSE None

PairsMissing(left, right, pairs) ==
    {p \in pairs : p.a \in left.missing \/ p.b \in right.missing}

\* The differences of the pairs that have two numbers and agree.
Deltas(left, right, pairs, status) ==
    [p \in {p \in pairs \ PairsMissing(left, right, pairs) :
                /\ p.a \in DOMAIN left.included /\ p.b \in DOMAIN right.included
                /\ status[p] = "comparable"} |-> right.included[p.b] - left.included[p.a]]

PairsBlocked(a, ta, b, tb, left, right, status) ==
    \/ a.section[ta] # b.section[tb]
    \/ "blocked" \in {left.eligibility, right.eligibility}
    \/ "incompatible" \in {status[p] : p \in DOMAIN status}

PairsLacking(left, right, status) ==
    \/ "insufficient" \in {left.eligibility, right.eligibility}
    \/ "unknown" \in {status[p] : p \in DOMAIN status}

DeltasOverflow(deltas) == (\E d \in Values(deltas) : Beyond(d, 1)) \/ Overflows(deltas)

Unpaired(a, b, pairs) ==
    Roster(a) # {p.a : p \in pairs} \/ Roster(b) # {p.b : p \in pairs}

\* One target of all pairs, from the differences that are counted.
PairRow(pairs, missing, blocked, lacking, unpaired, counted, direction) ==
    [eligibility |-> IF blocked THEN "blocked"
                     ELSE IF lacking \/ DOMAIN counted = {} THEN "insufficient"
                     ELSE IF \/ DOMAIN counted # pairs \/ unpaired
                             \/ Cardinality(DOMAIN counted) = 1 THEN "limited"
                     ELSE "eligible",
     included |-> counted,
     missing  |-> missing,
     excluded |-> pairs \ (missing \cup DOMAIN counted),
     favors   |-> [p \in DOMAIN counted |-> Favors(counted[p], direction[p.a])]]

PairRowOf(pairs, missing, blocked, lacking, unpaired, deltas, direction) ==
    LET overflow == ~blocked /\ ~lacking /\ DeltasOverflow(deltas)
    IN  PairRow(pairs, missing, blocked \/ overflow, lacking, unpaired,
                IF blocked \/ lacking \/ overflow THEN <<>> ELSE deltas, direction)

PairAggregates(a, ta, b, tb, pairs, left, right, status) ==
    PairRowOf(pairs, PairsMissing(left, right, pairs),
              PairsBlocked(a, ta, b, tb, left, right, status),
              PairsLacking(left, right, status), Unpaired(a, b, pairs),
              Deltas(left, right, pairs, status),
              [e \in Roster(a) |-> a.selectors[ta][e]["direction"]])

PairTarget(a, ta, b, tb, pairs) ==
    PairAggregates(a, ta, b, tb, pairs, Aggregate(a, ta), Aggregate(b, tb),
                   [p \in pairs |-> PairStatus(a, ta, b, tb, p)])

ComparePairs(a, b, pairs, mapping) ==
    [m \in mapping |-> PairTarget(a, m.a, b, m.b, pairs)]

=============================================================================
