----------------------------- MODULE BoundTools -----------------------------
(***************************************************************************)
(* The tools bound to a host's data: ArtifactVerificationTools,            *)
(* ReplicateAggregationTools, ReplicateGroupComparisonTools and            *)
(* PairedReplicateComparisonTools of tool_layer/.                          *)
(*                                                                         *)
(* A host makes its lists and records, builds a tool from them and goes on *)
(* changing them in place.  The tool copies them, validates and computes   *)
(* once on a copy of its copy, and computes anew, from another copy, at    *)
(* every call.  Budgets in bytes are left out.                             *)
(***************************************************************************)
EXTENDS ReplicateComparison, Sequences

CONSTANTS
    Ids, Sizes, Digests, Locators, Lower, Known, ForeignStatus, MaxEntries,
    Seeds, ProtocolRefs, Numbers, SomeFaults, SelectorValues, \* values of edits
    FirstGroups,   \* the groups a host starts from, as <<a, b, pairs, mapping>>
    MaxEdits       \* bound: the changes a host makes

Artifact == INSTANCE ArtifactVerification WITH Foreign <- ForeignStatus

Opt(S) == S \cup {None}

\* A group of some executions, in the types the tools take.
IsPartial(f, V) ==
    DOMAIN f \subseteq Executions /\ IsFiniteSet(DOMAIN f) /\ f \in [DOMAIN f -> V]

SnapshotRecords ==
    [declares : Snapshots, seed : Opt(Seeds), protocol : Opt(ProtocolRefs),
     evidence : Opt([Targets -> [fault : Faults, value : Int]])]

IsGroup(g) ==
    /\ g = [experiment |-> g.experiment, protocol |-> g.protocol, seeds |-> g.seeds,
            snapshots |-> g.snapshots, section |-> g.section, selectors |-> g.selectors]
    /\ g.experiment \in Experiments /\ g.protocol \in Opt(ProtocolRefs)
    /\ IsPartial(g.seeds, Opt(Seeds)) /\ IsPartial(g.snapshots, SnapshotRecords)
    /\ g.section \in [Targets -> {"validation", "test"}]
    /\ g.selectors = [t \in Targets |-> g.selectors[t]]
    /\ \A t \in Targets : IsPartial(g.selectors[t], [SelectorFields -> Opt(SelectorValues)])

\* Two groups, the pairs declared of them and the mapping of their targets.
IsGrouping(in) ==
    /\ in = [a |-> in.a, b |-> in.b, pairs |-> in.pairs, mapping |-> in.mapping]
    /\ IsGroup(in.a) /\ IsGroup(in.b)
    /\ in.pairs \subseteq [a : Executions, b : Executions]
    /\ in.mapping \subseteq [a : Targets, b : Targets]

ASSUME BoundToolsAssumption ==
    /\ Lower \in [Digests -> Digests]
    /\ None \notin Sizes /\ None \notin Digests /\ None \notin Locators /\ None \notin Seeds
    /\ None \notin ProtocolRefs /\ None \notin SelectorValues
    /\ None \notin Int \cup {"a", "b"} /\ None \notin Artifact!Observations
    /\ "observed" \in Known /\ ForeignStatus \notin Known
    /\ SomeFaults \subseteq Faults /\ Numbers \subseteq Int /\ MaxFloat \in Nat
    /\ "direction" \in SelectorFields
    /\ \A in \in FirstGroups : IsGrouping(in)

VARIABLES
    kind,    \* the tool the host builds
    inputs,  \* the host's own data
    edits,   \* how often it changed it
    bound,   \* what the tool holds, None before it is built
    given,   \* history: what it was built from
    reply    \* of the last call, None before one

boundVars == <<kind, inputs, edits, bound, given, reply>>

Rejected == [code |-> "rejected"]
Kinds == {"artifacts", "aggregate", "groups", "paired"}

BoundInit ==
    /\ kind \in Kinds
    /\ IF kind = "artifacts"
       THEN \E named \in BOOLEAN :
              inputs = [declared |-> <<>>, reports |-> <<>>, named |-> named]
       ELSE inputs \in FirstGroups
    /\ edits = 0 /\ bound = None /\ given = None /\ reply = None

----------------------------------------------------------------------------
(* What the host does to its data, in place: one change at a time *)

Without(f, e) == [d \in DOMAIN f \ {e} |-> f[d]]

ChangedLists(in) ==
    {[in EXCEPT !.declared = Append(@, d)] : d \in Artifact!Declarations}
    \cup {[in EXCEPT !.reports = Append(@, o)] : o \in Artifact!Observations}
    \cup {[in EXCEPT !.declared = Tail(@)] : x \in {1} \cap DOMAIN in.declared}
    \cup {[in EXCEPT !.reports = Tail(@)] : x \in {1} \cap DOMAIN in.reports}

ChangedSnapshots(s) ==
    {[s EXCEPT !.declares = d] : d \in Snapshots}
    \cup {[s EXCEPT !.seed = x] : x \in Opt(Seeds)}
    \cup {[s EXCEPT !.protocol = x] : x \in Opt(ProtocolRefs)}
    \cup {[s EXCEPT !.evidence = None]}
    \cup IF s.evidence = None THEN {}
         ELSE {[s EXCEPT !.evidence[t].fault = x] : t \in Targets, x \in SomeFaults}
              \cup {[s EXCEPT !.evidence[t].value = x] : t \in Targets, x \in Numbers}

ChangedGroups(g) ==
    {[g EXCEPT !.experiment = x] : x \in Experiments}
    \cup {[g EXCEPT !.protocol = x] : x \in Opt(ProtocolRefs)}
    \cup {[g EXCEPT !.seeds[e] = x] : e \in Roster(g), x \in Opt(Seeds)}
    \cup {[g EXCEPT !.seeds = Without(@, e)] : e \in Roster(g)}
    \cup {[g EXCEPT !.snapshots = Without(@, e)] : e \in Supplied(g)}
    \cup (UNION {{[g EXCEPT !.snapshots[e] = s] : s \in ChangedSnapshots(g.snapshots[e])} :
                    e \in Supplied(g)})
    \cup {[g EXCEPT !.section[t] = x] : t \in Targets, x \in {"validation", "test"}}
    \cup {[g EXCEPT !.selectors[t][e]["direction"] = x] :
             t \in Targets, e \in Roster(g), x \in Opt(SelectorValues)}

ChangedPairings(in) ==
    {[in EXCEPT !.pairs = @ \ {p}] : p \in in.pairs}
    \cup {[in EXCEPT !.pairs = @ \cup {[a |-> d, b |-> e]}] :
             d \in Executions, e \in Executions}
    \cup {[in EXCEPT !.mapping = @ \ {m}] : m \in in.mapping}

Changed(in) ==
    IF kind = "artifacts" THEN ChangedLists(in)
    ELSE {[in EXCEPT !.a = g] : g \in ChangedGroups(in.a)}
         \cup IF kind = "aggregate" THEN {}
              ELSE {[in EXCEPT !.b = g] : g \in ChangedGroups(in.b) \cup {in.a}}
                   \cup ChangedPairings(in)

HostEdits ==
    /\ edits < MaxEdits /\ edits' = edits + 1
    /\ inputs' \in Changed(inputs) \ {inputs}
    /\ UNCHANGED <<kind, bound, given, reply>>

----------------------------------------------------------------------------
(* The tool *)

Valid(in) ==
    \/ kind = "artifacts" /\ Artifact!Valid(in.declared, in.reports)
    \/ kind = "aggregate" /\ ValidGroup(in.a)
    \/ /\ kind = "groups"
       /\ ValidGroup(in.a) /\ ValidGroup(in.b) /\ ValidMapping(in.mapping)
    \/ /\ kind = "paired"
       /\ ValidGroup(in.a) /\ ValidGroup(in.b) /\ ValidMapping(in.mapping)
       /\ ValidPairing(in.a, in.b, in.pairs)

\* What the core returns for some inputs, or that it raises.
Answer(in) ==
    IF ~Valid(in) THEN Rejected
    ELSE [code |-> "ok",
          report |-> IF kind = "artifacts" THEN Artifact!Report(in.declared, in.reports, in.named)
                     ELSE IF kind = "aggregate" THEN AggregateGroup(in.a)
                     ELSE IF kind = "groups" THEN CompareGroups(in.a, in.b, in.mapping)
                     ELSE ComparePairs(in.a, in.b, in.pairs, in.mapping)]

\* __init__: a copy is validated as a whole and kept, or nothing is built.
Build ==
    /\ bound = None
    /\ \/ /\ Valid(inputs)
          /\ bound' = inputs /\ given' = inputs /\ reply' = None
       \/ /\ ~Valid(inputs)
          /\ reply' = Rejected /\ UNCHANGED <<bound, given>>
    /\ UNCHANGED <<kind, inputs, edits>>

\* Mutant of InvokeTool: the tool keeps the host's own data.
InvokeShared ==
    /\ bound # None
    /\ reply' = Answer(inputs)
    /\ UNCHANGED <<kind, inputs, edits, bound, given>>

\* invoke_tool: a fresh copy of what is bound is validated and computed again.
InvokeTool ==
    /\ bound # None
    /\ reply' = Answer(bound)
    /\ UNCHANGED <<kind, inputs, edits, bound, given>>

BoundNext == HostEdits \/ Build \/ InvokeTool
BoundSpec == BoundInit /\ [][BoundNext]_boundVars

----------------------------------------------------------------------------
(* What must hold *)

Answered(tool) == kind = tool /\ given # None /\ reply # None

(* A call answers for the lists as they were when the tool was built,       *)
(* whatever the host did to them since, and does not fail on what was       *)
(* accepted; silence on either side is never agreement.                     *)
AgreementIsShown == Answered("artifacts") =>
    /\ reply.code = "ok"
    /\ Artifact!Shown(given.declared, given.reports, reply.report.artifacts)

\* All that was supplied of a group, read or not, declares one experiment, one
\* protocol and one meaning of a target, and declares them in full.
AllAgree(g, t) ==
    /\ \A e \in Roster(g) : Experiment[e] = g.experiment
    /\ g.protocol # None
    /\ \A e \in Supplied(g) :
         /\ g.snapshots[e].protocol = g.protocol
         /\ g.seeds[e] # None => g.snapshots[e].seed \in {None, g.seeds[e]}
    /\ \A d, e \in Supplied(g) :
         /\ \A f \in RequiredFields :
              Operand(g, t, d)[f] # None /\ Operand(g, t, d)[f] = Operand(g, t, e)[f]
         /\ \A f \in Fields :
              LET declared(x) == Declared[g.snapshots[x].declares][f]
              IN  declared(d) # None /\ declared(d) = declared(e)

(* Every execution of the roster is counted once, as included, missing or   *)
(* excluded, and no number is used of a group whose snapshots do not all    *)
(* agree, those without a number included; the numbers used are those that  *)
(* were read (aggregate_replicate_evidence).                                *)
ConflictsNeverCounted == Answered("aggregate") =>
    /\ reply.code = "ok"
    /\ \A t \in Targets :
         LET g    == given.a
             row  == reply.report.targets[t]
             used == DOMAIN row.included
         IN  /\ used \cup row.missing \cup row.excluded = Roster(g)
             /\ Cardinality(used) + Cardinality(row.missing) + Cardinality(row.excluded)
                    = Cardinality(Roster(g))
             /\ used # {} => AllAgree(g, t) /\ row.eligibility = "eligible"
             /\ \A e \in used : /\ g.snapshots[e].evidence[t].fault = "none"
                                /\ row.included[e] = g.snapshots[e].evidence[t].value

\* The same difference seen from the other side.
Opposite(favors) == IF favors = "a" THEN "b" ELSE IF favors = "b" THEN "a" ELSE favors
Negated(delta) == IF delta = None THEN None ELSE -delta

Reversed(p) == [a |-> p.b, b |-> p.a]

\* Two single experiments compare the same from both sides.
MirroredSides(row, back, sameDirection) ==
    /\ back.delta = Negated(row.delta) /\ back.aligned = row.aligned
    /\ back.comparability = row.comparability
    /\ sameDirection => back.favors = Opposite(row.favors)

SidesMirror ==
    \A declares, declared \in [RequiredFields -> Opt(SelectorValues)],
       x, y \in Numbers, status \in {"available", "missing"}, fits \in BOOLEAN :
        LET a == [section |-> "test", status |-> "available", value |-> x, fits |-> fits,
                  declares |-> declares]
            b == [a EXCEPT !.status = status, !.value = y, !.fits = TRUE, !.declares = declared]
        IN  MirroredSides(CompareSides(a, b), CompareSides(b, a),
                          declares["direction"] = declared["direction"])

\* Two groups compare the same from both sides.
MirroredGroups(row, back) ==
    /\ back.eligibility = row.eligibility
    /\ back.delta = Negated(row.delta)
    /\ back.favors = Opposite(row.favors)

MirroredPairs(row, back) ==
    /\ back.eligibility = row.eligibility
    /\ back.missing = {Reversed(p) : p \in row.missing}
    /\ \A p \in DOMAIN row.included :
         /\ back.included[Reversed(p)] = -row.included[p]
         /\ back.favors[Reversed(p)] = Opposite(row.favors[p])

\* A row of pairs against the row of the groups, of aggregates left and right.
PairsFitGroups(row, groups, left, right) ==
    LET used == DOMAIN row.included
    IN  /\ used # {} => \/ groups.eligibility \in {"eligible", "limited"}
                        \/ Beyond(MeanDelta(left, right), Counts(left, right))
        /\ row.eligibility = "eligible" =>
               /\ groups.eligibility = "eligible"
               /\ Sum(row.included) * Cardinality(used) = groups.delta

(* The three comparisons agree with each other.  Exchanging a and b negates *)
(* the difference, exchanges the side it favours and changes nothing else,  *)
(* although pairs take their direction from a alone.  What can be compared  *)
(* pair by pair can be compared as groups, unless numbers overflow; and     *)
(* when every execution is paired and counted, the mean of the differences  *)
(* is the difference of the means.                                          *)
ComparisonsAgree ==
    /\ SidesMirror
    /\ Answered("groups") => reply.code = "ok"
    /\ Answered("groups") => \A m \in given.mapping :
         MirroredGroups(reply.report[m], CompareTargets(given.b, m.b, given.a, m.a))
    /\ Answered("paired") => reply.code = "ok"
    /\ Answered("paired") => \A m \in given.mapping :
         /\ MirroredPairs(reply.report[m],
                PairTarget(given.b, m.b, given.a, m.a, {Reversed(p) : p \in given.pairs}))
         /\ DOMAIN reply.report[m].included \cup reply.report[m].missing
                \cup reply.report[m].excluded = given.pairs
         /\ PairsFitGroups(reply.report[m], CompareTargets(given.a, m.a, given.b, m.b),
                Aggregate(given.a, m.a).included, Aggregate(given.b, m.b).included)
=============================================================================
