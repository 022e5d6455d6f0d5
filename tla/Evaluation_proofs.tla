------------------------- MODULE Evaluation_proofs --------------------------
(***************************************************************************)
(* What a report of a batch tells, and what a passed gate compares, for    *)
(* any scenarios, any suites of them, and any order of registrations,      *)
(* suites, manifests, batches and interruptions.                           *)
(***************************************************************************)
EXTENDS Evaluation, FiniteSetTheorems, SequenceTheorems, TLAPS

----------------------------------------------------------------------------
(* The inductive invariant *)

\* A suite: a scenario or more, at most one of each case.
IsSuite(u) ==
    /\ u = [definition |-> u.definition, scenarios |-> u.scenarios]
    /\ u.scenarios \in Seq(Scenarios) /\ u.scenarios # <<>>
    /\ \A i, j \in DOMAIN u.scenarios : i # j => u.scenarios[i].id # u.scenarios[j].id

\* A slot and its result are the scenario's that was run for it.
IsSlot(o, i, s) ==
    /\ o.position = i /\ o.id = s.id /\ o.version = s.version /\ o.fingerprint = s.content
    /\ o.result # None => o.result \in Results /\ Key(o.result) = Key(s)

Slots(os, u) == \A i \in DOMAIN os : IsSlot(os[i], i, u.scenarios[i])

\* A result tells how the attempt of its scenario ended.
ResultTells(r, s, a) ==
    /\ r = None <=> a.kind \in {"no_session", "not_scored"}
    /\ r # None => /\ r.run = a.run
                   /\ r.passed = (r.score = 3)
                   /\ r.passed <=> a.kind = "scored" /\ Right(s.content, a.seen)

SlotsTell(os, as, u) ==
    Len(os) = Len(as) /\ \A i \in DOMAIN os : ResultTells(os[i].result, u.scenarios[i], as[i])

HasRun(o) == o.result # None /\ o.result.run # None

RunsApart(os) == \A i, j \in DOMAIN os :
    i # j /\ HasRun(os[i]) /\ HasRun(os[j]) => os[i].result.run # os[j].result.run

RunsPast(os) == \A i \in DOMAIN os : HasRun(os[i]) => os[i].result.run <= runs

IsReport(r) ==
    /\ IsSuite(r.suite) /\ r.outcomes \in Seq(Range(r.outcomes))
    /\ Len(r.outcomes) = Len(r.suite.scenarios) /\ Slots(r.outcomes, r.suite)

\* An entry of a manifest is of a scenario.
IsEntry(y) == y = [id |-> y.id, version |-> y.version, fingerprint |-> y.fingerprint,
                   fixture |-> y.fixture]

Kinds ==
    /\ runs \in Nat
    /\ outcomes \in Seq(Range(outcomes)) /\ attempts \in Seq(Range(attempts))
    /\ reports \in Seq(Range(reports)) /\ \A r \in DOMAIN reports : IsReport(reports[r])
    /\ suite # None => IsSuite(suite)
    /\ manifest # None => \A y \in manifest.entries : IsEntry(y)

\* A batch under way has slots to fill, and what it filled tells what it tried.
Running == ~Idle =>
    /\ suite # None /\ Len(outcomes) < Len(suite.scenarios)
    /\ Slots(outcomes, suite) /\ SlotsTell(outcomes, attempts, suite)
    /\ RunsApart(outcomes) /\ RunsPast(outcomes)

\* What the latest report tells, until the next batch starts.
Reported == phase = "reported" =>
    LET report == reports[Len(reports)]
    IN  reports # <<>> /\ SlotsTell(report.outcomes, attempts, report.suite)
        /\ RunsApart(report.outcomes)

\* All of a suite's scenarios are registered as they are.
Known(u, held) == \A i \in DOMAIN u.scenarios :
    LET s == u.scenarios[i]
    IN  Key(s) \in DOMAIN held /\ held[Key(s)] = s.content

\* Unless the host goes past it, the registry knows all that was built or run.
AllKnown == ~bypassed =>
    /\ suite # None => Known(suite, registry)
    /\ \A r \in DOMAIN reports : Known(reports[r].suite, registry)

EInv == Kinds /\ Running /\ Reported /\ AllKnown

----------------------------------------------------------------------------
(* The operators *)

\* A scenario with a larger id has more before it.
LEMMA MoreBefore ==
    ASSUME NEW S \in SUBSET Scenarios, IsFiniteSet(S), NEW d \in S, NEW e \in S, d.id < e.id
    PROVE  Cardinality({t \in S : t.id < d.id}) < Cardinality({t \in S : t.id < e.id})
<1> DEFINE D == {t \in S : t.id < d.id}
           E == {t \in S : t.id < e.id}
<1>1. IsFiniteSet(D) /\ IsFiniteSet(E) /\ Cardinality(D) \in Nat /\ Cardinality(E) \in Nat
    BY FS_Subset, FS_CardinalityType
<1>2. d \notin D /\ d \in E
    BY EvaluationAssumption
<1>3. D \subseteq E
  <2> SUFFICES ASSUME NEW t \in S, t.id < d.id PROVE t.id < e.id
    OBVIOUS
  <2>1. t.id \in Nat /\ d.id \in Nat /\ e.id \in Nat
    BY EvaluationAssumption
  <2> QED BY <2>1
<1>4. Cardinality(D \cup {d}) = Cardinality(D) + 1
    BY <1>1, <1>2, FS_AddElement
<1>5. Cardinality(D \cup {d}) <= Cardinality(E)
    BY <1>1, <1>2, <1>3, FS_Subset
<1> HIDE DEF D, E
<1>6. Cardinality(D) < Cardinality(E)
    BY <1>1, <1>4, <1>5
<1> QED BY <1>6 DEF D, E

\* A suite in order holds each of its scenarios once.
LEMMA InOrderLists ==
    ASSUME NEW S \in SUBSET Scenarios, IsFiniteSet(S), OnePerCase(S)
    PROVE  LET q == InOrder(S)
           IN  /\ q \in [1..Cardinality(S) -> S]
               /\ \A i, j \in 1..Cardinality(S) : i # j => q[i].id # q[j].id
<1> DEFINE rank(s) == Cardinality({t \in S : t.id < s.id})
           n == Cardinality(S)
           f == [s \in S |-> rank(s) + 1]
<1>1. n \in Nat
    BY FS_CardinalityType
<1>2. ASSUME NEW s \in S PROVE rank(s) \in Nat /\ rank(s) + 1 \in 1..n
  <2>1. {t \in S : t.id < s.id} \subseteq S \ {s}
    BY EvaluationAssumption
  <2>2. IsFiniteSet(S \ {s}) /\ Cardinality(S \ {s}) = n - 1
    BY FS_RemoveElement
  <2>3. rank(s) \in Nat /\ rank(s) <= n - 1
    BY <2>1, <2>2, FS_Subset, FS_CardinalityType
  <2> HIDE DEF rank, n
  <2> QED BY <1>1, <2>3
<1>3. ASSUME NEW s \in S, NEW t \in S, s # t PROVE rank(s) # rank(t)
  <2>1. s.id \in Nat /\ t.id \in Nat /\ s.id # t.id
    BY <1>3, EvaluationAssumption DEF OnePerCase
  <2>2. s.id < t.id \/ t.id < s.id
    BY <2>1
  <2>3. rank(s) < rank(t) \/ rank(t) < rank(s)
    BY <2>2, MoreBefore
  <2>4. rank(s) \in Nat /\ rank(t) \in Nat
    BY <1>2
  <2> HIDE DEF rank
  <2> QED BY <2>3, <2>4
<1>4. f \in Injection(S, 1..n)
  <2>1. f \in [S -> 1..n]
    BY <1>2
  <2>2. ASSUME NEW s \in S, NEW t \in S, s # t PROVE f[s] # f[t]
    <3>1. rank(s) \in Nat /\ rank(t) \in Nat /\ rank(s) # rank(t)
      BY <1>2, <1>3, <2>2
    <3>2. f[s] = rank(s) + 1 /\ f[t] = rank(t) + 1
      OBVIOUS
    <3> HIDE DEF f, rank
    <3> QED BY <3>1, <3>2
  <2> HIDE DEF f, n
  <2> QED BY <2>1, <2>2, Zenon DEF Injection, IsInjective
<1>5. IsFiniteSet(1..n) /\ Cardinality(1..n) = n
    BY <1>1, FS_Interval
<1>6. f \in Surjection(S, 1..n)
  <2> HIDE DEF f
  <2> QED BY <1>4, <1>5, FS_Injection
<1>7. ASSUME NEW i \in 1..n PROVE \E s \in S : rank(s) = i - 1
  <2>1. PICK s \in S : f[s] = i
    BY <1>6, Zenon DEF Surjection
  <2>2. rank(s) \in Nat /\ f[s] = rank(s) + 1
    BY <1>2
  <2> HIDE DEF f, rank
  <2> QED BY <1>1, <2>1, <2>2
<1> DEFINE q == InOrder(S)
<1>8. q = [i \in 1..n |-> CHOOSE s \in S : rank(s) = i - 1]
    BY DEF InOrder
<1>9. ASSUME NEW i \in 1..n PROVE q[i] \in S /\ rank(q[i]) = i - 1
  <2> HIDE DEF rank
  <2> QED BY <1>7, <1>8
<1>10. ASSUME NEW i \in 1..n, NEW j \in 1..n, i # j PROVE q[i].id # q[j].id
  <2>1. rank(q[i]) # rank(q[j])
    BY <1>1, <1>9, <1>10
  <2> QED BY <1>9, <2>1 DEF OnePerCase
<1>11. q \in [1..n -> S]
  <2> HIDE DEF rank
  <2> QED BY <1>8, <1>9
<1> QED BY <1>10, <1>11

\* The three checks.
LEMMA ThreeChecks == IsFiniteSet(Checks) /\ Cardinality(Checks) = 3
<1>1. IsFiniteSet({}) /\ Cardinality({}) = 0
    BY FS_EmptySet
<1>2. IsFiniteSet({} \cup {"tool_selection"}) /\ Cardinality({} \cup {"tool_selection"}) = 1
    BY <1>1, FS_AddElement
<1> DEFINE one == {} \cup {"tool_selection"}
<1>3. IsFiniteSet(one \cup {"answer_facts"}) /\ Cardinality(one \cup {"answer_facts"}) = 2
    BY <1>2, FS_AddElement
<1> DEFINE two == one \cup {"answer_facts"}
<1>4. IsFiniteSet(two \cup {"evidence_grounding"}) /\ Cardinality(two \cup {"evidence_grounding"}) = 3
    BY <1>3, FS_AddElement
<1>5. Checks = two \cup {"evidence_grounding"}
    BY DEF Checks
<1> QED BY <1>4, <1>5

\* A scored answer passes exactly when it is right, and then with full score.
LEMMA EvaluateTells ==
    ASSUME NEW s \in Scenarios, NEW seen, NEW run \in Nat
    PROVE  LET r == Evaluate(s, seen, run)
           IN  /\ r \in Results /\ Key(r) = Key(s) /\ r.run = run
               /\ r.passed = (r.score = 3)
               /\ r.passed <=> Right(s.content, seen)
<1> DEFINE failures == {c \in Checks : ~Passes(c, s.content, seen)}
           score == Cardinality(Checks \ failures)
           r == Evaluate(s, seen, run)
<1>1. r = [id |-> s.id, version |-> s.version, passed |-> failures = {}, score |-> score,
           reasons |-> failures, run |-> run]
    BY DEF Evaluate, Result
<1>2. score \in 0..3 /\ (score = 3 <=> failures = {})
  <2>1. Checks \ failures \in SUBSET Checks
    OBVIOUS
  <2>2. score \in Nat /\ score <= 3 /\ (score = 3 => Checks \ failures = Checks)
    BY <2>1, ThreeChecks, FS_Subset, FS_CardinalityType
  <2>3. failures = {} => score = 3
    BY ThreeChecks
  <2>4. Checks \ failures = Checks => failures = {}
    OBVIOUS
  <2> HIDE DEF failures, score
  <2> QED BY <2>2, <2>3, <2>4
<1>3. failures = {} <=> Right(s.content, seen)
  <2> DEFINE content == s.content
             asked == [i \in DOMAIN seen.calls |-> seen.calls[i].tool]
  <2>1. failures = {} <=> asked = content.tools /\ seen.facts = content.expected
                          /\ Grounded(content, seen)
    <3>1. /\ Passes("tool_selection", content, seen) <=> asked = content.tools
          /\ Passes("answer_facts", content, seen) <=> seen.facts = content.expected
          /\ Passes("evidence_grounding", content, seen) <=> Grounded(content, seen)
      BY DEF Passes
    <3>2. failures = {} <=> /\ Passes("tool_selection", content, seen)
                            /\ Passes("answer_facts", content, seen)
                            /\ Passes("evidence_grounding", content, seen)
      BY Zenon DEF Checks
    <3> HIDE DEF failures
    <3> QED BY <3>1, <3>2, Zenon
  <2>2. ASSUME asked = content.tools, seen.facts = content.expected, Grounded(content, seen)
        PROVE  Right(content, seen)
    BY <2>2 DEF Right, Grounded, Range
  <2>3. ASSUME Right(content, seen)
        PROVE  asked = content.tools /\ seen.facts = content.expected /\ Grounded(content, seen)
    <3>1. asked = content.tools /\ seen.facts = content.expected
      BY <2>3 DEF Right
    <3>2. seen.facts # None
      BY <3>1, EvaluationAssumption
    <3>3. ASSUME NEW i \in DOMAIN seen.calls
          PROVE  seen.calls[i] \in Range(seen.calls) /\ seen.calls[i].tool \in Range(content.tools)
      <4>1. seen.calls[i].tool = asked[i] /\ i \in DOMAIN asked
        OBVIOUS
      <4> QED BY <3>1, <4>1, Zenon DEF Range
    <3>4. Grounded(content, seen)
      BY <2>3, <3>1, <3>2, <3>3 DEF Right, Grounded
    <3> QED BY <3>1, <3>4
  <2> QED BY <2>1, <2>2, <2>3
<1>4. r \in Results
  <2>1. failures \in SUBSET Reasons
    BY DEF Reasons
  <2> HIDE DEF failures, score
  <2> QED BY <1>1, <1>2, <2>1, EvaluationAssumption DEF Results
<1> HIDE DEF failures, score
<1>5. Key(r) = Key(s) /\ r.run = run /\ r.passed = (failures = {}) /\ r.score = score
    BY <1>1 DEF Key
<1> QED BY <1>2, <1>3, <1>4, <1>5

----------------------------------------------------------------------------
(* The steps *)

\* What appending to a sequence does.
LEMMA Appends ==
    ASSUME NEW q, q \in Seq(Range(q)), NEW e
    PROVE  LET p == Append(q, e)
           IN  /\ p \in Seq(Range(p)) /\ p # <<>> /\ Len(q) \in Nat /\ Len(p) = Len(q) + 1
               /\ DOMAIN q = 1..Len(q) /\ DOMAIN p = 1..(Len(q) + 1)
               /\ \A i \in DOMAIN q : i \in DOMAIN p /\ p[i] = q[i]
               /\ p[Len(q) + 1] = e
               /\ \A i \in DOMAIN p : i \in DOMAIN q \/ i = Len(q) + 1
<1> DEFINE V == Range(q) \cup {e}
           p == Append(q, e)
<1>1. q \in Seq(V) /\ e \in V
    OBVIOUS
<1> HIDE DEF V
<1>2. /\ p \in Seq(V) /\ Len(q) \in Nat /\ Len(p) = Len(q) + 1
      /\ DOMAIN q = 1..Len(q) /\ DOMAIN p = 1..(Len(q) + 1)
      /\ \A i \in 1..Len(q) : p[i] = q[i]
      /\ p[Len(q) + 1] = e
    BY <1>1
<1>3. p \in Seq(Range(p))
  <2>1. \A i \in 1..Len(p) : p[i] \in Range(p)
    BY <1>2 DEF Range
  <2> HIDE DEF p
  <2> QED BY <1>2, <2>1
<1>4. p # <<>>
    BY <1>2
<1>5. Len(q) + 1 \in 1..(Len(q) + 1) /\ \A i \in 1..Len(q) : i \in 1..(Len(q) + 1)
    BY <1>2
<1>6. \A i \in 1..(Len(q) + 1) : i \in 1..Len(q) \/ i = Len(q) + 1
    BY <1>2
<1> HIDE DEF p
<1> QED BY <1>2, <1>3, <1>4, <1>5, <1>6, Zenon DEF p

\* Before anything runs.
LEMMA InitEInv == Init => EInv
<1> SUFFICES ASSUME Init PROVE EInv
    OBVIOUS
<1> USE DEF Init
<1>1. <<>> \in Seq(Range(<<>>))
    BY DEF Range
<1>2. Kinds
    BY <1>1 DEF Kinds
<1>3. Running /\ Reported /\ AllKnown
    BY DEF Running, Idle, Reported, AllKnown
<1> QED BY <1>2, <1>3 DEF EInv

\* A step of the host that changes neither the suite, the manifest nor what was run.
LEMMA RegisterStep ==
    ASSUME EInv, NEW s \in Scenarios, Register(s), Idle
    PROVE  EInv'
<1> USE DEF Register, batch
<1>1. Kinds'
    BY DEF EInv, Kinds
<1>2. Running' /\ Reported'
    BY DEF EInv, Running, Reported, Idle
<1>3. ASSUME NEW u, Known(u, registry) PROVE Known(u, registry')
    BY <1>3 DEF Known
<1>4. AllKnown'
    BY <1>3 DEF EInv, AllKnown
<1> QED BY <1>1, <1>2, <1>4 DEF EInv

\* A suite that was built is one.
LEMMA Built ==
    ASSUME NEW S \in SUBSET Scenarios, IsFiniteSet(S), Cardinality(S) \in 1..MaxScenarios,
           OnePerCase(S), NEW d
    PROVE  LET u == [definition |-> d, scenarios |-> InOrder(S)]
           IN  IsSuite(u) /\ (S \subseteq Registered => Known(u, registry))
<1> DEFINE q == InOrder(S)
           n == Cardinality(S)
           u == [definition |-> d, scenarios |-> q]
<1>1. n \in Nat /\ n >= 1
    BY EvaluationAssumption
<1>2. q \in [1..n -> S] /\ \A i, j \in 1..n : i # j => q[i].id # q[j].id
    BY InOrderLists
<1> HIDE DEF q, n
<1>3. q \in Seq(Scenarios) /\ q # <<>> /\ DOMAIN q = 1..n
    BY <1>1, <1>2
<1>4. u.scenarios = q /\ u.definition = d
    OBVIOUS
<1>5. IsSuite(u)
    BY <1>2, <1>3, <1>4 DEF IsSuite
<1>6. ASSUME S \subseteq Registered PROVE Known(u, registry)
    BY <1>2, <1>3, <1>4, <1>6 DEF Known, Registered
<1> QED BY <1>5, <1>6 DEF q

\* A suite is built.
LEMMA BuildSuiteStep ==
    ASSUME EInv, BuildSuite, Idle
    PROVE  EInv'
<1> USE DEF batch
<1>1. PICK d \in Definitions, S \in SUBSET Scenarios :
        /\ IsFiniteSet(S) /\ Cardinality(S) \in 1..MaxScenarios /\ OnePerCase(S)
        /\ suite' = [definition |-> d, scenarios |-> InOrder(S)]
        /\ bypassed' = (bypassed \/ ~(S \subseteq Registered))
        /\ UNCHANGED <<registry, manifest, reports, batch>>
    BY DEF BuildSuite
<1>2. IsSuite(suite') /\ (S \subseteq Registered => Known(suite', registry))
    BY <1>1, Built
<1>3. Kinds'
    BY <1>1, <1>2 DEF EInv, Kinds
<1>4. Running' /\ Reported'
    BY <1>1 DEF EInv, Running, Reported, Idle
<1>5. ASSUME NEW u, Known(u, registry) PROVE Known(u, registry')
    BY <1>1, <1>5 DEF Known
<1>6. AllKnown'
    BY <1>1, <1>2, <1>5, Zenon DEF EInv, AllKnown
<1> QED BY <1>3, <1>4, <1>6 DEF EInv

\* A suite that is read back is the suite that was written.
LEMMA ReadSuiteStep ==
    ASSUME EInv, ReadSuite, Idle
    PROVE  EInv'
<1> USE DEF batch
<1>1. PICK i \in DOMAIN suite.scenarios :
        /\ suite' = [suite EXCEPT !.scenarios[i].content = suite.scenarios[i].content]
        /\ suite # None /\ UNCHANGED <<registry, bypassed, manifest, reports, batch>>
    BY DEF ReadSuite, Reads
<1> DEFINE q == suite.scenarios
           s == q[i]
<1>2. IsSuite(suite)
    BY <1>1 DEF EInv, Kinds
<1>3. s \in Scenarios /\ q \in Seq(Scenarios)
    BY <1>2 DEF IsSuite
<1>4. [s EXCEPT !.content = s.content] = s
  <2>1. s = [id |-> s.id, version |-> s.version, content |-> s.content]
    BY <1>3, EvaluationAssumption
  <2> QED BY <1>1, <2>1
<1>5. [q EXCEPT ![i] = s] = q
    BY <1>3
<1>6. [suite EXCEPT !.scenarios = q] = suite
    BY <1>2 DEF IsSuite
<1>7. suite' = suite
    BY <1>1, <1>4, <1>5, <1>6
<1>8. Kinds' /\ Running' /\ Reported' /\ AllKnown'
    BY <1>1, <1>7 DEF EInv, Kinds, Running, Reported, AllKnown, Idle, Known
<1> QED BY <1>8 DEF EInv

\* A manifest is taken.
LEMMA TakeManifestStep ==
    ASSUME EInv, TakeManifest, Idle
    PROVE  EInv'
<1> USE DEF batch
<1>1. \A y \in manifest'.entries : IsEntry(y)
    BY DEF TakeManifest, IsEntry
<1>2. UNCHANGED <<registry, bypassed, suite, reports, batch>>
    BY DEF TakeManifest
<1>3. Kinds'
    BY <1>1, <1>2 DEF EInv, Kinds
<1>4. Running' /\ Reported'
    BY <1>2 DEF EInv, Running, Reported, Idle
<1>5. AllKnown'
    BY <1>2 DEF EInv, AllKnown, Known
<1> QED BY <1>3, <1>4, <1>5 DEF EInv

\* A batch starts, with every slot to fill.
LEMMA StartStep ==
    ASSUME EInv, Start
    PROVE  EInv'
<1> USE DEF host
<1>1. /\ phase' = "session" /\ outcomes' = <<>> /\ attempts' = <<>> /\ suite # None
      /\ UNCHANGED <<host, runs>>
    BY DEF Start
<1>2. IsSuite(suite)
    BY <1>1 DEF EInv, Kinds
<1>3. Len(suite.scenarios) \in Nat /\ Len(suite.scenarios) > 0
    BY <1>2 DEF IsSuite
<1>4. <<>> \in Seq(Range(<<>>)) /\ Len(<<>>) = 0 /\ DOMAIN <<>> = {}
    BY DEF Range
<1>5. Kinds'
    BY <1>1, <1>4 DEF EInv, Kinds
<1>6. Running'
    BY <1>1, <1>3, <1>4 DEF Running, Slots, SlotsTell, RunsApart, RunsPast
<1>7. Reported'
    BY <1>1 DEF Reported
<1>8. AllKnown'
    BY <1>1 DEF EInv, AllKnown, Known
<1> QED BY <1>5, <1>6, <1>7, <1>8 DEF EInv

\* A session opens: the batch stays where it is.
LEMMA SessionStep ==
    ASSUME EInv, Session
    PROVE  EInv'
<1> USE DEF host
<1>1. /\ phase = "session" /\ phase' = "turns"
      /\ UNCHANGED <<host, outcomes, attempts, runs>>
    BY DEF Session
<1>2. Kinds'
    BY <1>1 DEF EInv, Kinds
<1>3. Running'
    BY <1>1 DEF EInv, Running, Idle, RunsPast
<1>4. Reported'
    BY <1>1 DEF Reported
<1>5. AllKnown'
    BY <1>1 DEF EInv, AllKnown, Known
<1> QED BY <1>2, <1>3, <1>4, <1>5 DEF EInv

\* A context turn is answered: a run more, and no slot.
LEMMA AnswerContextStep ==
    ASSUME EInv, AnswerContext
    PROVE  EInv'
<1> USE DEF host
<1>1. /\ phase = "turns" /\ phase' = phase /\ runs' = runs + 1
      /\ UNCHANGED <<host, outcomes, attempts>>
    BY DEF AnswerContext
<1>2. runs \in Nat
    BY DEF EInv, Kinds
<1>3. Kinds'
    BY <1>1, <1>2 DEF EInv, Kinds
<1>4. ~Idle /\ Running
    BY <1>1 DEF Idle, EInv
<1>5. ASSUME NEW i \in DOMAIN outcomes, HasRun(outcomes[i])
      PROVE  outcomes[i].result.run <= runs + 1
  <2>1. outcomes[i].result.run \in Nat /\ outcomes[i].result.run <= runs
    BY <1>4, <1>5 DEF Running, RunsPast, HasRun, Slots, IsSlot, Results
  <2> QED BY <1>2, <2>1
<1>6. RunsPast(outcomes)'
    BY <1>1, <1>5 DEF RunsPast
<1>7. Running'
    BY <1>1, <1>4, <1>6 DEF Running
<1>8. Reported'
    BY <1>1 DEF Reported
<1>9. AllKnown'
    BY <1>1 DEF EInv, AllKnown, Known
<1> QED BY <1>3, <1>7, <1>8, <1>9 DEF EInv

\* The batch is left.
LEMMA InterruptStep ==
    ASSUME EInv, Interrupt
    PROVE  EInv'
<1> USE DEF host
<1>1. /\ phase' = "interrupted" /\ outcomes' = <<>> /\ attempts' = <<>>
      /\ UNCHANGED <<host, runs>>
    BY DEF Interrupt
<1>2. <<>> \in Seq(Range(<<>>))
    BY DEF Range
<1>3. Kinds'
    BY <1>1, <1>2 DEF EInv, Kinds
<1>4. Running' /\ Reported'
    BY <1>1 DEF Running, Reported, Idle
<1>5. AllKnown'
    BY <1>1 DEF EInv, AllKnown, Known
<1> QED BY <1>3, <1>4, <1>5 DEF EInv

\* A scenario is over.  Its result is its own, tells how its attempt ended, and
\* has the run of a turn asked since the last slot was filled, or none.
LEMMA FinishStep ==
    ASSUME EInv, ~Idle, NEW result, NEW ending, Finish(result, ending), runs' \in Nat,
           runs <= runs',
           result # None =>
             /\ result \in Results /\ Key(result) = Key(Scenario)
             /\ result.run # None => result.run = runs' /\ runs < runs',
           ResultTells(result, Scenario, ending)
    PROVE  EInv'
<1> DEFINE n == Len(outcomes)
           slot == Slot(result)
<1>1. /\ outcomes' = Append(outcomes, slot) /\ attempts' = Append(attempts, ending)
      /\ UNCHANGED <<registry, bypassed, suite, manifest>>
    BY DEF Finish
<1>7. slot = [position |-> n + 1, id |-> Scenario.id, version |-> Scenario.version,
              fingerprint |-> Scenario.content, result |-> result]
    BY DEF Slot, Position, Fingerprint
<1> HIDE DEF slot
<1>2. /\ Kinds /\ suite # None /\ n < Len(suite.scenarios) /\ Slots(outcomes, suite)
      /\ SlotsTell(outcomes, attempts, suite) /\ RunsApart(outcomes) /\ RunsPast(outcomes)
    BY DEF EInv, Running
<1>3. outcomes \in Seq(Range(outcomes)) /\ attempts \in Seq(Range(attempts))
    BY <1>2 DEF Kinds
<1>4. /\ outcomes' \in Seq(Range(outcomes')) /\ outcomes' # <<>>
      /\ n \in Nat /\ Len(outcomes') = n + 1
      /\ DOMAIN outcomes = 1..n /\ DOMAIN outcomes' = 1..(n + 1)
      /\ \A i \in DOMAIN outcomes : i \in DOMAIN outcomes' /\ outcomes'[i] = outcomes[i]
      /\ outcomes'[n + 1] = slot
      /\ \A i \in DOMAIN outcomes' : i \in DOMAIN outcomes \/ i = n + 1
    BY <1>1, <1>3, Appends, Zenon
<1>5. Len(attempts) = n
    BY <1>2 DEF SlotsTell
<1>6. /\ attempts' \in Seq(Range(attempts')) /\ Len(attempts') = n + 1
      /\ \A i \in DOMAIN attempts : attempts'[i] = attempts[i]
      /\ attempts'[n + 1] = ending /\ DOMAIN attempts = 1..n
  <2>1. /\ attempts' \in Seq(Range(attempts')) /\ Len(attempts') = Len(attempts) + 1
        /\ \A i \in DOMAIN attempts : attempts'[i] = attempts[i]
        /\ attempts'[Len(attempts) + 1] = ending /\ DOMAIN attempts = 1..Len(attempts)
    BY <1>1, <1>3, Appends, Zenon
  <2> QED BY <1>5, <2>1
<1>8. Scenario = suite.scenarios[n + 1]
    BY DEF Scenario, Position
<1> HIDE DEF n
<1>9. Slots(outcomes', suite)
  <2>1. IsSlot(slot, n + 1, suite.scenarios[n + 1])
    BY <1>7, <1>8 DEF IsSlot
  <2>2. ASSUME NEW i \in DOMAIN outcomes PROVE IsSlot(outcomes'[i], i, suite.scenarios[i])
    BY <1>2, <1>4 DEF Slots
  <2> QED BY <1>4, <2>1, <2>2, Zenon DEF Slots
<1>10. SlotsTell(outcomes', attempts', suite)
  <2>1. ResultTells(slot.result, suite.scenarios[n + 1], attempts'[n + 1])
    BY <1>6, <1>7, <1>8
  <2>2. ASSUME NEW i \in DOMAIN outcomes
        PROVE  ResultTells(outcomes'[i].result, suite.scenarios[i], attempts'[i])
    <3>1. ResultTells(outcomes[i].result, suite.scenarios[i], attempts[i])
      BY <1>2 DEF SlotsTell
    <3>2. outcomes'[i] = outcomes[i] /\ attempts'[i] = attempts[i]
      BY <1>4, <1>6
    <3> QED BY <3>1, <3>2
  <2>3. Len(outcomes') = Len(attempts')
    BY <1>4, <1>6
  <2> QED BY <1>4, <2>1, <2>2, <2>3, Zenon DEF SlotsTell
<1>11. ASSUME NEW i \in DOMAIN outcomes, HasRun(outcomes[i])
       PROVE  outcomes[i].result.run \in Nat /\ outcomes[i].result.run <= runs
  <2>1. outcomes[i].result \in Results
    BY <1>2, <1>11 DEF Slots, IsSlot, HasRun
  <2> QED BY <1>2, <1>11, <2>1 DEF RunsPast, HasRun, Results
<1>12. runs \in Nat
    BY <1>2 DEF Kinds
<1>13. HasRun(slot) => slot.result.run = runs' /\ runs < runs'
    BY <1>7 DEF HasRun
<1>14. RunsApart(outcomes')
  <2>1. ASSUME NEW i \in DOMAIN outcomes, HasRun(outcomes[i]), HasRun(slot)
        PROVE  outcomes[i].result.run # slot.result.run
    BY <1>11, <1>12, <1>13, <2>1
  <2> SUFFICES ASSUME NEW i \in DOMAIN outcomes', NEW j \in DOMAIN outcomes', i # j,
                      HasRun(outcomes'[i]), HasRun(outcomes'[j])
               PROVE  outcomes'[i].result.run # outcomes'[j].result.run
    BY DEF RunsApart
  <2>2. CASE i \in DOMAIN outcomes /\ j \in DOMAIN outcomes
    BY <1>2, <1>4, <2>2 DEF RunsApart
  <2>3. CASE i \in DOMAIN outcomes /\ j = n + 1
    BY <1>4, <2>1, <2>3
  <2>4. CASE i = n + 1 /\ j \in DOMAIN outcomes
    BY <1>4, <2>1, <2>4
  <2> QED BY <1>4, <2>2, <2>3, <2>4
<1>15. RunsPast(outcomes)'
  <2>1. ASSUME NEW i \in DOMAIN outcomes', HasRun(outcomes'[i])
        PROVE  outcomes'[i].result.run <= runs'
    <3>1. CASE i \in DOMAIN outcomes
      BY <1>4, <1>11, <1>12, <2>1, <3>1
    <3>2. CASE i = n + 1
      BY <1>4, <1>13, <2>1, <3>2
    <3> QED BY <1>4, <3>1, <3>2
  <2> QED BY <2>1, Zenon DEF RunsPast
<1>16. IsSuite(suite)
    BY <1>2 DEF Kinds
<1>17. Len(suite.scenarios) \in Nat
    BY <1>16 DEF IsSuite
<1>18. CASE n + 1 = Len(suite.scenarios)
  <2> DEFINE report == [suite |-> suite, outcomes |-> outcomes']
  <2>1. phase' = "reported" /\ reports' = Append(reports, report)
    BY <1>18 DEF Finish, Position, n
  <2>2. reports \in Seq(Range(reports)) /\ \A r \in DOMAIN reports : IsReport(reports[r])
    BY <1>2 DEF Kinds
  <2>4. report.suite = suite /\ report.outcomes = outcomes'
    OBVIOUS
  <2> HIDE DEF report
  <2>3. /\ reports' \in Seq(Range(reports')) /\ reports' # <<>>
        /\ Len(reports) \in Nat /\ Len(reports') = Len(reports) + 1
        /\ \A r \in DOMAIN reports : reports'[r] = reports[r]
        /\ reports'[Len(reports) + 1] = report
        /\ \A r \in DOMAIN reports' : r \in DOMAIN reports \/ r = Len(reports) + 1
    BY <2>1, <2>2, Appends, Zenon
  <2>5. IsReport(report)
    BY <1>4, <1>9, <1>16, <1>18, <2>4 DEF IsReport
  <2>6. \A r \in DOMAIN reports' : IsReport(reports'[r])
    BY <2>2, <2>3, <2>5, Zenon
  <2>7. Kinds'
    BY <1>1, <1>2, <1>4, <1>6, <2>3, <2>6 DEF Kinds
  <2>8. Running'
    BY <2>1 DEF Running, Idle
  <2>9. Reported'
    BY <1>10, <1>14, <2>3, <2>4 DEF Reported
  <2>10. ASSUME ~bypassed'
         PROVE  \A r \in DOMAIN reports' : Known(reports'[r].suite, registry')
    <3>1. /\ Known(suite, registry)
          /\ \A r \in DOMAIN reports : Known(reports[r].suite, registry)
      BY <1>1, <1>2, <2>10 DEF EInv, AllKnown
    <3>2. registry' = registry
      BY <1>1
    <3> QED BY <2>3, <2>4, <3>1, <3>2, Zenon
  <2>11. AllKnown'
    BY <1>1, <1>2, <2>10 DEF EInv, AllKnown
  <2> QED BY <2>7, <2>8, <2>9, <2>11 DEF EInv
<1>19. CASE n + 1 # Len(suite.scenarios)
  <2>1. phase' = "session" /\ reports' = reports
    BY <1>19 DEF Finish, Position, n
  <2>2. Kinds'
    BY <1>1, <1>2, <1>4, <1>6, <2>1 DEF Kinds
  <2>3. Len(outcomes') < Len(suite.scenarios)
    BY <1>2, <1>4, <1>17, <1>19 DEF n
  <2>4. Running'
    BY <1>1, <1>2, <1>9, <1>10, <1>14, <1>15, <2>3 DEF Running
  <2>5. Reported'
    BY <2>1 DEF Reported
  <2>6. AllKnown'
    BY <1>1, <2>1 DEF EInv, AllKnown, Known
  <2> QED BY <2>2, <2>4, <2>5, <2>6 DEF EInv
<1> QED BY <1>18, <1>19

\* A session or a score that cannot be had is an error of the runner.
LEMMA NoResult ==
    ASSUME NEW s, NEW a, a.kind \in {"no_session", "not_scored"}
    PROVE  ResultTells(None, s, a)
BY DEF ResultTells

LEMMA NoSessionStep ==
    ASSUME EInv, NoSession
    PROVE  EInv'
<1>1. ResultTells(None, Scenario, [kind |-> "no_session"])
    BY NoResult
<1>2. ~Idle /\ runs' = runs /\ runs \in Nat
    BY DEF NoSession, Idle, EInv, Kinds
<1>3. Finish(None, [kind |-> "no_session"])
    BY DEF NoSession
<1> QED BY <1>1, <1>2, <1>3, FinishStep

\* The scenario being run is one, of a batch under way.
LEMMA AtScenario ==
    ASSUME EInv, ~Idle
    PROVE  Scenario \in Scenarios /\ runs \in Nat
<1>1. suite # None /\ Len(outcomes) < Len(suite.scenarios) /\ Kinds
    BY DEF EInv, Running
<1>2. IsSuite(suite) /\ outcomes \in Seq(Range(outcomes)) /\ runs \in Nat
    BY <1>1 DEF Kinds
<1>3. suite.scenarios \in Seq(Scenarios)
    BY <1>2 DEF IsSuite
<1> QED BY <1>1, <1>2, <1>3 DEF Scenario, Position

\* A failed turn is a failed evaluation, with the run it had.
LEMMA FailedTells ==
    ASSUME NEW s \in Scenarios, NEW run \in Nat \cup {None}
    PROVE  LET r == Result(s, {"execution_failure"}, 0, run)
           IN  /\ r # None => r \in Results /\ Key(r) = Key(s) /\ r.run = run
               /\ ResultTells(r, s, [kind |-> "failed", run |-> run])
<1> DEFINE r == Result(s, {"execution_failure"}, 0, run)
<1>1. r = [id |-> s.id, version |-> s.version, passed |-> FALSE, score |-> 0,
           reasons |-> {"execution_failure"}, run |-> run]
    BY DEF Result
<1>2. r \in Results
  <2>1. {"execution_failure"} \in SUBSET Reasons /\ 0 \in 0..3
    BY DEF Reasons
  <2>2. s.id \in Nat /\ s.version \in {t.version : t \in Scenarios}
    BY EvaluationAssumption
  <2> HIDE DEF r
  <2> QED BY <1>1, <2>1, <2>2 DEF Results
<1>3. r # None
    BY <1>2, EvaluationAssumption
<1>4. ResultTells(r, s, [kind |-> "failed", run |-> run])
  <2> DEFINE a == [kind |-> "failed", run |-> run]
  <2>1. r.passed = FALSE /\ (r.score = 3) = FALSE /\ r.run = run
    BY <1>1
  <2>2. a.run = run /\ a.kind \notin {"no_session", "not_scored", "scored"}
    OBVIOUS
  <2> HIDE DEF a, r
  <2>3. ResultTells(r, s, a)
    BY <1>3, <2>1, <2>2, Zenon DEF ResultTells
  <2> QED BY <2>3 DEF a
<1> QED BY <1>1, <1>2, <1>4 DEF Key

LEMMA FailTurnStep ==
    ASSUME EInv, FailTurn
    PROVE  EInv'
<1>1. ~Idle
    BY DEF FailTurn, Idle
<1>2. Scenario \in Scenarios /\ runs \in Nat
    BY <1>1, AtScenario
<1>3. CASE /\ runs' = runs + 1
           /\ Finish(Result(Scenario, {"execution_failure"}, 0, runs'),
                     [kind |-> "failed", run |-> runs'])
  <2> DEFINE r == Result(Scenario, {"execution_failure"}, 0, runs')
             a == [kind |-> "failed", run |-> runs']
  <2>1. runs' \in Nat /\ runs < runs' /\ runs <= runs'
    BY <1>2, <1>3
  <2>2. /\ r # None => r \in Results /\ Key(r) = Key(Scenario) /\ r.run = runs'
        /\ ResultTells(r, Scenario, a)
    BY <1>2, <2>1, FailedTells
  <2> HIDE DEF r, a
  <2> QED BY <1>1, <1>3, <2>1, <2>2, FinishStep DEF r, a
<1>4. CASE /\ runs' = runs
           /\ Finish(Result(Scenario, {"execution_failure"}, 0, None),
                     [kind |-> "failed", run |-> None])
  <2> DEFINE r == Result(Scenario, {"execution_failure"}, 0, None)
             a == [kind |-> "failed", run |-> None]
  <2>1. runs' \in Nat /\ runs <= runs'
    BY <1>2, <1>4
  <2>2. /\ r # None => r \in Results /\ Key(r) = Key(Scenario) /\ r.run = None
        /\ ResultTells(r, Scenario, a)
    BY <1>2, FailedTells
  <2> HIDE DEF r, a
  <2> QED BY <1>1, <1>4, <2>1, <2>2, FinishStep DEF r, a
<1> QED BY <1>3, <1>4 DEF FailTurn

LEMMA AnswerLastStep ==
    ASSUME EInv, NEW seen \in Observations, AnswerLast(seen)
    PROVE  EInv'
<1>1. ~Idle /\ runs' = runs + 1
    BY DEF AnswerLast, Idle
<1>2. Scenario \in Scenarios /\ runs \in Nat
    BY <1>1, AtScenario
<1>3. runs' \in Nat /\ runs < runs' /\ runs <= runs'
    BY <1>1, <1>2
<1> DEFINE r == Evaluate(Scenario, seen, runs')
           a == [kind |-> "scored", seen |-> seen, run |-> runs']
<1>4. CASE Finish(r, a)
  <2>1. /\ r \in Results /\ Key(r) = Key(Scenario) /\ r.run = runs'
        /\ r.passed = (r.score = 3)
        /\ r.passed <=> Right(Scenario.content, seen)
    BY <1>2, <1>3, EvaluateTells
  <2>2. r # None
    BY <2>1, EvaluationAssumption
  <2>3. a.kind = "scored" /\ a.seen = seen /\ a.run = runs'
    OBVIOUS
  <2> HIDE DEF r, a
  <2>4. ResultTells(r, Scenario, a)
    BY <2>1, <2>2, <2>3 DEF ResultTells
  <2> QED BY <1>1, <1>3, <1>4, <2>1, <2>4, FinishStep
<1>5. CASE Finish(None, [kind |-> "not_scored"])
  <2>1. ResultTells(None, Scenario, [kind |-> "not_scored"])
    BY NoResult
  <2> QED BY <1>1, <1>3, <1>5, <2>1, FinishStep
<1> QED BY <1>4, <1>5 DEF AnswerLast

\* EInv is an invariant of every behaviour.
THEOREM EInvHolds == Spec => []EInv
<1>1. ASSUME EInv, [Next]_vars PROVE EInv'
  <2>1. CASE UNCHANGED vars
    BY <1>1, <2>1 DEF vars, EInv, Kinds, Running, Reported, AllKnown, Idle, RunsPast
  <2>2. CASE Idle /\ Define
    BY <1>1, <2>2, RegisterStep, BuildSuiteStep, ReadSuiteStep, TakeManifestStep DEF Define
  <2>3. CASE Batch
    BY <1>1, <2>3, StartStep, NoSessionStep, SessionStep, FailTurnStep, AnswerContextStep,
       InterruptStep, AnswerLastStep DEF Batch
  <2> QED BY <1>1, <2>1, <2>2, <2>3 DEF Next
<1> QED BY InitEInv, <1>1, PTL DEF Spec

----------------------------------------------------------------------------
(* What a report tells *)

\* Each scenario of the suite had one session, an error exactly when it had no
\* result; a result is of its own run, and passes exactly when its answer is
\* right (BatchEvaluationRunner.run, run_evaluation_case, evaluate).
THEOREM TheBatchIsTold == Spec => []ReportTellsTheBatch
<1>1. ASSUME EInv PROVE ReportTellsTheBatch
  <2> SUFFICES ASSUME phase = "reported" PROVE ReportTellsTheBatch
    BY DEF ReportTellsTheBatch
  <2> DEFINE report == reports[Len(reports)]
  <2>1. /\ reports # <<>> /\ SlotsTell(report.outcomes, attempts, report.suite)
        /\ RunsApart(report.outcomes)
    BY <1>1 DEF EInv, Reported
  <2>2. reports \in Seq(Range(reports)) /\ \A r \in DOMAIN reports : IsReport(reports[r])
    BY <1>1 DEF EInv, Kinds
  <2>3. Len(reports) \in DOMAIN reports
    BY <2>1, <2>2
  <2>4. IsReport(report)
    BY <2>2, <2>3
  <2> HIDE DEF report
  <2>5. Len(report.outcomes) = Len(attempts) /\ Len(attempts) = Len(report.suite.scenarios)
    BY <2>1, <2>4 DEF SlotsTell, IsReport
  <2>6. /\ report.outcomes \in Seq(Range(report.outcomes))
        /\ attempts \in Seq(Range(attempts))
    BY <1>1, <2>4 DEF EInv, Kinds, IsReport
  <2>7. DOMAIN report.outcomes = DOMAIN attempts
    BY <2>5, <2>6
  <2>8. ASSUME NEW i \in DOMAIN attempts
        PROVE  LET s == report.suite.scenarios[i]
                   o == report.outcomes[i]
                   a == attempts[i]
               IN  /\ <<o.position, o.id, o.version>> = <<i, s.id, s.version>>
                   /\ o.result = None <=> a.kind \in {"no_session", "not_scored"}
                   /\ o.result # None =>
                        /\ o.result.run = a.run
                        /\ o.result.passed = (o.result.score = 3)
                        /\ o.result.passed <=> a.kind = "scored" /\ Right(s.content, a.seen)
    <3>1. ResultTells(report.outcomes[i].result, report.suite.scenarios[i], attempts[i])
      BY <2>1, <2>7 DEF SlotsTell
    <3>2. IsSlot(report.outcomes[i], i, report.suite.scenarios[i])
      BY <2>4, <2>7 DEF IsReport, Slots
    <3> QED BY <3>1, <3>2 DEF ResultTells, IsSlot
  <2>9. ASSUME NEW i \in DOMAIN attempts, NEW j \in DOMAIN attempts, i # j,
               report.outcomes[i].result # None, report.outcomes[j].result # None,
               report.outcomes[i].result.run # None
        PROVE  report.outcomes[i].result.run # report.outcomes[j].result.run
    BY <2>1, <2>7, <2>9 DEF RunsApart, HasRun
  <2> QED BY <2>5, <2>8, <2>9, Zenon DEF ReportTellsTheBatch, report
<1> QED BY EInvHolds, <1>1, PTL

----------------------------------------------------------------------------
(* What a passed gate compares *)

\* A result that was kept is that of a scenario of a suite that was run.
LEMMA MadeAt ==
    ASSUME EInv, NEW p \in Made
    PROVE  LET report == reports[p[1]]
           IN  /\ p[1] \in DOMAIN reports /\ p[2] \in DOMAIN report.suite.scenarios
               /\ IsSlot(report.outcomes[p[2]], p[2], report.suite.scenarios[p[2]])
               /\ ResultAt(p) \in Results
               /\ Key(ResultAt(p)) = Key(report.suite.scenarios[p[2]])
<1>1. PICK r \in DOMAIN reports :
        \E i \in DOMAIN reports[r].outcomes : reports[r].outcomes[i].result # None /\ p = <<r, i>>
    BY DEF Made
<1> PICK i \in DOMAIN reports[r].outcomes :
        reports[r].outcomes[i].result # None /\ p = <<r, i>>
    BY <1>1
<1>2. IsReport(reports[r])
    BY DEF EInv, Kinds
<1> DEFINE report == reports[r]
<1>3. i \in DOMAIN report.suite.scenarios
  <2>1. report.suite.scenarios \in Seq(Scenarios)
    BY <1>2 DEF IsReport, IsSuite
  <2> HIDE DEF report
  <2>2. DOMAIN report.outcomes = DOMAIN report.suite.scenarios
    BY <1>2, <2>1 DEF IsReport, report
  <2> QED BY <2>2 DEF report
<1>4. IsSlot(report.outcomes[i], i, report.suite.scenarios[i])
    BY <1>2 DEF IsReport, Slots
<1>5. p[1] = r /\ p[2] = i
    OBVIOUS
<1>6. ResultAt(p) = report.outcomes[i].result
    BY <1>5 DEF ResultAt
<1> HIDE DEF report
<1>7. ResultAt(p) \in Results /\ Key(ResultAt(p)) = Key(report.suite.scenarios[i])
    BY <1>4, <1>6 DEF IsSlot, report
<1> QED BY <1>3, <1>4, <1>5, <1>7 DEF report

\* A suite is compatible with a manifest when the manifest is of its scenarios.
LEMMA SameGround ==
    ASSUME NEW u, IsSuite(u), NEW m, \A y \in m.entries : IsEntry(y), CompatibleWith(u, m)
    PROVE  {Current(s) : s \in Range(u.scenarios)} = m.entries
<1> DEFINE S == Range(u.scenarios)
<1>1. /\ {x.id : x \in S} = {x.id : x \in m.entries}
      /\ \A s \in S, y \in m.entries : s.id = y.id => Current(s) = y
  <2>1. /\ {x.id : x \in S} = {x.id : x \in m.entries}
        /\ \A x \in {Current(s) : s \in S}, y \in m.entries :
              x.id = y.id => /\ x.version = y.version
                             /\ x.fingerprint = y.fingerprint
                             /\ x.fixture = y.fixture
    BY DEF CompatibleWith
  <2>2. ASSUME NEW s \in S, NEW y \in m.entries, s.id = y.id PROVE Current(s) = y
    <3> DEFINE x == Current(s)
    <3>1. x = [id |-> s.id, version |-> x.version, fingerprint |-> x.fingerprint,
               fixture |-> x.fixture]
      BY DEF Current
    <3>2. x \in {Current(t) : t \in S} /\ x.id = y.id
      BY <2>2 DEF Current
    <3>3. x.version = y.version /\ x.fingerprint = y.fingerprint /\ x.fixture = y.fixture
      BY <2>1, <3>2
    <3>4. y = [id |-> y.id, version |-> y.version, fingerprint |-> y.fingerprint,
               fixture |-> y.fixture]
      BY DEF IsEntry
    <3> HIDE DEF x
    <3> QED BY <2>2, <3>1, <3>3, <3>4 DEF x
  <2> QED BY <2>1, <2>2
<1>2. ASSUME NEW s \in S PROVE Current(s) \in m.entries
  <2>1. PICK y \in m.entries : y.id = s.id
    BY <1>1
  <2> QED BY <1>1, <2>1
<1>3. ASSUME NEW y \in m.entries PROVE y \in {Current(s) : s \in S}
  <2>1. PICK s \in S : s.id = y.id
    BY <1>1
  <2> QED BY <1>1, <2>1
<1> QED BY <1>2, <1>3

\* As many keys as results: no two results have one key.
LEMMA KeysApart ==
    ASSUME NEW n \in Nat, NEW results, results \in Seq(Range(results)), Len(results) = n,
           Len(results) = Cardinality(Keys(results)),
           NEW i \in 1..n, NEW j \in 1..n, Key(results[i]) = Key(results[j])
    PROVE  i = j
<1> DEFINE K == Keys(results)
           f == [k \in 1..n |-> Key(results[k])]
<1>1. DOMAIN results = 1..n
    OBVIOUS
<1>2. f \in Surjection(1..n, K)
  <2>1. f \in [1..n -> K]
    BY <1>1 DEF Keys, Range
  <2>2. ASSUME NEW y \in K PROVE \E k \in 1..n : f[k] = y
    BY <1>1 DEF Keys, Range
  <2> HIDE DEF f, K
  <2> QED BY <2>1, <2>2, Zenon DEF Surjection
<1>3. IsFiniteSet(1..n) /\ Cardinality(1..n) = n
    BY FS_Interval
<1>4. f \in Injection(1..n, K)
  <2>1. IsFiniteSet(K) /\ Cardinality(K) = Cardinality(1..n)
    <3> HIDE DEF f
    <3> QED BY <1>2, <1>3, FS_Surjection
  <2> HIDE DEF f, K
  <2> QED BY <1>2, <1>3, <2>1, FS_SurjSameCardinalityImpliesInj
<1>5. f[i] = f[j]
    OBVIOUS
<1> HIDE DEF f
<1> QED BY <1>4, <1>5, Zenon DEF Injection, IsInjective

\* A gate that passes compared each scenario with one result, of the same content
\* unless the host went past the registry, and found it no worse.
LEMMA PassedMeans ==
    ASSUME EInv, manifest # None, NEW n \in DOMAIN reports, NEW picked \in Kept,
           Verdict(reports[n], manifest, [i \in DOMAIN picked |-> ResultAt(picked[i])]) = "passed"
    PROVE  LET report == reports[n]
           IN  /\ {Current(s) : s \in Range(report.suite.scenarios)} = manifest.entries
               /\ \A i \in DOMAIN report.outcomes :
                    LET o    == report.outcomes[i]
                        from == {p \in Range(picked) : ResultAt(p).id = o.id}
                    IN  /\ o.result # None
                        /\ o.result.passed
                        /\ Cardinality(from) = 1
                        /\ \A p \in from :
                             /\ ResultAt(p).score <= o.result.score
                             /\ ~bypassed =>
                                   reports[p[1]].outcomes[p[2]].fingerprint = o.fingerprint
<1> DEFINE report == reports[n]
           u == report.suite
           results == [i \in DOMAIN picked |-> ResultAt(picked[i])]
<1>1. PICK k \in Nat : picked \in [1..k -> Made]
    BY EvaluationAssumption DEF Kept
<1>2. /\ results \in Seq(Range(results)) /\ Len(results) = k /\ DOMAIN results = 1..k
      /\ \A j \in 1..k : picked[j] \in Made /\ results[j] = ResultAt(picked[j])
  <2>1. DOMAIN results = 1..k /\ \A j \in 1..k : results[j] \in Range(results)
    BY <1>1 DEF Range
  <2>2. results \in [1..k -> Range(results)]
    BY <1>1, <2>1
  <2>3. \A j \in 1..k : picked[j] \in Made /\ results[j] = ResultAt(picked[j])
    BY <1>1
  <2> HIDE DEF results
  <2> QED BY <2>1, <2>2, <2>3
<1>3. /\ CompatibleWith(u, manifest) /\ Complete(results, manifest)
      /\ Against(report, results) = {}
  <2> HIDE DEF results, report
  <2>1. Verdict(report, manifest, results) = "passed"
    BY DEF results, report
  <2> QED BY <2>1 DEF Verdict
<1>4. IsReport(report) /\ \A y \in manifest.entries : IsEntry(y)
    BY DEF EInv, Kinds
<1> HIDE DEF results, report
<1>5. {Current(s) : s \in Range(u.scenarios)} = manifest.entries
    BY <1>3, <1>4, SameGround DEF IsReport
<1>6. ASSUME NEW i \in DOMAIN report.outcomes
      PROVE  LET o    == report.outcomes[i]
                 from == {p \in Range(picked) : ResultAt(p).id = o.id}
             IN  /\ o.result # None
                 /\ o.result.passed
                 /\ Cardinality(from) = 1
                 /\ \A p \in from :
                      /\ ResultAt(p).score <= o.result.score
                      /\ ~bypassed =>
                            reports[p[1]].outcomes[p[2]].fingerprint = o.fingerprint
  <2> DEFINE o == report.outcomes[i]
             s == u.scenarios[i]
             from == {p \in Range(picked) : ResultAt(p).id = o.id}
  <2>1. IsSlot(o, i, s)
    BY <1>4 DEF IsReport, Slots
  <2>2. u.scenarios \in Seq(Scenarios) /\ i \in DOMAIN u.scenarios
    <3>1. u.scenarios \in Seq(Scenarios) /\ Len(report.outcomes) = Len(u.scenarios)
      BY <1>4 DEF IsReport, IsSuite
    <3>2. report.outcomes \in Seq(Range(report.outcomes))
      BY <1>4 DEF IsReport
    <3> HIDE DEF u
    <3> QED BY <3>1, <3>2
  <2>3. s \in Scenarios /\ s \in Range(u.scenarios)
    BY <2>2 DEF Range
  <2>4. o.result # None /\ o.result.passed
    <3>1. o \in Range(report.outcomes)
      BY DEF Range
    <3>2. o.result # None
      BY <1>3, <3>1 DEF Against
    <3>3. o.result.passed
      BY <1>3, <3>1, <3>2 DEF Against
    <3> QED BY <3>2, <3>3
  <2>5. o.result \in Results /\ o.id = s.id /\ o.fingerprint = s.content
    BY <2>1, <2>4 DEF IsSlot
  <2>6. ASSUME NEW j \in 1..k, results[j].id = o.id
        PROVE  results[j].score <= o.result.score /\ Key(results[j]) = Key(s)
    <3>1. results[j] \in Range(results) /\ results[j] \in Results
      BY <1>2, MadeAt DEF Range
    <3>2. o \in Range(report.outcomes)
      BY DEF Range
    <3>3. Compare(results[j], o.result) # "regression"
      BY <1>3, <2>4, <2>6, <3>1, <3>2 DEF Against
    <3>4. results[j].score \in Nat /\ o.result.score \in Nat
      BY <2>5, <3>1 DEF Results
    <3>5. results[j].score <= o.result.score
      BY <3>3, <3>4 DEF Compare
    <3>6. PICK x \in manifest.entries : Key(results[j]) = Key(x)
      <4>1. Key(results[j]) \in Keys(results)
        BY <3>1 DEF Keys
      <4>2. Keys(results) = {Key(x) : x \in manifest.entries}
        BY <1>3 DEF Complete
      <4> QED BY <4>1, <4>2
    <3>7. PICK t \in Range(u.scenarios) : x = Current(t)
      BY <1>5
    <3>8. Key(x) = Key(t) /\ x.id = t.id
      BY <3>7 DEF Current, Key
    <3>9. t.id = s.id
      BY <2>5, <2>6, <3>6, <3>8 DEF Key
    <3>10. t = s
      BY <1>4, <2>2, <3>9 DEF IsReport, IsSuite, Range
    <3> QED BY <3>5, <3>6, <3>8, <3>10
  <2>7. PICK one \in 1..k : results[one].id = o.id
    <3>1. Current(s) \in manifest.entries
      BY <1>5, <2>3
    <3>2. Key(Current(s)) \in Keys(results)
      BY <1>3, <3>1 DEF Complete
    <3>3. PICK j \in 1..k : Key(results[j]) = Key(Current(s))
      BY <1>2, <3>2 DEF Keys, Range
    <3> QED BY <2>5, <3>3 DEF Key, Current
  <2>8. from = {picked[one]}
    <3>1. picked[one] \in from
      BY <1>1, <1>2, <2>7 DEF Range
    <3>2. ASSUME NEW p \in from PROVE p = picked[one]
      <4>1. PICK j \in 1..k : p = picked[j]
        BY <1>1 DEF Range
      <4>2. results[j].id = o.id
        BY <1>2, <4>1
      <4>3. Key(results[j]) = Key(results[one])
        BY <2>6, <2>7, <4>2
      <4>4. j = one
        BY <1>2, <1>3, <4>3, KeysApart DEF Complete
      <4> QED BY <4>1, <4>4
    <3> QED BY <3>1, <3>2
  <2>9. Cardinality(from) = 1
    BY <2>8, FS_Singleton
  <2>10. ASSUME NEW p \in from
         PROVE  /\ ResultAt(p).score <= o.result.score
                /\ ~bypassed => reports[p[1]].outcomes[p[2]].fingerprint = o.fingerprint
    <3>1. p = picked[one] /\ p \in Made /\ ResultAt(p) = results[one]
      BY <1>2, <2>8
    <3>2. results[one].score <= o.result.score /\ Key(results[one]) = Key(s)
      BY <2>6, <2>7
    <3> DEFINE earlier == reports[p[1]]
               t == earlier.suite.scenarios[p[2]]
    <3>3. /\ p[1] \in DOMAIN reports /\ p[2] \in DOMAIN earlier.suite.scenarios
          /\ IsSlot(earlier.outcomes[p[2]], p[2], t) /\ Key(ResultAt(p)) = Key(t)
      BY <3>1, MadeAt
    <3>4. Key(t) = Key(s) /\ earlier.outcomes[p[2]].fingerprint = t.content
      BY <3>1, <3>2, <3>3 DEF IsSlot
    <3>5. ASSUME ~bypassed PROVE t.content = s.content
      <4>1. Known(earlier.suite, registry) /\ Known(u, registry)
        BY <3>3, <3>5 DEF EInv, AllKnown, report
      <4>2. registry[Key(t)] = t.content
        BY <3>3, <4>1, Zenon DEF Known
      <4>3. registry[Key(s)] = s.content
        BY <2>2, <4>1, Zenon DEF Known
      <4> QED BY <3>4, <4>2, <4>3
    <3> QED BY <2>5, <3>1, <3>2, <3>4, <3>5
  <2> QED BY <2>4, <2>9, <2>10
<1> QED BY <1>5, <1>6, Zenon DEF report

\* A passed gate stands on equal ground: every scenario ran and passed, scored no
\* less than the one result it was compared with, and is the manifest's, that
\* result being of the same content unless the host built a suite past the
\* registry (compare_batch_to_baseline, ScenarioRegistry.register).
THEOREM GroundIsEqual == Spec => []PassedOnEqualGround
<1>1. ASSUME EInv PROVE PassedOnEqualGround
  <2> SUFFICES ASSUME reports # <<>>, manifest # None PROVE PassedOnEqualGround
    BY DEF PassedOnEqualGround
  <2>1. reports \in Seq(Range(reports))
    BY <1>1 DEF EInv, Kinds
  <2>2. Len(reports) \in DOMAIN reports
    BY <2>1
  <2> QED BY <1>1, <2>2, PassedMeans, Zenon DEF PassedOnEqualGround
<1> QED BY EInvHolds, <1>1, PTL

=============================================================================
