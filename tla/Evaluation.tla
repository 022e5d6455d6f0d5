----------------------------- MODULE Evaluation -----------------------------
(***************************************************************************)
(* copilot/evaluation.py, evaluation_runner.py, evaluation_suite.py and     *)
(* evaluation_batch.py: a host registers scenarios, freezes a suite of      *)
(* them, runs it one fresh session per scenario, keeps a manifest of a      *)
(* suite and some results as its baseline, and compares a later report with *)
(* it.  The host may mix what it keeps; it may also build a suite from      *)
(* scenarios it never registered.                                           *)
(*                                                                         *)
(* A content stands for everything a fingerprint covers, the fingerprint    *)
(* (a SHA-256 of it) for the content itself.  Scores are counted in thirds. *)
(***************************************************************************)
EXTENDS Integers, Sequences, FiniteSets, Functions

CONSTANTS
    Scenarios,      \* [id, version, content], the ids numbers, to be sorted, and
                    \* a content [context, tools, expected, paths, fixture]
    Definitions,    \* values of the four identity fields of a suite, together
    FirstScenarios, \* what may be registered when the host starts
    Observations,   \* [calls, facts]: of an answered turn
    MaxScenarios,   \* the largest suite
    MaxSessions,    \* bound: scenarios attempted, over all batches
    MaxSteps,       \* bound: registrations, suites and manifests made
    None

Checks == {"tool_selection", "answer_facts", "evidence_grounding"}
Reasons == Checks \cup {"execution_failure"}

\* The EvaluationResults there can be: run numbers stand for run identities.
Results == [id : Nat, version : {s.version : s \in Scenarios}, passed : BOOLEAN,
            score : 0..3, reasons : SUBSET Reasons, run : Nat \cup {None}]

ASSUME EvaluationAssumption ==
    /\ \A s \in Scenarios :
          /\ s = [id |-> s.id, version |-> s.version, content |-> s.content] /\ s.id \in Nat
          /\ s.content.context \in Nat /\ s.content.expected # None
    /\ MaxScenarios \in Nat \ {0} /\ MaxSessions \in Nat /\ MaxSteps \in Nat
    /\ None \notin Results

VARIABLES
    steps,     \* how much the host registered, built and took so far
    registry,  \* ScenarioRegistry._scenarios: [key -> content]
    bypassed,  \* history: some suite holds a scenario that was not registered
    suite,     \* the suite in use, None before one is built
    manifest,  \* the BaselineManifest, None before one is taken
    phase,     \* of BatchEvaluationRunner.run
    turn,      \* of the scenario being run, from 0
    outcomes,  \* of the scenarios run so far
    attempts,  \* history: how each session of the latest batch ended
    runs,      \* the turns run so far; each run_id is one of their numbers
    sessions,  \* the scenarios attempted so far
    reports    \* the BatchEvaluationReports made so far

vars == <<steps, registry, bypassed, suite, manifest, phase, turn, outcomes,
          attempts, runs, sessions, reports>>
host  == <<steps, registry, bypassed, suite, manifest, reports>>
batch == <<phase, turn, outcomes, attempts, runs, sessions>>

Init ==
    /\ registry \in FirstScenarios /\ steps = 0 /\ bypassed = FALSE
    /\ suite = None /\ manifest = None
    /\ phase = "idle" /\ turn = 0 /\ outcomes = <<>> /\ attempts = <<>>
    /\ runs = 0 /\ sessions = 0
    /\ reports = <<>>

----------------------------------------------------------------------------
(* Scoring *)

\* Mutant of Grounded: a fact whose path leads nowhere is let through.
GroundedIfFound(content, seen) ==
    seen.facts # None /\ \A n \in DOMAIN seen.facts :
        /\ n \in DOMAIN content.paths
        /\ \A call \in Range(seen.calls) :
              (/\ call.object # None
               /\ content.paths[n] \in DOMAIN call.object)
              => call.object[content.paths[n]] = seen.facts[n]

\* Every fact answered has a path, and some required tool recorded it there.
Grounded(content, seen) ==
    seen.facts # None /\ \A n \in DOMAIN seen.facts :
        /\ n \in DOMAIN content.paths
        /\ \E call \in Range(seen.calls) :
              /\ call.tool \in Range(content.tools)
              /\ call.object # None
              /\ content.paths[n] \in DOMAIN call.object
              /\ call.object[content.paths[n]] = seen.facts[n]

Passes(check, content, seen) ==
    \/ check = "tool_selection"
       /\ [i \in DOMAIN seen.calls |-> seen.calls[i].tool] = content.tools
    \/ check = "answer_facts" /\ seen.facts = content.expected
    \/ check = "evidence_grounding" /\ Grounded(content, seen)

Result(scenario, failures, score, run) ==
    [id |-> scenario.id, version |-> scenario.version, passed |-> failures = {},
     score |-> score, reasons |-> failures, run |-> run]

\* evaluate, of the last turn alone.
Evaluate(scenario, seen, run) ==
    LET failures == {c \in Checks : ~Passes(c, scenario.content, seen)}
    IN  Result(scenario, failures, Cardinality(Checks \ failures), run)

\* compare_results, of two results of one case and version.
Compare(previous, current) ==
    IF current.score > previous.score THEN "improvement"
    ELSE IF current.score < previous.score THEN "regression" ELSE "unchanged"

----------------------------------------------------------------------------
(* Definitions *)

Key(s) == <<s.id, s.version>>
Registered ==
    {s \in Scenarios : Key(s) \in DOMAIN registry /\ registry[Key(s)] = s.content}

OnePerCase(S) == \A s, t \in S : s.id = t.id => s = t

\* The scenarios of a suite, sorted by their keys; the versions never decide.
InOrder(S) ==
    [i \in 1..Cardinality(S) |->
        CHOOSE s \in S : Cardinality({t \in S : t.id < s.id}) = i - 1]

\* Mutant of Register: a second registration replaces the first.
RegisterOver(s) ==
    /\ registry' = [k \in DOMAIN registry \cup {Key(s)} |->
                        IF k = Key(s) THEN s.content ELSE registry[k]]
    /\ UNCHANGED <<bypassed, suite, manifest, reports, batch>>

\* register: a key that is taken is refused, and nothing changes.
Register(s) ==
    /\ Key(s) \notin DOMAIN registry
    /\ registry' = [k \in DOMAIN registry \cup {Key(s)} |->
                        IF k = Key(s) THEN s.content ELSE registry[k]]
    /\ UNCHANGED <<bypassed, suite, manifest, reports, batch>>

\* EvaluationSuite(...): snapshots of 1..MaxScenarios scenarios, one per case.
BuildSuite ==
    \E d \in Definitions, S \in SUBSET Scenarios :
        /\ IsFiniteSet(S) /\ Cardinality(S) \in 1..MaxScenarios /\ OnePerCase(S)
        /\ suite' = [definition |-> d, scenarios |-> InOrder(S)]
        /\ bypassed' = (bypassed \/ ~(S \subseteq Registered))
        /\ UNCHANGED <<registry, manifest, reports, batch>>

\* Mutant of Reads: the fingerprint in the text is not looked at.
ReadsAny(written, content) == TRUE

\* _scenario_from_payload: the content must be what its fingerprint is of.
Reads(written, content) == content = written.content

\* EvaluationSuite.from_json of the suite's own text, in which somebody may have
\* changed the content of one scenario: refused, or read as another suite.
ReadSuite ==
    /\ suite # None
    /\ \E i \in DOMAIN suite.scenarios, c \in {s.content : s \in Scenarios} :
         /\ Reads(suite.scenarios[i], c)
         /\ suite' = [suite EXCEPT !.scenarios[i].content = c]
    /\ UNCHANGED <<registry, bypassed, manifest, reports, batch>>

Fingerprint(scenario) == scenario.content

\* BaselineManifest.from_suite.
TakeManifest ==
    /\ suite # None
    /\ manifest' = [definition |-> suite.definition,
                    entries |-> {[id |-> s.id, version |-> s.version,
                                  fingerprint |-> Fingerprint(s),
                                  fixture |-> s.content.fixture] : s \in Range(suite.scenarios)}]
    /\ UNCHANGED <<registry, bypassed, suite, reports, batch>>

----------------------------------------------------------------------------
(* BatchEvaluationRunner.run: the scenarios of the suite, one after another *)

Idle == phase \notin {"session", "turns"}
Position == Len(outcomes) + 1
Scenario == suite.scenarios[Position]

Slot(result) ==
    [position |-> Position, id |-> Scenario.id, version |-> Scenario.version,
     fingerprint |-> Fingerprint(Scenario), result |-> result]

Start ==
    /\ Idle /\ suite # None
    /\ phase' = "session" /\ turn' = 0 /\ outcomes' = <<>> /\ attempts' = <<>>
    /\ UNCHANGED <<host, runs, sessions>>

\* The scenario is over: its slot is filled, and the report made after the last.
Finish(result, ending) ==
    /\ outcomes' = Append(outcomes, Slot(result))
    /\ attempts' = Append(attempts, ending)
    /\ turn' = 0
    /\ IF Position = Len(suite.scenarios)
       THEN /\ phase' = "reported"
            /\ reports' = Append(reports, [suite |-> suite, outcomes |-> outcomes'])
       ELSE phase' = "session" /\ UNCHANGED reports
    /\ UNCHANGED <<steps, registry, bypassed, suite, manifest>>

\* The factory is asked for a fresh session, once for each scenario.
Open == sessions < MaxSessions /\ sessions' = sessions + 1

NoSession ==
    /\ phase = "session" /\ Open
    /\ Finish(None, [kind |-> "no_session"])
    /\ UNCHANGED runs

Session ==
    /\ phase = "session" /\ Open /\ phase' = "turns"
    /\ UNCHANGED <<host, turn, outcomes, attempts, runs>>

\* Mutant of FailTurn: a failed turn counts as an error of the runner.
FailTurnAsError ==
    /\ phase = "turns"
    /\ runs' = runs + 1 /\ UNCHANGED sessions
    /\ Finish(None, [kind |-> "failed", run |-> runs'])

\* Mutant of FailTurn: the identity is that of the turn before.
FailTurnBefore ==
    /\ phase = "turns"
    /\ runs' = runs + 1 /\ UNCHANGED sessions
    /\ Finish(Result(Scenario, {"execution_failure"}, 0, IF turn = 0 THEN None ELSE runs),
              [kind |-> "failed", run |-> runs'])

\* ask_with_observability raises, context turns included: the other turns are
\* not asked.  It may raise before the run has begun, and then has no identity.
FailTurn ==
    /\ phase = "turns"
    /\ \/ /\ runs' = runs + 1
          /\ Finish(Result(Scenario, {"execution_failure"}, 0, runs'),
                    [kind |-> "failed", run |-> runs'])
       \/ /\ Finish(Result(Scenario, {"execution_failure"}, 0, None),
                    [kind |-> "failed", run |-> None])
          /\ UNCHANGED runs
    /\ UNCHANGED sessions

AnswerContext ==
    /\ phase = "turns" /\ turn < Scenario.content.context
    /\ turn' = turn + 1 /\ runs' = runs + 1
    /\ UNCHANGED <<host, phase, outcomes, attempts, sessions>>

\* The last turn is scored; scoring may itself raise, on an answer too deep.
AnswerLast(seen) ==
    /\ phase = "turns" /\ turn = Scenario.content.context
    /\ runs' = runs + 1 /\ UNCHANGED sessions
    /\ \/ Finish(Evaluate(Scenario, seen, runs'), [kind |-> "scored", seen |-> seen, run |-> runs'])
       \/ Finish(None, [kind |-> "not_scored"])

\* A BaseException leaves run: nothing is reported of the batch.
Interrupt ==
    /\ phase \in {"session", "turns"} /\ phase' = "interrupted"
    /\ turn' = 0 /\ outcomes' = <<>> /\ attempts' = <<>>
    /\ UNCHANGED <<host, runs, sessions>>

----------------------------------------------------------------------------
(* compare_batch_to_baseline *)

Current(s) == [id |-> s.id, version |-> s.version, fingerprint |-> Fingerprint(s),
               fixture |-> s.content.fixture]

\* Mutant of CompatibleWith: contents are not compared.
CompatibleByVersion(s, m) ==
    /\ s.definition = m.definition
    /\ {<<x.id, x.version, x.fixture>> : x \in {Current(y) : y \in Range(s.scenarios)}} =
       {<<x.id, x.version, x.fixture>> : x \in m.entries}

\* check_baseline_compatibility finds no reason: no other definition, nothing
\* added, removed or of another version, fingerprint or fixture.
CompatibleWith(s, m) ==
    /\ s.definition = m.definition
    /\ {x.id : x \in Range(s.scenarios)} = {x.id : x \in m.entries}
    /\ \A x \in {Current(y) : y \in Range(s.scenarios)}, y \in m.entries :
          x.id = y.id => /\ x.version = y.version
                         /\ x.fingerprint = y.fingerprint
                         /\ x.fixture = y.fixture

Keys(results) == {Key(r) : r \in Range(results)}

\* _baseline_results_by_identity: one result for each entry, and no other.
Complete(results, m) ==
    /\ Len(results) = Cardinality(Keys(results))
    /\ Keys(results) = {Key(x) : x \in m.entries}

\* What stands against passing, by case.
Against(report, results) ==
    LET ran == {o \in Range(report.outcomes) : o.result # None}
    IN  {<<"runner_error", o.id>> : o \in Range(report.outcomes) \ ran}
        \cup {<<"failed_evaluation", o.id>> : o \in {x \in ran : ~x.result.passed}}
        \cup {<<"regression", o.id>> : o \in {x \in ran : \E r \in Range(results) :
                  r.id = x.id /\ Compare(r, x.result) = "regression"}}

\* Mutant of Verdict: the scenarios that did not run do not count.
VerdictOfRun(report, m, results) ==
    IF ~CompatibleWith(report.suite, m) \/ ~Complete(results, m) THEN "invalid"
    ELSE IF {a \in Against(report, results) : a[1] # "runner_error"} = {}
         THEN "passed" ELSE "failed"

Verdict(report, m, results) ==
    IF ~CompatibleWith(report.suite, m) \/ ~Complete(results, m) THEN "invalid"
    ELSE IF Against(report, results) = {} THEN "passed" ELSE "failed"

\* The results that were made so far, by report and position.
Made == UNION {{<<r, i>> : i \in {j \in DOMAIN reports[r].outcomes :
                                    reports[r].outcomes[j].result # None}} :
               r \in DOMAIN reports}
ResultAt(p) == reports[p[1]].outcomes[p[2]].result

\* The results a host may have kept and hand in: any of them, in any number up
\* to one more than a suite has.
Kept == UNION {[1..n -> Made] : n \in 0..(MaxScenarios + 1)}

Define ==
    /\ steps < MaxSteps /\ steps' = steps + 1
    /\ \/ \E s \in Scenarios : Register(s)
       \/ BuildSuite \/ ReadSuite \/ TakeManifest

Batch ==
    \/ Start \/ NoSession \/ Session \/ FailTurn \/ AnswerContext \/ Interrupt
    \/ \E seen \in Observations : AnswerLast(seen)

Next == (Idle /\ Define) \/ Batch

Spec == Init /\ [][Next]_vars

----------------------------------------------------------------------------
(* What must hold *)

\* The facts of an answer that a case expects, each read where the case says.
Right(content, seen) ==
    /\ seen.facts = content.expected
    /\ [i \in DOMAIN seen.calls |-> seen.calls[i].tool] = content.tools
    /\ \A n \in DOMAIN content.expected :
          /\ n \in DOMAIN content.paths
          /\ \E i \in DOMAIN seen.calls :
                /\ seen.calls[i].object # None
                /\ content.paths[n] \in DOMAIN seen.calls[i].object
                /\ seen.calls[i].object[content.paths[n]] = content.expected[n]

(* A report tells the whole batch.  Each scenario was given one session,    *)
(* those after one that raised included; its slot is an error exactly when  *)
(* no session or no score could be had, carries the run of the turn that    *)
(* failed or was scored and of no other, and is passed exactly when the     *)
(* last turn answered right from the evidence (BatchEvaluationRunner.run,   *)
(* run_evaluation_case, evaluate).                                          *)
ReportTellsTheBatch == phase = "reported" =>
    LET report == reports[Len(reports)]
    IN  /\ Len(attempts) = Len(report.suite.scenarios)
        /\ Len(report.outcomes) = Len(attempts)
        /\ \A i \in DOMAIN attempts :
             LET s == report.suite.scenarios[i]
                 o == report.outcomes[i]
                 a == attempts[i]
             IN  /\ <<o.position, o.id, o.version>> = <<i, s.id, s.version>>
                 /\ o.result = None <=> a.kind \in {"no_session", "not_scored"}
                 /\ o.result # None =>
                      /\ o.result.run = a.run
                      /\ o.result.passed = (o.result.score = 3)
                      /\ o.result.passed <=> a.kind = "scored" /\ Right(s.content, a.seen)
        /\ \A i, j \in DOMAIN attempts :
             LET of(k) == report.outcomes[k].result
             IN  i # j /\ of(i) # None /\ of(j) # None /\ of(i).run # None
                     => of(i).run # of(j).run

(* A report passes the gate only if each of its scenarios ran and passed,   *)
(* scored no less than the result it was compared with, and is, in content  *)
(* too, the scenario the manifest names.  A result carries no fingerprint,  *)
(* so that the compared result is of the same content is owed to the        *)
(* registry, which never gives a key away twice, and is lost by a host that *)
(* builds suites past it (compare_batch_to_baseline).                       *)
PassedOnEqualGround == Idle /\ reports # <<>> /\ manifest # None =>
    LET report == reports[Len(reports)]
    IN  \A picked \in Kept :
          Verdict(report, manifest, [i \in DOMAIN picked |-> ResultAt(picked[i])]) = "passed" =>
            /\ {Current(s) : s \in Range(report.suite.scenarios)} = manifest.entries
            /\ \A i \in DOMAIN report.outcomes :
                 LET o    == report.outcomes[i]
                     from == {p \in Range(picked) : ResultAt(p).id = o.id}
                 IN  /\ o.result # None
                     /\ o.result.passed
                     /\ Cardinality(from) = 1
                     /\ \A p \in from :
                          /\ ResultAt(p).score <= o.result.score
                          /\ ~bypassed =>
                                reports[p[1]].outcomes[p[2]].fingerprint = o.fingerprint
=============================================================================
