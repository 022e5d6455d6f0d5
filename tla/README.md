# Verification of the multimodal experiment copilot

TLA+ models of the stateful parts of the copilot, model-checked with TLC, and
theorems about them checked by TLAPS. Every definition is translated from the
Python source; `PROJECT.json` maps each one to its lines.

## The system

A host embeds the copilot: it hands in a provider client, a model name, tools,
an experiment workspace and, for simulated actions, a controller with its clock,
target provider and simulator. A client asks a question over HTTP, the command
line or the Python API; one *turn* asks the provider, runs the tools the
provider calls, asks once more and answers.

    HTTP / CLI ──> service, session repository ──> session ──> turn runtime
                        │                                        │
                   business lock                        provider adapter ──> provider
                                                                 │
                                                       tools ──> experiment analysis
                                                             ──> memory (SQLite)
                                                             ──> artifact observation
                                                             ──> workflow controller

| Component | State | Operations | Talks to |
| --- | --- | --- | --- |
| Workflow controller (`copilot/controlled_workflow.py`) | actions with state, approval, transitions; idempotency keys; one lock | propose, get, approve, reject, execute | host clock, target provider, simulator (callbacks) |
| Workflow tools (`tool_layer/workflow_tools.py`) | none | propose, get, simulate as model tools | controller, host's identity and approval providers |
| Turn runtime and adapter (`copilot/runtime*.py`, `llm_adapters/`) | per turn: deadline, evidence, tool messages, bytes | run a turn | provider, tools, path policy |
| Observability (`copilot/*observability.py`, `run_metadata.py`) | per turn: progress, evidence | success events, failure observation, usage totals | `on_failure` of the host |
| Session (`copilot/session.py`) | history of the last `max_turns` turns | ask (three forms), reset, export | runtime |
| Session repository (`copilot/session_repository.py`) | sessions by id, capacity | create, get, delete | host's `id_factory`, service |
| HTTP adapter (`copilot/http_api.py`) | one business lock | five routes | service, repository; the server's thread pool |
| Service, tool binding | none (a context variable) | delegate | runtime, session |
| Experiment repository (`experiment_repository.py`, `experiment_identity.py`) | a SQLite file; per connection a transaction | open, add, get, list, invalidate, delete, close | SQLite, other connections |
| Memory tools (`tool_layer/memory_tools.py`, `experiment_memory.py`) | none | lookups over stored evidence | repository |
| Artifact observation (`artifact_observation*.py`) | two open handles during a call | observe a file, report | file system, other programs |
| Artifact verification (`experiment_artifact_verification.py`) | none; its tool binds copies | compare what is declared with what is reported | the host's lists |
| Replicates and comparisons (`experiment_replicates.py`, `experiment_*comparison.py`) | none; their tools bind copies | aggregate a group, compare two experiments, groups, or pairs | the host's records |
| Experiment directory analysis, path security (`tool_layer/experiment_tools.py`, `compare_experiments.py`, `diagnostics.py`, `metrics.py`, `experiment_path_access.py`) | a scan under way | analyze, compare, report | file system, the host that changes it |
| Evaluation (`copilot/evaluation*.py`) | a registry; a batch under way | register, build a suite, run it, compare with a baseline | session factory, turns |
| Command line, client factory, tool registry, release checks, examples | none kept | I/O | — |

What is hard here, and where the properties aim (`PROJECT.json` `hazards` gives
the line of each):

* **controller**: concurrent executes of one action; a lock released between the
  reservation and the run; a clock that raises after the run; approvals that
  expire while the target is read; retried and conflicting proposals at capacity;
* **turn**: a deadline that is looked at only at checkpoints; a late response; a
  failure between any two steps; byte limits for one result and for their sum; a
  story of the run rebuilt from counters afterwards;
* **session and HTTP**: turns that overlap; delete or reset during a turn; the
  lock on every error path; reuse of session ids; the pool of threads;
* **experiment repository**: conflict checks that race with inserts of another
  connection; processes that die around a commit or while a file is created;
  declarations that are missing, which make consistency non-transitive;
  invalidated evidence that still binds; a migration under an open connection;
* **memory tools**: comparisons made of two transactions, visibility decided in
  several places, a limit that must come after every filter;
* **artifact observation**: a file that grows, shrinks or is replaced while it is
  read; a directory put in the place of the granted one; a handle whose close
  fails after everything was read;
* **directory analysis**: names that are replaced between the scan, the check and
  the read; failures of some experiments among others; NaN in an order; ties;
* **bound tools**: lists the host changes after it built a tool; undeclared facts
  that must not count as agreement; conflicts hidden in snapshots without a
  number; comparisons that must not depend on the order of their sides;
* **evaluation**: one case of a batch that raises; results compared with results
  of another content under the same name and version.

## Modules

| Module | Models | Checked by |
| --- | --- | --- |
| `WorkflowController` | the controller, its lock and callers | `MCWorkflowController` |
| `SimulationContract` | what the controller promises about each action | refined by `WorkflowController` (`ContractHeld`) |
| `WorkflowTools` | the model tools over `WorkflowController`, in the threads of models, beside a host | `MCWorkflowTools` |
| `CopilotTurn` | one turn, its deadline, its observation | `MCCopilotTurn` |
| `CopilotSession` | one session used without a lock | `MCCopilotSession` |
| `CopilotHttp` | HTTP adapter, repository and sessions under the lock | `MCCopilotHttp`, two configurations |
| `SerialSessions` | the serial service clients may rely on | refined by `CopilotHttp` (`SerialService`) |
| `Evidence` | identity consistency and the rows of the table | used by the next two |
| `EvidenceStore` | the atomic store callers may rely on | refined by `ExperimentRepository` (`StoreSpec`) |
| `ExperimentRepository` | connections, transactions and the file | `MCExperimentRepository` |
| `MetricPolicy` | which results of a metric may be compared | used by `MemoryTools` and the replicates |
| `MemoryTools` | the three memory tools over `EvidenceStore`, beside other clients | `MCMemoryTools` |
| `ArtifactObservation` | one observation of a file, beside other programs | `MCArtifactObservation` |
| `ArtifactVerification`, `ReplicateEvidence`, `ReplicateComparison` | pure: what a report says of its inputs | used by `BoundTools` |
| `BoundTools` | the tools that bind copies of a host's data, beside that host | `MCBoundTools` |
| `Diagnostics` | pure: facts, codes and ranking of metric histories | used by `ExperimentDirectory` |
| `ExperimentDirectory` | scan, checks, reads and results, beside a host that replaces names | `MCExperimentDirectory` |
| `Evaluation` | registry, suites, manifests, batches and the release gate | `MCEvaluation` |

The proofs are in modules beside these: `Workflow_proofs` (the controller, its
contract and the tools over it), `CopilotTurn_proofs`, `CopilotSession_proofs`,
`CopilotHttp_proofs`, `ExperimentRepository_proofs`, `Tools_proofs` (the memory tools
and the bound tools), `Files_proofs` (the observation of a file and the directory
analysis) and `Evaluation_proofs`.

Operators introduced by a comment "Mutant of X" are altered forms of X, as a
plausible bug would have it. They belong to no specification; substituted for X
they make one of the properties fail, which shows that the property can.

### WorkflowController

`state`, `spec`, `approval`, `trail` and `keys` are the `_actions` and `_keys`
dictionaries: the state, snapshot, approval and transitions of each record and
the key it was proposed under. `lock`, `pc` and `job` are the threads inside
`execute`. Propose, Get, Approve and Reject are one critical section each and
one action each. `execute` is five actions: **Execute** (the checks, in their
order, up to the first reading of the clock), **ReadTarget** and **Decide**
while the lock is held, **Simulate** with the lock released, **Complete** or
**Uncertain** with the lock taken again. The lock of the one-action critical
sections is the condition that nobody holds it; only `execute` keeps it over
several actions, because what the host's target provider does meanwhile takes
time. The clock, target provider and simulator return any value or raise
(`None`). The history variable `runs` counts simulations, `reply` is the last
thing a caller was told.

Abstracted: the content of an ActionSpec (a member of `Specs`, with the sets
that pass `_authorize_spec` and the size limit), syntactically invalid
identifiers (refused without effect), result payloads, and forging of approval
objects (`Forged`; the code compares identity first).

### WorkflowTools

`Models` are the threads in which a model calls tools; in the others the host
approves, rejects and executes on its own. A call of `propose` or `get` is one
operation of the controller and its projection (`Tell`). `simulate` is
**Look** (the record is read with the tools' scope, so that no authority is no
question to the provider), **AskProvider** (outside the lock; any approval the
host holds, or it raises) and **ExecuteTool**, followed by the controller's own
steps of `execute` (`Executing`); decisions of the host fall between any two.
`turn` is where a call stands, `told` what it answers in the step it ends in: the
projection of a record or an error code. Every step is a step of
`WorkflowController`, or leaves it alone, so that the properties of the
controller are checked here with these callers as well.

### CopilotTurn

`pc` walks `_run_copilot_turn_with_observability` and what it calls. A provider
response is the number of tools it calls and its first flaw; a tool result is
its size in bytes, or not JSON. `deadline` passes at any moment (`Expire`), and
each `_check_turn_deadline` or `_remaining_turn_seconds` is where the code has
it: `Checked`. `progress` is `_ProgressState`, `evidence` is
`_ProviderEvidence`, `published` what the caller or `on_failure` receives, and
the history variable `log` records the events as they happen, so that what is
published can be compared with it. The turn is the one with `on_failure`; without
it the same steps run and only the observation is dropped. Whether `on_failure`
returns or raises is one outcome, since `_notify_failure` swallows what it raises.
A model name that is refused, or tools that cannot be listed, fail a request
before its deadline check (`Request`).

### CopilotSession and CopilotHttp

A turn is named by its number (session) or by its request (HTTP). A turn is two
steps: take the retained history and show it to the provider, then commit or
fail; `CopilotTurn` refines what happens in between. `CopilotSession` has no
lock because the class has none: callers may overlap, as threads or as nested
calls from a tool. `CopilotHttp` adds the business lock, the repository with its
capacity and the host's `id_factory`, and the server's bounded thread pool, from
which `/health` needs a thread as well. The lock is taken and released within an
action by create and delete, and held across two by a turn.

### ExperimentRepository

`disk` is the committed database, `view[c]` the database as the open transaction
of connection `c` sees it, `pc[c]` where that connection is:

    closed ─Call─> waiting ─BeginWrite─> writing ─operation─> written ─> committing ─> idle
    idle ──Call──> waiting ─BeginRead──> reading ─operation────────────────────────> idle

An operation (`Add`, `Get`, `ListExecutions`, `Invalidate`, `Delete`, `Open`) is
what a method does between the begin of its `_transaction` and the commit, the
schema check that starts it included (`Works`, `Invalid`); nothing of other
connections can come between, because SQLite isolates it. `BeginCommit` and
`Commit` are the two halves of a commit in a rollback journal: no reader enters
after the first, and the second waits until none is left. `Fail` and `Busy` are
any `sqlite3.Error`, `Crash` and `CrashCommitted` the death of a process before
or after its commit, `Migrate` a newer release at work on the same file. The
lock rules are SQLite's and external; the code chooses between `BEGIN` and `BEGIN
IMMEDIATE`, and that choice is `BeginRead` against `BeginWrite`. `answer` is
what a call returns or raises in the step, and `None` in any other step.

A snapshot stands for the canonical JSON of a record, so that equal JSON is
equal snapshots; `Declared` gives what it declares in each definition field.
`EvidenceStore` is the same interface without connections: every operation is
one step with its answer, or with the answer lost.

### MemoryTools

One call of a tool at a time: `Invoke` (arguments, then scope), then one read
(`ReadExecution`, `ListHistory`), and for a comparison a second (`FindCandidates`).
The reads are the steps `Show`, `Miss` and `ShowAll` of `EvidenceStore`, which
`ExperimentRepository` is proved to implement; `Others` are its steps that
change rows, taken by other clients at any time. `result` is the reply of the
step. The tools keep nothing between calls (`__slots__` hold configuration
only), so calls meet in the store alone and one caller stands for all.
`searched`, `removed` and `withdrawn` are history variables: the table that was
searched and what became of the reference since it was read.

### ArtifactObservation

`rootAt` is the directory at the granted path now and `childIn` the file under
the selected name in each directory; `size` and `token` (what the system's change
metadata tell) belong to the files. Other programs move directories to that path
(`Move`) and write files (`WriteFile`) between any two steps. A step is one native
call with what the code makes of it: opening and describing the root
(`OpenRoot`, `CheckRoot`), the same for the child, the root once more
(`RecheckRoot`), metadata, chunks and metadata (`ReadBefore`, `ReadChunk`,
`ReadAfter`), and the exits of the context, child first (`CloseChild`,
`CloseRoot`). Each may raise; what is raised becomes a status, or propagates
(`"raised"`). `Trait` and `Volume` say what a description tells of an object. A
digest stands for the bytes, and those for the versions they were taken of
(`versions`). A write leaves any size and any token, those it found included: what
tells one write from another is `version`, which only the properties read, and
`restored` remembers that a write between the two readings of the metadata left
those that were read first.

### ArtifactVerification, ReplicateEvidence, ReplicateComparison and BoundTools

The first three are operators: validation of the inputs as the constructors do
it, and the report as a function of them. A group of replicates is a record of
what the host declared (identity, protocol, the roster with its seeds) and
supplied (snapshots with their reading of each target, or its first fault). A
difference of means stays a fraction over the product of the counts, so that
integers are exact; `MaxFloat` is where numbers overflow to infinity, which the
code refuses. `BoundTools` drives them: the host changes its own data in place
(`HostEdits`), builds a tool (`Build`, a validated copy) and the tool is called
(`InvokeTool`, on a copy of its copy) at any time. `given` remembers what a tool was
built from, for the properties.

### Diagnostics and ExperimentDirectory

`Diagnostics` holds the arithmetic: the best record, changes, trends, codes,
recommendations and ranking; NaN compares with nothing. `ExperimentDirectory` is
one call of a tool, of the report or of the pipeline: the scan in any order of
names (`ScanDir`, `ScanConfig`, `ScanHistory`), then for each experiment in order
a check (`AuthorizeDir`, `CheckFile`) and an open (`OpenConfig`, `OpenHistory`,
`OpenFails`), then the result (`Build`) and the two files (`Write`). A name is a
kind of node; `Replace` changes one between any two steps. `held` is what the
last check saw, and `Opened` where the open that follows ends up. Only calls of
an adapter with a path policy are checked (`call.scoped`). The tools refuse to
answer with NaN; the pipeline sorts it, by no rule of Python, and returns its
records in some order (`Unordered`).

### Evaluation

`registry`, `suite` and `manifest` are the objects of the same names, which the
host makes (`Define`); a batch is `Start`, one session and the turns of one
scenario after another, and a report when the last is over. A turn answers with
an observation, raises, or is interrupted; a session may be refused. A
fingerprint is the content it is of: two contents never share one. The gate,
`compare_batch_to_baseline`, is the operator `Verdict`; the property asks it of
every choice of results a host may have kept.

## What the runs check

| Run | Bounds | Shows |
| --- | --- | --- |
| `controller` | 2 threads, 2 actions, 2 keys, 2 approvals, 2 target versions, clock 0–1, expiry 1, symmetry | `AtMostOneSimulation`, `SimulationIsGranted`, `OutcomeIsTheSimulators`, `KeysBindOneAction` |
| `workflow_tools` | a model thread and a host thread, 1 action, 2 keys, 2 specs, 1 approval, clock 0–1 | `ToolsTellDecisions`, `RecordsOnlyGrow`, refinement of `SimulationContract`; every call returns (`CallsReturn`) |
| `turn` | up to 3 tool calls, results of 1–3 bytes against limits of 2 and 4, three usage reports | what is published is what happened (`ObservationIsTheRun`, `TotalsCoverTheRun`, `StageIsWhereItFailed`); `FollowUpCarriesEveryResult`; `NothingStartsLate`; `TurnEnds` |
| `session` | 3 callers, `max_turns` 1–3, 5 turns, symmetry | `Coherent`, `AloneKeepsAll` |
| `http_serial` | 4 requests, 3 ids, 3 sessions, room for 2, 2 turns kept, 3 threads, symmetry | `TurnOwnsItsSession`, `SessionsApart`, refinement of `SerialSessions` |
| `http_fair` | 3 requests, 2 threads, 1 id, turns may hang | `EveryRequestAnswered`, `HealthAnswered` |
| `repository` | 2 connections, 2 executions of one experiment, 3 snapshots (a definition, another, none declared) | `SchemaWhole`, `Compatible`, refinement of `EvidenceStore`, `CallsEnd` |
| `memory` | 2 executions of an experiment in scope, one outside, 3 snapshots, 2 metrics, limits 1 and 2, with and without a filter, replies of at most 2 snapshots | `NothingHidden`, `FirstMatches`, `SelfConsistent` |
| `observation` | 2 directories and a link, a file and one on another volume, up to 3 bytes, budget and chunks of 2, 1 write that may leave size or times as they were, 2 moves, symmetry | `ObservedWhole`, `DirectChild`, `HandlesReleased` |
| `bound_tools` | 3 groups to start from, 2 edits away in any field, rosters of up to 2, numbers −1, 0, 2 that overflow past 2 | `AgreementIsShown`, `ConflictsNeverCounted`, `ComparisonsAgree` |
| `evaluation` | 4 scenarios (two under one name and version), 4 observations, suites of 2, 2 sessions, 4 steps | `ReportTellsTheBatch`, `PassedOnEqualGround` |
| `directory` | 2 names of 7 kinds to start with, 9 calls, 2 replacements, a recent window of 3, every history of up to 3 records and those of 4 in order | `Contained`, `WholeAndRanked` |

`TypeOK` is checked of the controller and the repository, where the proofs begin
with it.

Why these bounds are enough for the cases that matter:

* Two threads and two actions give every race of execute with itself and every
  confusion of two approvals; a clock of two readings puts each check before or at
  the expiry. Two keys and two identifiers are a retry under the same key, with
  another identifier and of an identifier under another key (`controller`); two
  specs for one identifier are a conflict of content (`workflow_tools`). Neither
  instance has a third identifier, so a proposal that exceeds the capacity occurs
  in neither; that the capacity holds is in the theorem `KeysBound` alone.
* Three tool calls have a first, a middle and a last, the sizes lie at, below and
  above each limit, and 2 + 2 + 1 exceeds the cycle's limit with results that pass
  alone.
* Five turns overflow histories of one, two and three turns. Four requests hold
  two turns on one session, a delete and a create under the deleted id.
* Two connections race in every way a writer can with one other actor; two rows
  of three snapshots match, conflict, or leave out what would tell.
* A file of three bytes is one past a budget of two, the probe past the budget
  is a smaller chunk than the first, and two moves bring a directory back. One
  write that leaves the metadata as they were is the case the code disclaims; two
  that change them and change them back are in the theorem.
* Two edits change both sides of a comparison, or one side after the tool was
  built and again before it is called.
* Two scenarios under one name and version are contents that only a fingerprint
  tells apart; with two in a suite one fails and the other goes on.
* Two replacements change a name before and after its check, or both names; a
  history of four records is longer than the window of three.

The clock readings, `MaxCalls`, `MaxAsks`, `MaxMaxTurns`, `MaxWrites`, `MaxSwaps`,
`MaxEdits`, `MaxSteps`, `MaxChanges` and the sets of requests and sessions are
bounds of the model; the capacities, `MaxTurns`, byte limits and `Workers` are
the code's own parameters in small.

`CHECK_DEADLOCK` is off for the HTTP runs (when the requests of the instance are
spent the server waits for more), for `evaluation` (the host's steps are spent)
and for `directory` (the one call has ended). The turn has a stuttering action
for its end.

Properties worth a word:

* `Coherent`: overlapping turns lose one another (the last commit wins) and a
  reset during a turn is undone by it, but the history shown is always a
  conversation that took place. `AloneKeepsAll` states what callers that do not
  overlap may rely on. The class makes no promise of its own under overlap, and
  the HTTP lock rules it out there (`TurnOwnsItsSession`).
* `HealthAnswered` is conditional: "`/health` bypasses that lock" holds of the
  lock, but a synchronous endpoint needs a thread, and business requests that
  wait behind a hung turn can hold them all.
* `SelfConsistent`: a comparison promises no snapshot across its two reads. What
  holds is that its reference and the item flagged as the reference are one
  record, the item at the same or a later stage of its life, unless the record
  was deleted (and perhaps stored anew) in between. In that case the reply may
  call the reference incompatible with itself.
* `ToolsTellDecisions`: a simulate call is three critical sections of the
  controller with the host's provider in between. What it answers is still what
  the controller decided, although the host may have approved, rejected or run
  the action meanwhile.
* `ObservedWhole`: the reader compares change metadata, "best-effort detection, not
  an atomic snapshot", and each report carries `atomic_snapshot_not_guaranteed`.
  The model makes no assumption that a write shows in the metadata. So the clause
  that all bytes are of one version exempts a call during which a write brought back
  the metadata read first (`restored`), and TLC does reach successes of mixed
  versions that way. What is left is what the code can promise and could lose: any
  other write between two chunks is found, one that restores the size included; the
  count is the size announced; and no error of a call, not of the last close, is
  reported as success.
* `DirectChild` admits one case: the granted path was given to another directory
  and back during the call. Both descriptions of the root then agree although
  the child was opened in between, and no check the code makes can tell.
* `Contained` admits the window between the check of a file and its open, as
  `v1_security` does: a name replaced in it is followed wherever it leads. The
  property says that nothing else gets out, and that no comparison is returned
  past a name that was unsafe throughout the call.
* `WholeAndRanked` accounts for every experiment in any comparison returned, NaN or
  not; the ranking (`RankingRight`) is claimed only where no best value is NaN. What
  a pipeline writes of NaN comes in whatever order Python leaves it.
* `PassedOnEqualGround`: a result carries no fingerprint. That the result a report
  is compared with is of the same content is owed to the registry, which never
  gives a name and version away twice, and is lost by a host that builds its
  suites past it; the property admits that host.

## Fairness

* Workflow tools: weak fairness of the approval provider and of a thread inside
  the lock and of its simulation (the host's callbacks return or raise; they are
  documented as short and non-reentrant), strong fairness of taking the lock, to
  begin an execute and to settle it, since other callers may take the free lock
  first any finite number of times. Nobody is obliged to call.
* Turn: weak fairness of its own code and of provider and tools, which return or
  raise. The deadline need not pass and cannot interrupt a call: the code's
  deadline is cooperative.
* HTTP: the specification assumes of the pool only that a waiting request gets a
  thread that is free again and again, and that `/health` returns. That turns end
  and the lock is handed on (`BusinessFairness`) is the premise of
  `EveryRequestAnswered` alone; `HealthAnswered` is checked with turns that hang.
* Experiment repository: weak fairness of a call that is inside its transaction
  (a live process goes on), strong fairness of the begin, because other writers
  may take the file any finite number of times. No timeout and no failure is
  assumed to happen: the busy timeout would end a wait as well.

`threading.Lock` does not promise fairness; that a waiting thread gets a lock
that is free again and again is an assumption about the scheduler.

## What is proved

For every value of the constants that satisfies the named assumptions of the
modules (`ControllerAssumption`, `ModelsAssumption`, `TurnAssumption` and so on: the
types of the parameters, and what the code checks of them when it starts). Sets of
names are finite where the code counts or sorts them, a history has a record at
least, as `evaluate_metric_history` demands, and NaN is not a number.

| Theorem | States |
| --- | --- |
| `Workflow_proofs` | |
| `TypeCorrect` | `[]TypeOK` |
| `SimulatedOnce`, `SimulatedAsGranted`, `OutcomeReported` | `[]AtMostOneSimulation`, `[]SimulationIsGranted`, `[]OutcomeIsTheSimulators` |
| `KeysBound` | `[]KeysBindOneAction` |
| `RecordsGrow`, `ImplementsContract` | `RecordsOnlyGrow`, `ContractHeld` |
| `ToolsRunTheController` | `SafeToolsSpec => Spec`: all of these hold behind the tools |
| `ToolsKeepTheContract` | the last two and `[]KeysBindOneAction`, of the tools |
| `ToolsTellTheirDecisions` | `[]ToolsTellDecisions` |
| `CopilotTurn_proofs` | |
| `FailsWhereItStopped`, `FollowUpComplete` | `[]StageIsWhereItFailed`, `[]FollowUpCarriesEveryResult` |
| `ToldAsItWas`, `TotalsCover` | `[]ObservationIsTheRun`, `[]TotalsCoverTheRun` |
| `NothingLate` | `NothingStartsLate` |
| `CopilotSession_proofs` | |
| `ConversationsCohere`, `NothingLostAlone` | `[]Coherent`, `[]AloneKeepsAll` |
| `CopilotHttp_proofs` | |
| `TurnsOwnTheirSessions`, `SessionsStayApart` | `[]TurnOwnsItsSession`, `[]SessionsApart` |
| `ServesSerially` | `SerialService` |
| `ExperimentRepository_proofs` | |
| `RepositoryTyped`, `EvidenceCompatible`, `SchemaCreatedWhole` | `[]TypeOK`, `[]Compatible`, `[]SchemaWhole` |
| `EvidenceNeverReplaced`, `NewerNeverWritten` | `EvidenceFixed`, `NewerLeftAlone` |
| `ImplementsStore` | `StoreSpec` |
| `Tools_proofs` | |
| `ToolsTyped`, `NothingHiddenShown`, `FirstMatchesShown`, `ReferenceTellsItself` | `[]TypeOK`, `[]NothingHidden`, `[]FirstMatches`, `[]SelfConsistent` of the memory tools |
| `ShownAsDeclared`, `CountedInAgreement`, `ComparedAlike` | `[]AgreementIsShown`, `[]ConflictsNeverCounted`, `[]ComparisonsAgree` of the bound tools |
| `Files_proofs` | |
| `ObservationWhole`, `ChildDirect`, `HandlesGivenUp` | `[]ObservedWhole`, `[]DirectChild`, `[]HandlesReleased` |
| `PathsContained`, `AnalysesWhole` | `[]Contained`, `[]WholeAndRanked` |
| `Evaluation_proofs` | |
| `TheBatchIsTold`, `GroundIsEqual` | `[]ReportTellsTheBatch`, `[]PassedOnEqualGround` |

Hardly any of these is inductive alone. Each module has an inductive invariant,
one lemma per action that preserves it, and theorems that are read off it.

* **Controller** (`IInv`, theorem `InductiveInvariant`). That an action is simulated
  at most once rests on who may be running. Beside typing, the invariant has
  the shape of a record (what is absent, approved and consumed in each state),
  the keys, what a thread that holds the lock knows of its action, what a thread
  past its reservation knows (its action is executing, its approval consumed, the
  reservation stamped before the expiry), that no two threads run one action, and
  how many runs each state and each `pc` allow. For the contract every step is
  sorted by its effect on the records: none, a new record, one move of one record,
  or a run (`StepEffect`); each effect is a step of `SimulationContract` for that
  action and a stutter for the others.
* **Tools** (`TInv`, theorem `ToolsInvariant`): `IInv`, what a call knows between its
  critical sections (its caller is authorized and its action stored), and what it
  told. Each step of the tools is a step of the controller, so the controller's
  lemmas carry over.
* **Turn** (`TInv`, theorem `TurnInvariant`): the counts of `_ProgressState` are those
  of the events; how many requests precede each place; the stage fits the last
  event until the failure is told; and in the cycle, each call is entered once
  and in order, the results have partial sums up to `cumulative_result_bytes`, and a
  follow-up comes after a whole cycle. The partial sums are a function the
  invariant asserts to exist, which takes the place of a sum over the results.
  What is published has an invariant of its own above it (`OInv`, theorem
  `ToldInvariant`): the evidence of the provider is the responses in the log
  (`Evident`), the events told are the log (`Told`), the outline rebuilt from the
  counts gives that log back (`Outlined`), and what is published was made from them
  (`Shown`).
* **Session** (`SInv`, theorem `SessionInvariant`): what was shown with a turn never
  changes, every history follows from it turn by turn (`Follows`), and while no
  calls overlap the turn under way retained all there was (`Alone`).
* **HTTP** (`HInv`, theorem `HttpInvariant`): a request runs exactly while it holds the
  lock, and a turn that runs knows a session stored under its id, with the end of
  its history. The refinement maps a turn to the moment it is committed, which is
  one turn appended to the session of the serial service, cut to what it keeps.
* **Repository** (theorem `RepositoryInvariant`): at most one connection is a writer,
  a connection has a view exactly while it is in a transaction and a call that
  fits its kind, a reader and a writer that has not written yet see the committed
  database, and what a writer has written is the effect of its call on that
  database and keeps `Compatible`, `SchemaWhole` and the evidence of rows that
  stay. A reader's view is the committed database because a commit waits for
  readers; a writer's because there is one writer. The refinement maps a commit to
  the effect of its call, a call that does not write to its answer, and every
  other step to an idle step of the store.
* **Memory tools** (`IInv` of that module, theorem `ToolsInvariant`): a call past the scope's
  check works for an authorized request, and while a comparison is between its
  reads the row of its reference is the one it read, at the same or a later stage,
  unless it was deleted. The run has `AllowInvalidated` true; that a host's refusal
  holds is the theorem's. For `FirstMatches` the rows shown are the matches of
  the table in the order of their keys, as many as the limit admits.
* **Bound tools** (`BInv`, theorem `BoundInvariant`): a tool holds what it was built
  from, that was valid when it was built, and a reply is the report of it, whatever
  the host did to its own data since. The three properties are then facts about the
  reports. `ConflictsNeverCounted`: the states of the runs part the roster, so the
  counts of the summary add up to it; a target is summed only where the gate is
  open, which is where all pairs of snapshots agree. `ComparisonsAgree`: every
  judgement a comparison makes is symmetric under exchange of its sides, a paired
  difference sums to the difference of the sums, and sums do not depend on the
  names of their terms; so the exchanged comparison has the negated differences,
  and overflows where the first one does.
* **Observation** (`AInv`, theorem `ObservationInvariant`): which handles are held where
  (`HandlesHeld`), what each look at the root and the child has established and how
  many moves came since (`LooksAgree`), that as long as no write has restored the
  metadata read first, to find them again means that all bytes are of the version
  the file still has (`VersionsKnown`), and that a success is whole and no error
  follows it (`WholeSoFar`).
* **Directory** (`DInv`, theorem `DirectoryInvariant`): a check is held only until the
  open it allows, the file about to be opened was inside the authority when it was
  checked, what was read from outside had been replaced, and a name that was
  unsafe all along is still ahead of the scan. What the call tells has an invariant
  beside it (`WInv`, theorem `ComparisonInvariant`): the scan remembers what it saw of
  a name that was left alone (`Scanning`); what it found is yet to be read, read, or
  failed for its reason (`Reading`, over `Accounted`); the files are written in
  order (`Filed`); and a returned comparison is the payload of what was read, or with
  NaN some order of its records (`Returned`; whatever the order, `ToldWhole` accounts
  for it). From there `AnalysesWhole` is about pure functions. The findings: the
  best record is the first of the best values, so no record after it is better; to
  negate the values and the direction changes neither; and each code follows from
  the facts it names. The ranking: the rank of a record is the number of records
  before it, which is a bijection; two sorted lists of the same values agree place
  by place, or one of them would have more values above that place than the other.
* **Evaluation** (`EInv`, theorem `EInvHolds`): suites and manifests are well formed,
  their scenarios in the order of their ids; each filled slot of a batch tells what
  its attempt did; and, unless a host went past it, the registry knows all that was
  built or run, of which it has never two contents under one name and version. `PassedOnEqualGround` adds that the gate pairs the results of two manifests
  in one order: the rank of a scenario is the number of smaller ids.

Sums and ranks are recursive functions over the subsets of a finite set, or over
numbers. What they compute is proved without the induction theorems of the library,
whose operator parameter no prover here instantiates: that a set of numbers with
no least member outside a given set is within it (from `WFMin` and
`NatLessThanWellFounded`), and that a set of subsets that holds the empty one and
keeps whatever gains one element holds them all, are first-order lemmas (`Least`,
`ByRemoval`), and the set is chosen for each use. Where the code sorts, the models
say which rank an element has, so that an order is a bijection to reason with.

Only model-checked:

* liveness: `CallsReturn`, `TurnEnds`, `EveryRequestAnswered`, `HealthAnswered`,
  `CallsEnd`. Fairness and `ENABLED` are outside the prover's reach. Every invariant
  and every action property of a run has a theorem.

## Not modelled

* **Service and tool binding**, **client factory**, **tool registry**: stateless
  delegation; each call builds its arguments and hands them on.
* **Command line and interactive loop**: argument parsing, printing and exit codes.
  The loop reads a line at a time and asks or resets one session, which is
  `CopilotSession` with one caller.
* **Release checks, examples and demos**: not part of the running system.
* **Parsing and text**: the JSON, YAML and Markdown forms of files and reports,
  schemas of tools, the syntax of identifiers, and the forms of a path on other
  platforms. A file parses, or it does not; an identifier is acceptable, or refused
  without effect.
* **Of the directory analysis**: the metrics configuration and the test results,
  which functions of their own read, and infinite values, which are refused where
  NaN is. What a link was resolved to stays as it is until the open.
* **Of the replicates and comparisons**: medians, deviations, limitations,
  configuration differences and byte budgets. Floating-point numbers are small
  integers and fractions with an overflow.
* **Of the workflow tools**: the codes of a `WorkflowError` that `ActionSpec` or a
  provider of the host raises. Such a call is refused, without its code.
* **Asynchronous exceptions** between two bytecodes (`KeyboardInterrupt` between the
  release of the controller's lock and its `try`) are below the grain of the
  models.
* **Clients that go away** before an answer: a turn that was committed is then
  asked again and is a second turn; the adapter has no request identity that a
  property could name.

The hazards without a property in `PROJECT.json` are these last two, and the file
of a newer release, for which `NewerNeverWritten` is proved and no run repeats it.
