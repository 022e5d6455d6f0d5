------------------------- MODULE WorkflowController -------------------------
(***************************************************************************)
(* The in-memory ledger of simulated actions kept by                       *)
(* copilot/controlled_workflow.py: propose, get, approve, reject and       *)
(* execute called by several threads on one controller.                    *)
(*                                                                         *)
(* Every operation except execute is one critical section of the           *)
(* controller's lock and is one action here.  execute is five: it takes    *)
(* the lock and checks the call, reads the target, decides (and releases   *)
(* the lock), runs the simulator without the lock, and takes the lock      *)
(* again to settle the action.  The host's clock, target provider and      *)
(* simulator are external: every call of theirs may return any value of    *)
(* their range or raise (written None).                                    *)
(***************************************************************************)
EXTENDS Integers, Sequences, FiniteSets

CONSTANTS
    Threads,          \* callers of the controller
    ActionIds,        \* valid identifiers an action may be proposed under
    Keys,             \* idempotency keys
    Specs,            \* ActionSpec snapshots; equal iff their fingerprints are
    AuthorizedSpecs,  \* those inside the controller's scope and allowlists
    FittingSpecs,     \* those no longer than max_action_bytes
    Versions,         \* what the target provider may report
    Precondition,     \* Specs -> Versions, the preconditions of a spec
    ApprovalIds,      \* identifiers the host may give an approval
    Times,            \* readings of the host's clock
    Expiries,         \* values of expires_at
    MaxActions,       \* scope.max_actions
    None              \* absence, or a host callback that raised

\* The ApprovalEvidence issued for an action, with the status on its record.
Approvals == [approval_id : ApprovalIds, expires_at : Expiries,
              status : {"available", "consumed"}]

ASSUME ControllerAssumption ==
    /\ AuthorizedSpecs \subseteq Specs
    /\ FittingSpecs \subseteq Specs
    /\ Precondition \in [Specs -> Versions]
    /\ Times \subseteq Int
    /\ Expiries \subseteq Int
    /\ MaxActions \in Nat \ {0}
    /\ None \notin Threads \cup ActionIds \cup Specs \cup Versions \cup Times
    /\ None \notin Approvals

VARIABLES
    state,     \* record["state"] of each action, "absent" when not in _actions
    spec,      \* the ActionSpec snapshot of the entry
    approval,  \* entry.approval and record["approval"], None until approved
    trail,     \* record["transitions"]
    keys,      \* _keys: the action each idempotency key stands for
    lock,      \* the thread holding _lock across several actions
    pc,        \* where each thread is inside execute
    job,       \* the locals of that call: the entry, and what the target said
    runs,      \* history: what the simulator did each time it ran for an action
    reply      \* what the last call to end returned or raised

ledger == <<state, spec, approval, trail, keys>>
vars == <<state, spec, approval, trail, keys, lock, pc, job, runs, reply>>

Terminal == {"rejected", "stale", "succeeded", "failed", "uncertain"}
Reserved == {"executing", "succeeded", "failed", "uncertain"}
States   == {"proposed", "executing"} \cup Terminal

\* The table _TRANSITIONS: the states each state may move to.
Transitions == [s \in States |->
    IF s = "proposed" THEN {"executing", "rejected", "stale"}
    ELSE IF s = "executing" THEN {"succeeded", "failed", "uncertain"}
    ELSE {}]

Errors == {"unauthorized", "action_not_found", "action_too_large",
           "action_id_conflict", "idempotency_conflict", "capacity_exceeded",
           "action_terminal", "approval_exists", "invalid_approval",
           "approval_required", "approval_mismatch", "approval_consumed",
           "approval_expired", "raised"}

\* An approval the caller may hold: none, an equal value nobody issued, or the
\* object issued for some action, named by that action.
Forged == "forged"
Held == {None, Forged} \cup {a \in ActionIds : approval[a] # None}

Callers == {"principal", "stranger"}

Stored == {a \in ActionIds : state[a] # "absent"}

Init ==
    /\ state = [a \in ActionIds |-> "absent"]
    /\ spec = [a \in ActionIds |-> None]
    /\ approval = [a \in ActionIds |-> None]
    /\ trail = [a \in ActionIds |-> <<>>]
    /\ keys = [k \in Keys |-> None]
    /\ lock = None
    /\ pc = [t \in Threads |-> "idle"]
    /\ job = [t \in Threads |-> [action |-> None, actual |-> None]]
    /\ runs = [a \in ActionIds |-> <<>>]
    /\ reply = [action |-> None, told |-> "nothing"]

----------------------------------------------------------------------------
(* Helpers shared by the operations.                                       *)

\* A call that starts and ends in one critical section of the lock.
Calls(t) == pc[t] = "idle" /\ lock = None

Answer(a, told) == reply' = [action |-> a, told |-> told]
Raise(code) == Answer(None, code)

\* Mutant of Move: the record keeps only its last transition.
MoveForgets(a, s, at) ==
    /\ s \in Transitions[state[a]]
    /\ state' = [state EXCEPT ![a] = s]
    /\ trail' = [trail EXCEPT ![a] = <<[state |-> s, at |-> at]>>]

\* _transition: the state moves, and the move is appended to the record.
Move(a, s, at) ==
    /\ s \in Transitions[state[a]]
    /\ state' = [state EXCEPT ![a] = s]
    /\ trail' = [trail EXCEPT ![a] = Append(@, [state |-> s, at |-> at])]

\* _authorize and _entry, "" when they let the call through.
EntryError(caller, a) ==
    IF caller # "principal" THEN "unauthorized"
    ELSE IF a \notin Stored THEN "action_not_found"
    ELSE IF spec[a] \notin AuthorizedSpecs THEN "unauthorized"
    ELSE ""

\* _approval: only the very object issued for this action passes.
ApprovalError(a, grant) ==
    IF grant = None THEN "approval_required"
    ELSE IF grant = Forged THEN "approval_mismatch"
    ELSE IF grant = a THEN ""
    ELSE IF approval[grant].status = "consumed" THEN "approval_consumed"
    ELSE "approval_mismatch"

----------------------------------------------------------------------------
(* propose *)

\* Mutant of ProposeOutcome: an identifier in use may be proposed again.
IdentifierTaken(caller, s, a, k) ==
    IF caller # "principal" \/ s \notin AuthorizedSpecs THEN "unauthorized"
    ELSE IF s \notin FittingSpecs THEN "action_too_large"
    ELSE IF keys[k] # None
         THEN IF spec[keys[k]] # s THEN "idempotency_conflict" ELSE "replay"
    ELSE IF Cardinality(Stored) >= MaxActions THEN "capacity_exceeded"
    ELSE ""

\* The checks of propose in their order; "" when a new action is stored, and
\* "replay" when the key already stands for an action with this spec.
ProposeOutcome(caller, s, a, k) ==
    IF caller # "principal" \/ s \notin AuthorizedSpecs THEN "unauthorized"
    ELSE IF s \notin FittingSpecs THEN "action_too_large"
    ELSE IF a \in Stored /\ keys[k] # a THEN "action_id_conflict"
    ELSE IF keys[k] # None
         THEN IF spec[keys[k]] # s THEN "idempotency_conflict" ELSE "replay"
    ELSE IF Cardinality(Stored) >= MaxActions THEN "capacity_exceeded"
    ELSE ""

Propose(t, caller, s, a, k) ==
    LET outcome == ProposeOutcome(caller, s, a, k)
    IN  /\ Calls(t)
        /\ \/ /\ outcome = "replay"
              /\ Answer(keys[k], state[keys[k]])
              /\ UNCHANGED ledger
           \/ /\ outcome \in Errors
              /\ Raise(outcome)
              /\ UNCHANGED ledger
           \/ /\ outcome = ""
              /\ \E now \in Times :
                   /\ state' = [state EXCEPT ![a] = "proposed"]
                   /\ spec' = [spec EXCEPT ![a] = s]
                   /\ trail' = [trail EXCEPT ![a] = <<[state |-> "proposed", at |-> now]>>]
                   /\ keys' = [keys EXCEPT ![k] = a]
                   /\ Answer(a, "proposed")
              /\ UNCHANGED approval
           \/ /\ outcome = ""        \* the clock raised: nothing is stored
              /\ Raise("raised")
              /\ UNCHANGED ledger
        /\ UNCHANGED <<lock, pc, job, runs>>

(* get *)

Get(t, caller, a) ==
    LET error == EntryError(caller, a)
    IN  /\ Calls(t)
        /\ IF error = "" THEN Answer(a, state[a]) ELSE Raise(error)
        /\ UNCHANGED <<ledger, lock, pc, job, runs>>

(* approve *)

\* Mutant of ApproveError: a closed action can still be approved.
ApproveClosed(caller, a, id, expires, now) ==
    IF EntryError(caller, a) # "" THEN EntryError(caller, a)
    ELSE IF approval[a] # None THEN "approval_exists"
    ELSE IF now = None THEN "raised"
    ELSE IF expires <= now THEN "invalid_approval"
    ELSE IF \E b \in ActionIds : approval[b] # None /\ approval[b].approval_id = id
         THEN "approval_exists"
    ELSE ""

ApproveError(caller, a, id, expires, now) ==
    IF EntryError(caller, a) # "" THEN EntryError(caller, a)
    ELSE IF state[a] # "proposed" THEN "action_terminal"
    ELSE IF approval[a] # None THEN "approval_exists"
    ELSE IF now = None THEN "raised"
    ELSE IF expires <= now THEN "invalid_approval"
    ELSE IF \E b \in ActionIds : approval[b] # None /\ approval[b].approval_id = id
         THEN "approval_exists"
    ELSE ""

Approve(t, caller, a, id, expires, now) ==
    LET error == ApproveError(caller, a, id, expires, now)
    IN  /\ Calls(t)
        /\ IF error = ""
           THEN /\ approval' = [approval EXCEPT ![a] =
                      [approval_id |-> id, expires_at |-> expires, status |-> "available"]]
                /\ Answer(a, "approved")
           ELSE Raise(error) /\ UNCHANGED approval
        /\ UNCHANGED <<state, spec, trail, keys, lock, pc, job, runs>>

(* reject: an approval already issued stays "available" on the record *)

RejectError(caller, a, now) ==
    IF EntryError(caller, a) # "" THEN EntryError(caller, a)
    ELSE IF state[a] # "proposed" THEN "action_terminal"
    ELSE IF now = None THEN "raised"
    ELSE ""

Reject(t, caller, a, now) ==
    LET error == RejectError(caller, a, now)
    IN  /\ Calls(t)
        /\ IF error = ""
           THEN Move(a, "rejected", now) /\ Answer(a, "rejected")
           ELSE Raise(error) /\ UNCHANGED <<state, trail>>
        /\ UNCHANGED <<spec, approval, keys, lock, pc, job, runs>>

----------------------------------------------------------------------------
(* execute *)

\* execute up to the first reading of the clock: refuse, replay a settled or
\* running action, or keep the lock and go on to the target.
ExecuteError(caller, a, grant) ==
    IF EntryError(caller, a) # "" THEN EntryError(caller, a)
    ELSE ApprovalError(a, grant)

\* Mutant of Expired: an approval is still good at the moment it expires.
ExpiredAfter(a, now) == now > approval[a].expires_at

Expired(a, now) == now >= approval[a].expires_at

Execute(t, caller, a, grant, now) ==
    LET error == ExecuteError(caller, a, grant)
    IN  /\ Calls(t)
        /\ \/ /\ error # ""
              /\ Raise(error)
              /\ UNCHANGED <<lock, pc, job>>
           \/ /\ error = "" /\ state[a] # "proposed"
              /\ Answer(a, state[a])
              /\ UNCHANGED <<lock, pc, job>>
           \/ /\ error = "" /\ state[a] = "proposed"
              /\ IF now = None THEN Raise("raised")
                 ELSE Expired(a, now) /\ Raise("approval_expired")
              /\ UNCHANGED <<lock, pc, job>>
           \/ /\ error = "" /\ state[a] = "proposed"
              /\ now # None /\ ~Expired(a, now)
              /\ lock' = t
              /\ pc' = [pc EXCEPT ![t] = "reading"]
              /\ job' = [job EXCEPT ![t] = [action |-> a, actual |-> None]]
              /\ UNCHANGED reply
        /\ UNCHANGED <<ledger, runs>>

\* Mutant of Abandon: a raising callback is tried again under the lock.
AbandonRetries(t, code) ==
    /\ Raise(code)
    /\ pc' = [pc EXCEPT ![t] = "reading"]
    /\ UNCHANGED lock

\* An exception inside the critical section releases the lock.
Abandon(t, code) ==
    /\ Raise(code)
    /\ lock' = None
    /\ pc' = [pc EXCEPT ![t] = "idle"]

\* The target provider runs under the lock; seen = None when it raises or its
\* answer is malformed.
ReadTarget(t, seen) ==
    /\ pc[t] = "reading"
    /\ IF seen = None
       THEN Abandon(t, "raised") /\ UNCHANGED job
       ELSE /\ job' = [job EXCEPT ![t].actual = seen]
            /\ pc' = [pc EXCEPT ![t] = "deciding"]
            /\ UNCHANGED <<lock, reply>>
    /\ UNCHANGED <<ledger, runs>>

\* The second reading of the clock, then stale or reserved; the lock is released.
Decide(t, now) ==
    LET a == job[t].action
    IN  /\ pc[t] = "deciding"
        /\ \/ /\ now = None
              /\ Abandon(t, "raised")
              /\ UNCHANGED ledger
           \/ /\ now # None /\ Expired(a, now)
              /\ Abandon(t, "approval_expired")
              /\ UNCHANGED ledger
           \/ /\ now # None /\ ~Expired(a, now)
              /\ job[t].actual # Precondition[spec[a]]
              /\ Move(a, "stale", now)
              /\ Answer(a, "stale")
              /\ lock' = None
              /\ pc' = [pc EXCEPT ![t] = "idle"]
              /\ UNCHANGED <<spec, approval, keys>>
           \/ /\ now # None /\ ~Expired(a, now)
              /\ job[t].actual = Precondition[spec[a]]
              /\ approval' = [approval EXCEPT ![a].status = "consumed"]
              /\ Move(a, "executing", now)
              /\ lock' = None
              /\ pc' = [pc EXCEPT ![t] = "simulating"]
              /\ UNCHANGED <<spec, keys, reply>>
        /\ UNCHANGED <<job, runs>>

\* What the simulator does: it echoes the arguments, raises SimulationFailure,
\* or anything else (another exception, another value).
Answers == {"echo", "failure", "other"}
\* Mutant of AfterRun: the simulator is run again when it raises.
RunAgain == [echo |-> "succeeding", failure |-> "failing", other |-> "simulating"]

\* Mutant of AfterRun: every exception counts as a SimulationFailure.
CatchAll == [echo |-> "succeeding", failure |-> "failing", other |-> "failing"]

AfterRun == [echo |-> "succeeding", failure |-> "failing", other |-> "raising"]

\* The simulator runs outside the lock.
Simulate(t, answer) ==
    LET a == job[t].action
    IN  /\ pc[t] = "simulating"
        /\ runs' = [runs EXCEPT ![a] = Append(@, answer)]
        /\ pc' = [pc EXCEPT ![t] = AfterRun[answer]]
        /\ UNCHANGED <<ledger, lock, job, reply>>

\* _complete, which a raising clock turns into the exception path of execute.
Complete(t, now) ==
    LET a == job[t].action
        s == IF pc[t] = "succeeding" THEN "succeeded" ELSE "failed"
    IN  /\ pc[t] \in {"succeeding", "failing"} /\ lock = None
        /\ IF now = None
           THEN /\ pc' = [pc EXCEPT ![t] = "raising"]
                /\ UNCHANGED <<state, trail, reply>>
           ELSE /\ Move(a, s, now)
                /\ Answer(a, s)
                /\ pc' = [pc EXCEPT ![t] = "idle"]
        /\ UNCHANGED <<spec, approval, keys, lock, job, runs>>

\* Mutant of Uncertain: the clock's failure is not caught a second time.
UncertainUnstamped(t, now) ==
    LET a == job[t].action
    IN  /\ pc[t] = "raising" /\ lock = None
        /\ IF state[a] = "executing"
           THEN Move(a, "uncertain", now)
           ELSE UNCHANGED <<state, trail>>
        /\ Raise("raised")
        /\ pc' = [pc EXCEPT ![t] = "idle"]
        /\ UNCHANGED <<spec, approval, keys, lock, job, runs>>

\* Mutant of Uncertain: the exception leaves the action as it is.
LeftExecuting(t, now) ==
    /\ pc[t] = "raising" /\ lock = None
    /\ Raise("raised")
    /\ pc' = [pc EXCEPT ![t] = "idle"]
    /\ UNCHANGED <<ledger, lock, job, runs>>

\* The except clause of execute: an action still executing becomes uncertain,
\* stamped with the last transition's time when the clock raises here too.
Uncertain(t, now) ==
    LET a == job[t].action
        at == IF now = None THEN trail[a][Len(trail[a])].at ELSE now
    IN  /\ pc[t] = "raising" /\ lock = None
        /\ IF state[a] = "executing"
           THEN Move(a, "uncertain", at)
           ELSE UNCHANGED <<state, trail>>
        /\ Raise("raised")
        /\ pc' = [pc EXCEPT ![t] = "idle"]
        /\ UNCHANGED <<spec, approval, keys, lock, job, runs>>

----------------------------------------------------------------------------
Readings == Times \cup {None}

\* The critical sections that start and end within one action.
Operation(t) ==
    \E caller \in Callers, a \in ActionIds :
        \/ \E s \in Specs, k \in Keys : Propose(t, caller, s, a, k)
        \/ Get(t, caller, a)
        \/ \E now \in Readings :
              \/ \E id \in ApprovalIds, expires \in Expiries :
                    Approve(t, caller, a, id, expires, now)
              \/ Reject(t, caller, a, now)
              \/ \E grant \in Held : Execute(t, caller, a, grant, now)

\* The rest of an execute under way.
UnderLock(t) ==
    \/ \E seen \in Versions \cup {None} : ReadTarget(t, seen)
    \/ \E now \in Readings : Decide(t, now)

Run(t) == \E answer \in Answers : Simulate(t, answer)

Settle(t) == \E now \in Readings : Complete(t, now) \/ Uncertain(t, now)

Next == \E t \in Threads : Operation(t) \/ UnderLock(t) \/ Run(t) \/ Settle(t)

Spec == Init /\ [][Next]_vars

----------------------------------------------------------------------------
(* Properties                                                              *)

Moves == [state : States, at : Times]
Replies == [action : ActionIds \cup {None},
            told : States \cup Errors \cup {"approved", "nothing"}]
Holding == {"reading", "deciding"}
Running == {"simulating", "succeeding", "failing", "raising"}

TypeOK ==
    /\ state \in [ActionIds -> States \cup {"absent"}]
    /\ spec \in [ActionIds -> Specs \cup {None}]
    /\ approval \in [ActionIds -> Approvals \cup {None}]
    /\ trail \in [ActionIds -> Seq(Moves)]
    /\ keys \in [Keys -> ActionIds \cup {None}]
    /\ lock \in Threads \cup {None}
    /\ pc \in [Threads -> {"idle"} \cup Holding \cup Running]
    /\ job \in [Threads -> [action : ActionIds \cup {None},
                            actual : Versions \cup {None}]]
    /\ runs \in [ActionIds -> Seq(Answers)]
    /\ reply \in Replies

\* However many callers execute one action at once, and however often they
\* retry it, execute enters the simulator at most once, and exactly once for
\* every action it settled ("All duplicate callers see this reservation before
\* any simulator entry").
AtMostOneSimulation ==
    \A a \in ActionIds :
        /\ Len(runs[a]) <= 1
        /\ state[a] \in Reserved \ {"executing"} => Len(runs[a]) = 1

\* What execute runs was approved for that action, reserved strictly before the
\* approval expired (by the clock read after the target provider returned) and
\* against a target that met the spec's preconditions.
SimulationIsGranted ==
    \A t \in Threads : pc[t] \in Running =>
        LET a == job[t].action
        IN  /\ spec[a] \in AuthorizedSpecs
            /\ approval[a] # None
            /\ approval[a].status = "consumed"
            /\ trail[a][2].at < approval[a].expires_at
            /\ job[t].actual = Precondition[spec[a]]

\* The two dictionaries of propose agree: every stored action is reached by
\* exactly one idempotency key and every key reaches a stored action, within the
\* capacity of the scope, under any interleaving of proposals and retries.
KeysBindOneAction ==
    /\ \A a \in Stored : \E k \in Keys : keys[k] = a
    /\ \A k \in Keys : keys[k] # None => keys[k] \in Stored
    /\ \A j, k \in Keys : keys[j] = keys[k] /\ keys[j] # None => j = k
    /\ Cardinality(Stored) <= MaxActions

\* The settled state reports what the simulator did: success only for an echo,
\* failure only for a SimulationFailure; a clock that raises afterwards makes
\* either uncertain, never the other.
OutcomeIsTheSimulators ==
    \A a \in ActionIds :
        /\ state[a] = "succeeded" => runs[a] = <<"echo">>
        /\ state[a] = "failed" => runs[a] = <<"failure">>

\* A record once stored keeps its spec and key; its transitions are only
\* appended to; its approval never changes but from available to consumed, in
\* the step that makes the action executing.
RecordsOnlyGrow ==
    [][/\ \A k \in Keys : keys[k] # None => keys'[k] = keys[k]
       /\ \A a \in Stored :
             /\ spec'[a] = spec[a]
             /\ Len(trail'[a]) >= Len(trail[a])
             /\ SubSeq(trail'[a], 1, Len(trail[a])) = trail[a]
             /\ state'[a] # state[a] => trail'[a] # trail[a]
             /\ approval[a] # None /\ approval'[a] # approval[a] =>
                   /\ state[a] = "proposed" /\ state'[a] = "executing"
                   /\ approval'[a] = [approval[a] EXCEPT !.status = "consumed"]]_vars

----------------------------------------------------------------------------
(* Refinement                                                              *)

Phase(a) == CASE state[a] \in {"absent", "proposed"} -> state[a]
              [] state[a] \in {"rejected", "stale"} -> "closed"
              [] state[a] = "executing" -> "reserved"
              [] OTHER -> "settled"

Contract == INSTANCE SimulationContract WITH
    Actions <- ActionIds,
    phase <- [a \in ActionIds |-> Phase(a)],
    grant <- [a \in ActionIds |-> IF approval[a] = None THEN "none" ELSE approval[a].status],
    ran <- [a \in ActionIds |-> Len(runs[a])]

\* The controller implements the contract of one action: each critical section,
\* each run of the simulator and each step in between is one step of it or none.
ContractHeld == Contract!Spec
=============================================================================
