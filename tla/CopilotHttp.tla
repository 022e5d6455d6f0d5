----------------------------- MODULE CopilotHttp -----------------------------
(***************************************************************************)
(* The HTTP adapter of copilot/http_api.py over the session repository and  *)
(* the sessions it stores.                                                  *)
(*                                                                          *)
(* Every endpoint runs on a thread of the server's worker pool.  The four   *)
(* business endpoints take business_lock; /health does not.  A turn holds   *)
(* the lock while the provider and the tools work, so it is two actions     *)
(* here: read the session and build the messages, and commit or fail.  How  *)
(* a turn comes to its outcome is CopilotTurn's.  Requests are lost by no   *)
(* one: a client that goes away does not stop its endpoint, and a client's  *)
(* retry is a request of its own.                                           *)
(***************************************************************************)
EXTENDS Integers, Sequences, FiniteSets

CONSTANTS
    Requests,     \* the HTTP requests that may arrive, each once
    SessionIds,   \* ids the repository's id_factory may return
    Sessions,     \* CopilotSession objects
    MaxSessions,  \* the repository's max_sessions
    MaxTurns,     \* create_app's max_turns
    Workers,      \* threads of the server's pool
    None          \* absence of a value

VARIABLES
    pc,       \* where each request is: absent, queued, working, running, done
    call,     \* the route and the session id it asks for
    answer,   \* the status it was answered
    lock,     \* the request holding business_lock across several actions
    stored,   \* the repository's _sessions
    history,  \* _history of each Session: the requests whose turns it keeps
    turn      \* locals of a turn: its session, and the history it retained

vars == <<pc, call, answer, lock, stored, history, turn>>

Calls == [route : {"one-shot", "create", "health"}, id : {None}]
         \cup [route : {"turn", "delete"}, id : SessionIds]
Statuses == {200, 201, 204, 404, 409, 422, 500, 504}

ASSUME HttpAssumption ==
    /\ MaxSessions \in Nat \ {0}
    /\ MaxTurns \in Nat \ {0}
    /\ Workers \in Nat \ {0}
    /\ IsFiniteSet(SessionIds)
    /\ Cardinality(Sessions) >= Cardinality(SessionIds)
    /\ None \notin Requests \cup Sessions \cup Calls \cup Statuses \cup Seq(Requests)

StoredIds == {id \in SessionIds : stored[id] # None}
Busy == {r \in Requests : pc[r] \in {"working", "running"}}

\* turns[-n:], and the empty history for n = 0.
LatestTurns(turns, n) ==
    SubSeq(turns, IF Len(turns) > n THEN Len(turns) - n + 1 ELSE 1, Len(turns))

\* _retained_history.
Retained(session) == LatestTurns(history[session], MaxTurns - 1)

\* The repository is borrowed: the host may have stored fresh sessions in it.
Init ==
    /\ pc = [r \in Requests |-> "absent"]
    /\ call = [r \in Requests |-> None]
    /\ answer = [r \in Requests |-> None]
    /\ lock = None
    /\ stored \in {f \in [SessionIds -> Sessions \cup {None}] :
           /\ \A i, j \in SessionIds : i # j /\ f[i] # None => f[i] # f[j]
           /\ Cardinality({i \in SessionIds : f[i] # None}) <= MaxSessions}
    /\ history = [s \in Sessions |-> <<>>]
    /\ turn = [r \in Requests |-> None]

-----------------------------------------------------------------------------

\* The request is answered and its thread returns to the pool.
Answer(r, status) ==
    /\ answer' = [answer EXCEPT ![r] = status]
    /\ pc' = [pc EXCEPT ![r] = "done"]
    /\ UNCHANGED call

Arrive(r) ==
    /\ pc[r] = "absent"
    /\ pc' = [pc EXCEPT ![r] = "queued"]
    /\ \E c \in Calls : call' = [call EXCEPT ![r] = c]
    /\ UNCHANGED <<answer, lock, stored, history, turn>>

\* A body that is not what _QuestionRequest or _EmptyRequest accepts never
\* reaches its endpoint.
Refuse(r) ==
    /\ pc[r] = "queued"
    /\ call[r].route \in {"one-shot", "create", "turn"}
    /\ Answer(r, 422)
    /\ UNCHANGED <<lock, stored, history, turn>>

\* The endpoint starts on a thread of the pool.
Dispatch(r) ==
    /\ pc[r] = "queued"
    /\ Cardinality(Busy) < Workers
    /\ pc' = [pc EXCEPT ![r] = "working"]
    /\ UNCHANGED <<call, answer, lock, stored, history, turn>>

\* Mutant of Health: the endpoint waits for business_lock.
HealthUnderLock(r) ==
    /\ pc[r] = "working"
    /\ call[r].route = "health"
    /\ lock = None
    /\ Answer(r, 200)
    /\ UNCHANGED <<lock, stored, history, turn>>

Health(r) ==
    /\ pc[r] = "working"
    /\ call[r].route = "health"
    /\ Answer(r, 200)
    /\ UNCHANGED <<lock, stored, history, turn>>

\* The endpoint gets business_lock.
Enters(r, route) == pc[r] = "working" /\ call[r].route = route /\ lock = None

\* Mutant of Store: one session more than max_sessions.
StoreOneMore(id, s) ==
    /\ Cardinality(StoredIds) <= MaxSessions
    /\ id \notin StoredIds
    /\ \A i \in SessionIds : stored[i] # s
    /\ stored' = [stored EXCEPT ![id] = s]
    /\ history' = [history EXCEPT ![s] = <<>>]

\* CopilotSessionRepository.create: the capacity is checked before the
\* id_factory is asked, and a new Session is stored only under an unused id.
Store(id, s) ==
    /\ Cardinality(StoredIds) < MaxSessions
    /\ id \notin StoredIds
    /\ \A i \in SessionIds : stored[i] # s
    /\ stored' = [stored EXCEPT ![id] = s]
    /\ history' = [history EXCEPT ![s] = <<>>]

\* create_session: the host's factory may also return an id in use or raise
\* RuntimeError (409, like a full repository), or return no id or raise anything
\* else (500).
CreateSession(r) ==
    /\ Enters(r, "create")
    /\ \/ \E id \in SessionIds, s \in Sessions : Store(id, s) /\ Answer(r, 201)
       \/ Answer(r, 409) /\ UNCHANGED <<stored, history>>
       \/ /\ Cardinality(StoredIds) < MaxSessions
          /\ Answer(r, 500)
          /\ UNCHANGED <<stored, history>>
    /\ UNCHANGED <<lock, turn>>

\* Mutant of DeleteSession: it does not take business_lock.
DeleteUnlocked(r) ==
    /\ pc[r] = "working" /\ call[r].route = "delete"
    /\ IF call[r].id \in StoredIds
       THEN Answer(r, 204) /\ stored' = [stored EXCEPT ![call[r].id] = None]
       ELSE Answer(r, 404) /\ UNCHANGED stored
    /\ UNCHANGED <<lock, history, turn>>

\* Mutant of DeleteSession: an absent session counts as deleted.
DeleteAbsent(r) ==
    /\ Enters(r, "delete")
    /\ Answer(r, 204)
    /\ stored' = [stored EXCEPT ![call[r].id] = None]
    /\ UNCHANGED <<lock, history, turn>>

DeleteSession(r) ==
    /\ Enters(r, "delete")
    /\ IF call[r].id \in StoredIds
       THEN Answer(r, 204) /\ stored' = [stored EXCEPT ![call[r].id] = None]
       ELSE Answer(r, 404) /\ UNCHANGED stored
    /\ UNCHANGED <<lock, history, turn>>

\* run_one_shot up to the service: a turn with no session.
BeginOneShot(r) ==
    /\ Enters(r, "one-shot")
    /\ lock' = r
    /\ pc' = [pc EXCEPT ![r] = "running"]
    /\ UNCHANGED <<call, answer, stored, history, turn>>

\* run_session_turn up to the provider: the session is looked up, and
\* ask_with_observability takes the history it will retain.
BeginTurn(r) ==
    /\ Enters(r, "turn")
    /\ LET session == stored[call[r].id]
       IN IF session = None
          THEN Answer(r, 404) /\ UNCHANGED <<lock, turn>>
          ELSE /\ lock' = r
               /\ pc' = [pc EXCEPT ![r] = "running"]
               /\ turn' = [turn EXCEPT ![r] =
                      [session |-> session, retained |-> Retained(session)]]
               /\ UNCHANGED <<call, answer>>
    /\ UNCHANGED <<stored, history>>

\* The turn answers: the session commits it to what it retained, the lock is
\* released and the result is mapped.
Answered(r) ==
    /\ pc[r] = "running"
    /\ Answer(r, 200)
    /\ lock' = None
    /\ turn' = [turn EXCEPT ![r] = None]
    /\ IF call[r].route = "one-shot"
       THEN UNCHANGED history
       ELSE history' = [history EXCEPT ![turn[r].session] =
                LatestTurns(Append(turn[r].retained, r), MaxTurns)]
    /\ UNCHANGED stored

\* Mutant of Raised: the lock is released on the way of an answer only.
RaisedLocked(r) ==
    /\ pc[r] = "running"
    /\ \E status \in {500, 504} : Answer(r, status)
    /\ turn' = [turn EXCEPT ![r] = None]
    /\ UNCHANGED <<lock, stored, history>>

\* The turn raises: TimeoutError is answered 504, anything else 500, and the
\* session is not assigned to.
Raised(r) ==
    /\ pc[r] = "running"
    /\ \E status \in {500, 504} : Answer(r, status)
    /\ lock' = None
    /\ turn' = [turn EXCEPT ![r] = None]
    /\ UNCHANGED <<stored, history>>

Endpoint(r) ==
    CreateSession(r) \/ DeleteSession(r) \/ BeginOneShot(r) \/ BeginTurn(r)

Next == \E r \in Requests :
    \/ Arrive(r) \/ Refuse(r) \/ Dispatch(r) \/ Health(r)
    \/ Endpoint(r) \/ Answered(r) \/ Raised(r)

Spec == Init /\ [][Next]_vars

\* The pool gives free threads to waiting requests, and /health returns; no
\* turn need ever end, and the lock need never be handed on.
PoolFairness == \A r \in Requests : SF_vars(Dispatch(r)) /\ WF_vars(Health(r))

\* Turns end, because provider and tools come back, and a thread that waits for
\* the lock gets it when it is free time and again.
BusinessFairness == \A r \in Requests :
    SF_vars(Endpoint(r)) /\ WF_vars(Answered(r) \/ Raised(r))

HealthSpec == Spec /\ PoolFairness
-----------------------------------------------------------------------------
(* What must hold                                                          *)

\* A turn runs alone: it holds the lock, its session is still the one stored
\* under the id it was asked for, and what it told the provider is still the
\* end of that session's history, up to MaxTurns - 1 turns of it, however long
\* the provider takes.
TurnOwnsItsSession ==
    \A r \in Requests : pc[r] = "running" =>
        /\ lock = r
        /\ call[r].route = "turn" =>
            LET kept == history[turn[r].session]
                told == turn[r].retained
            IN /\ stored[call[r].id] = turn[r].session
               /\ Len(told) = IF Len(kept) < MaxTurns THEN Len(kept) ELSE MaxTurns - 1
               /\ told = SubSeq(kept, Len(kept) - Len(told) + 1, Len(kept))

\* The repository never holds more sessions than it may, and no two ids share
\* one CopilotSession, although ids can be used again after a delete.
SessionsApart ==
    /\ Cardinality(StoredIds) <= MaxSessions
    /\ \A i, j \in StoredIds : i # j => stored[i] # stored[j]

\* Requests take effect one at a time and are answered what they did.
Serial == INSTANCE SerialSessions WITH
    sessions <- [id \in SessionIds |->
        IF stored[id] = None THEN None ELSE history[stored[id]]]

\* The adapter implements the serial service of SerialSessions.
SerialService == Serial!Spec

\* Every request is answered: when turns end and the lock is handed on, every
\* path releases it, a full pool of threads waiting for it included.
EveryRequestAnswered ==
    BusinessFairness =>
        \A r \in Requests : pc[r] = "queued" ~> pc[r] = "done"

\* /health bypasses the lock: even when a turn never ends, a health request is
\* answered unless requests that need the lock keep every thread of the pool.
HealthAnswered ==
    []<>(Cardinality({q \in Busy : call[q].route # "health"}) < Workers) =>
        \A r \in Requests :
            (pc[r] = "queued" /\ call[r].route = "health") ~> pc[r] = "done"

=============================================================================
