---------------------------- MODULE SerialSessions ----------------------------
(***************************************************************************)
(* What the HTTP adapter promises its clients: every business request takes *)
(* effect at one moment, as if requests were served one at a time, and the  *)
(* answer tells the effect.  A turn answered 200 is appended to the         *)
(* history the session had at that moment, cut to the last MaxTurns; any    *)
(* other answer of a turn leaves every session alone.                       *)
(***************************************************************************)
EXTENDS Integers, Sequences, FiniteSets

CONSTANTS Requests, SessionIds, MaxSessions, MaxTurns, None

VARIABLES
    call,      \* what each request asks for, None until it arrives
    sessions,  \* the history behind each session id, None without a session
    answer     \* the status each request is answered, None until then

vars == <<call, sessions, answer>>

Calls == [route : {"one-shot", "create", "health"}, id : {None}]
         \cup [route : {"turn", "delete"}, id : SessionIds]

LatestTurns(turns, n) ==
    SubSeq(turns, IF Len(turns) > n THEN Len(turns) - n + 1 ELSE 1, Len(turns))

Stored == {id \in SessionIds : sessions[id] # None}

Init ==
    /\ call = [r \in Requests |-> None]
    /\ sessions \in [SessionIds -> {None, <<>>}]
    /\ answer = [r \in Requests |-> None]

Pending(r, route) ==
    call[r] # None /\ call[r].route = route /\ answer[r] = None

Answer(r, status) == answer' = [answer EXCEPT ![r] = status] /\ UNCHANGED call

Arrive(r) ==
    /\ call[r] = None
    /\ \E c \in Calls : call' = [call EXCEPT ![r] = c]
    /\ UNCHANGED <<sessions, answer>>

Create(r) ==
    /\ Pending(r, "create")
    /\ Cardinality(Stored) < MaxSessions
    /\ \E id \in SessionIds \ Stored : sessions' = [sessions EXCEPT ![id] = <<>>]
    /\ Answer(r, 201)

Delete(r) ==
    /\ Pending(r, "delete")
    /\ call[r].id \in Stored
    /\ sessions' = [sessions EXCEPT ![call[r].id] = None]
    /\ Answer(r, 204)

Turn(r) ==
    /\ Pending(r, "turn")
    /\ call[r].id \in Stored
    /\ sessions' = [sessions EXCEPT
           ![call[r].id] = LatestTurns(Append(@, r), MaxTurns)]
    /\ Answer(r, 200)

\* The answers that change no session.
Idle(r) ==
    /\ UNCHANGED sessions
    /\ \/ Pending(r, "health") /\ Answer(r, 200)
       \/ Pending(r, "one-shot")
          /\ \E status \in {200, 422, 500, 504} : Answer(r, status)
       \/ Pending(r, "create")
          /\ \E status \in {409, 422, 500} : Answer(r, status)
       \/ Pending(r, "turn")
          /\ \/ Answer(r, 422)
             \/ call[r].id \notin Stored /\ Answer(r, 404)
             \/ call[r].id \in Stored
                /\ \E status \in {500, 504} : Answer(r, status)
       \/ Pending(r, "delete") /\ call[r].id \notin Stored /\ Answer(r, 404)

Next == \E r \in Requests :
    Arrive(r) \/ Create(r) \/ Delete(r) \/ Turn(r) \/ Idle(r)

Spec == Init /\ [][Next]_vars

=============================================================================
