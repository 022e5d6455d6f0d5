---------------------------- MODULE CopilotSession ----------------------------
(***************************************************************************)
(* One CopilotSession of copilot/session.py, used directly: by one caller   *)
(* as the command line does, or by several threads, or from inside a turn   *)
(* by a tool or an on_failure callback, none of which the class forbids or  *)
(* guards against.  A turn reads the history it will retain, works without  *)
(* any lock, and assigns the history anew when it answers.                  *)
(***************************************************************************)
EXTENDS Integers, Sequences

CONSTANTS
    Callers,      \* threads, or nested calls, that use the session
    MaxMaxTurns,  \* bound: the largest max_turns a session is built with
    MaxAsks,      \* bound: turns asked, each named by its number
    None          \* absence of a value

ASSUME SessionAssumption ==
    /\ MaxMaxTurns \in Nat \ {0}
    /\ MaxAsks \in Nat
    /\ None \notin Seq(Nat)

VARIABLES
    maxTurns,  \* _max_turns
    history,   \* _history, by the numbers of the turns
    retained,  \* of each caller inside a turn: the history it retained
    asking,    \* the number of the turn each caller is inside of, 0 for none
    asked,     \* history: how many turns were asked
    context,   \* history: the turns the provider was shown with each turn
    answered,  \* history: the turns that answered since the last reset
    raced      \* history: some call began while a turn was under way

vars == <<maxTurns, history, retained, asking, asked, context, answered, raced>>

Turns == 1..MaxAsks

Init ==
    /\ maxTurns \in 1..MaxMaxTurns
    /\ history = <<>>
    /\ retained = [c \in Callers |-> <<>>]
    /\ asking = [c \in Callers |-> 0]
    /\ asked = 0
    /\ context = [n \in Turns |-> None]
    /\ answered = <<>>
    /\ raced = FALSE

\* turns[-n:] for n > 0.
LastTurns(turns, n) ==
    SubSeq(turns, IF Len(turns) > n THEN Len(turns) - n + 1 ELSE 1, Len(turns))

\* Mutant of RetainedHistory: max_turns = 1 is sliced like any other.
RetainedBySlice ==
    IF maxTurns = 1 THEN history ELSE LastTurns(history, maxTurns - 1)

\* _retained_history: a slice by -0 would be the whole history.
RetainedHistory ==
    IF maxTurns = 1 THEN <<>> ELSE LastTurns(history, maxTurns - 1)

UnderWay == \E c \in Callers : asking[c] # 0

\* ask_with_result and ask_with_observability up to the provider: a question
\* that is refused leaves no trace and is not a step.
Ask(c) ==
    /\ asking[c] = 0
    /\ asked < MaxAsks
    /\ asked' = asked + 1
    /\ asking' = [asking EXCEPT ![c] = asked']
    /\ retained' = [retained EXCEPT ![c] = RetainedHistory]
    /\ context' = [context EXCEPT ![asked'] = RetainedHistory]
    /\ raced' = (raced \/ UnderWay)
    /\ UNCHANGED <<maxTurns, history, answered>>

Leave(c) ==
    /\ asking' = [asking EXCEPT ![c] = 0]
    /\ retained' = [retained EXCEPT ![c] = <<>>]

\* Mutant of Commit: the turn is appended to what the history is by now.
CommitToCurrent(c) ==
    /\ asking[c] # 0
    /\ history' = LastTurns(Append(history, asking[c]), maxTurns)
    /\ answered' = Append(answered, asking[c])
    /\ Leave(c)
    /\ UNCHANGED <<maxTurns, asked, context, raced>>

\* The turn answers: what was retained and the new turn become the history.
Commit(c) ==
    /\ asking[c] # 0
    /\ history' = LastTurns(Append(retained[c], asking[c]), maxTurns)
    /\ answered' = Append(answered, asking[c])
    /\ Leave(c)
    /\ UNCHANGED <<maxTurns, asked, context, raced>>

\* Mutant of Fail: the history is cut for the new turn before it answers.
FailCutsHistory(c) ==
    /\ asking[c] # 0
    /\ history' = retained[c]
    /\ Leave(c)
    /\ UNCHANGED <<maxTurns, asked, context, answered, raced>>

\* The turn raises, whatever the reason: nothing is assigned.
Fail(c) ==
    /\ asking[c] # 0
    /\ Leave(c)
    /\ UNCHANGED <<maxTurns, history, asked, context, answered, raced>>

Reset(c) ==
    /\ asking[c] = 0
    /\ history' = <<>>
    /\ answered' = <<>>
    /\ raced' = (raced \/ UnderWay)
    /\ UNCHANGED <<maxTurns, retained, asking, asked, context>>

Next == \E c \in Callers : Ask(c) \/ Commit(c) \/ Fail(c) \/ Reset(c)

Spec == Init /\ [][Next]_vars

-----------------------------------------------------------------------------

\* The history never holds more than max_turns turns, and no provider request
\* is built from more than max_turns - 1 of them, max_turns = 1 included.
Bounded ==
    /\ Len(history) <= maxTurns
    /\ \A n \in Turns : context[n] # None => Len(context[n]) < maxTurns

\* The history is a conversation that took place: each turn in it was answered
\* by a provider that had been shown exactly the turns before it, as far back as
\* the history goes, and neither the history nor what a provider is shown grows
\* past max_turns.  Overlapping turns lose one another, they never mix.
Coherent ==
    /\ Bounded
    /\ \A i \in DOMAIN history :
        LET before == SubSeq(history, 1, i - 1)
            shown  == context[history[i]]
        IN /\ Len(shown) >= i - 1
           /\ SubSeq(shown, Len(shown) - i + 2, Len(shown)) = before

\* Calls that never overlapped lose nothing: the history is the last max_turns
\* turns that answered since the last reset.
AloneKeepsAll == ~raced => history = LastTurns(answered, maxTurns)

=============================================================================
