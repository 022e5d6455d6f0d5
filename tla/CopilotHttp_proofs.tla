------------------------- MODULE CopilotHttp_proofs -------------------------
(* The properties of the HTTP adapter, for any requests, ids, sessions, any  *)
(* capacity, any number of turns kept and any number of threads.             *)
EXTENDS CopilotHttp, SequenceTheorems, FiniteSetTheorems, TLAPS

-----------------------------------------------------------------------------
(* The inductive invariant *)

Typed ==
    /\ pc \in [Requests -> {"absent", "queued", "working", "running", "done"}]
    /\ call \in [Requests -> Calls \cup {None}]
    /\ answer \in [Requests -> Statuses \cup {None}]
    /\ lock \in Requests \cup {None}
    /\ stored \in [SessionIds -> Sessions \cup {None}]
    /\ history \in [Sessions -> Seq(Requests)]
    /\ DOMAIN turn = Requests

\* A request has a call once it arrived and an answer once it is done, and the
\* one that runs is the one that holds the lock.
Phases == \A r \in Requests :
    /\ pc[r] = "absent" <=> call[r] = None
    /\ pc[r] = "done" <=> answer[r] # None
    /\ pc[r] = "running" <=> lock = r
    /\ pc[r] = "running" => call[r].route \in {"one-shot", "turn"}

\* A turn that runs knows its session.
TurnHeld == \A r \in Requests :
    pc[r] = "running" /\ call[r].route = "turn" =>
        turn[r] \in [session : Sessions, retained : Seq(Requests)]

HInv == Typed /\ Phases /\ TurnHeld /\ SessionsApart /\ TurnOwnsItsSession

-----------------------------------------------------------------------------
(* Lemmas about the operators *)

\* What each route carries.
LEMMA CallFields ==
    ASSUME NEW c \in Calls
    PROVE  /\ c.route \in {"one-shot", "create", "health", "turn", "delete"}
           /\ c.route \in {"turn", "delete"} => c.id \in SessionIds
  BY DEF Calls

\* Where the last n of l items begin, and how many they are.
LEMMA FirstOfLast ==
    ASSUME NEW l \in Nat, NEW n \in Nat
    PROVE  LET first == IF l > n THEN l - n + 1 ELSE 1
               m     == IF l > n THEN n ELSE l
           IN  /\ m \in Nat /\ first \in Int /\ first >= 1
               /\ m = IF first <= l THEN l - first + 1 ELSE 0
               /\ first = l - m + 1
  OBVIOUS

\* The last n turns of a sequence of turns (turns[-n:]).
LEMMA LatestTyped ==
    ASSUME NEW s \in Seq(Requests), NEW n \in Nat
    PROVE  /\ LatestTurns(s, n) \in Seq(Requests)
           /\ Len(LatestTurns(s, n)) = IF Len(s) > n THEN n ELSE Len(s)
           /\ LatestTurns(s, n)
                = SubSeq(s, Len(s) - Len(LatestTurns(s, n)) + 1, Len(s))
           /\ \A i \in 1..Len(LatestTurns(s, n)) :
                LatestTurns(s, n)[i] = s[Len(s) - Len(LatestTurns(s, n)) + i]
<1> DEFINE first == IF Len(s) > n THEN Len(s) - n + 1 ELSE 1
           m == IF Len(s) > n THEN n ELSE Len(s)
<1>0. Len(s) \in Nat
  BY LenProperties
<1>1. /\ m \in Nat /\ first \in Int /\ first >= 1
      /\ m = IF first <= Len(s) THEN Len(s) - first + 1 ELSE 0
      /\ first = Len(s) - m + 1
  BY <1>0, FirstOfLast, Zenon
<1>2. \A i \in first..Len(s) : s[i] \in Requests
  BY <1>0, <1>1, ElementOfSeq
<1>3. /\ SubSeq(s, first, Len(s)) \in Seq(Requests)
      /\ Len(SubSeq(s, first, Len(s))) = m
      /\ \A i \in 1..Len(s) - first + 1 : SubSeq(s, first, Len(s))[i] = s[first + i - 1]
  <2> HIDE DEF first, m
  <2>1. Len(s) \in Nat /\ first \in Int
    BY <1>0, <1>1
  <2>2. /\ SubSeq(s, first, Len(s)) \in Seq(Requests)
        /\ Len(SubSeq(s, first, Len(s)))
             = IF first <= Len(s) THEN Len(s) - first + 1 ELSE 0
        /\ \A i \in 1..Len(s) - first + 1 : SubSeq(s, first, Len(s))[i] = s[first + i - 1]
    BY <2>1, <1>2, SubSeqProperties
  <2> QED BY <1>1, <2>2
<1>4. LatestTurns(s, n) = SubSeq(s, first, Len(s))
  BY DEF LatestTurns
<1>5. Len(LatestTurns(s, n)) = m
  BY <1>3, <1>4
<1>m. m = IF Len(s) > n THEN n ELSE Len(s)
  OBVIOUS
<1> HIDE DEF first, m
<1>6. first = Len(s) - Len(LatestTurns(s, n)) + 1
  BY <1>1, <1>5
<1>7. Len(s) - first + 1 = Len(LatestTurns(s, n))
  BY <1>0, <1>1, <1>5
<1>8. \A i \in 1..Len(LatestTurns(s, n)) :
         LatestTurns(s, n)[i] = s[Len(s) - Len(LatestTurns(s, n)) + i]
  <2> SUFFICES ASSUME NEW i \in 1..Len(LatestTurns(s, n))
               PROVE  LatestTurns(s, n)[i] = s[Len(s) - Len(LatestTurns(s, n)) + i]
    OBVIOUS
  <2>1. LatestTurns(s, n)[i] = s[first + i - 1]
    BY <1>3, <1>4, <1>7
  <2>2. first + i - 1 = Len(s) - Len(LatestTurns(s, n)) + i
    BY <1>6, <1>5, <1>1, <1>0
  <2> QED BY <2>1, <2>2
<1> QED BY <1>m, <1>3, <1>4, <1>5, <1>6, <1>8

\* A history with one more turn.
LEMMA OneMoreTurn ==
    ASSUME NEW s \in Seq(Requests), NEW r \in Requests
    PROVE  /\ Append(s, r) \in Seq(Requests)
           /\ Len(s) \in Nat /\ Len(Append(s, r)) = Len(s) + 1
           /\ \A i \in 1..Len(s) : Append(s, r)[i] = s[i]
           /\ Append(s, r)[Len(s) + 1] = r
  BY AppendProperties, LenProperties

\* How much of the history a turn retains, and how long the new history is.
LEMMA CommitLength ==
    ASSUME NEW k \in Nat, NEW t \in Nat, NEW n \in Nat \ {0}, NEW a, NEW b,
           t = IF k < n THEN k ELSE n - 1,
           a = IF t + 1 > n THEN n ELSE t + 1,
           b = IF k + 1 > n THEN n ELSE k + 1
    PROVE  a = t + 1 /\ b = t + 1
<1>1. CASE k < n
  <2>1. t = k /\ ~(k + 1 > n)
    BY <1>1
  <2> QED BY <2>1
<1>2. CASE ~(k < n)
  <2>1. t = n - 1 /\ t + 1 = n
    BY <1>2
  <2>2. a = n
    BY <2>1
  <2>3. b = n
    BY <1>2
  <2> QED BY <2>1, <2>2, <2>3
<1> QED BY <1>1, <1>2

LEMMA IndexInTail ==
    ASSUME NEW k \in Nat, NEW t \in Nat, NEW i \in 1..t + 1
    PROVE  /\ i <= t => i \in 1..k - (k - t + 1) + 1
           /\ (k - t + 1) + i - 1 = k - t + i
           /\ k - t + (t + 1) = k + 1
  OBVIOUS

\* What a turn retained, while it is still the end of the history, and its own
\* request make the same new history as the history itself does
\* (_retained_history, and the commit of a turn).
LEMMA CommitIsAppend ==
    ASSUME NEW kept \in Seq(Requests), NEW told \in Seq(Requests), NEW r \in Requests,
           Len(told) = (IF Len(kept) < MaxTurns THEN Len(kept) ELSE MaxTurns - 1),
           told = SubSeq(kept, Len(kept) - Len(told) + 1, Len(kept))
    PROVE  LatestTurns(Append(told, r), MaxTurns) = LatestTurns(Append(kept, r), MaxTurns)
<1> USE HttpAssumption
<1>1. /\ Append(told, r) \in Seq(Requests) /\ Append(kept, r) \in Seq(Requests)
      /\ Len(told) \in Nat /\ Len(kept) \in Nat
      /\ Len(Append(told, r)) = Len(told) + 1 /\ Len(Append(kept, r)) = Len(kept) + 1
      /\ \A i \in 1..Len(told) : Append(told, r)[i] = told[i]
      /\ \A i \in 1..Len(kept) : Append(kept, r)[i] = kept[i]
      /\ Append(told, r)[Len(told) + 1] = r /\ Append(kept, r)[Len(kept) + 1] = r
  BY OneMoreTurn
<1> DEFINE a == LatestTurns(Append(told, r), MaxTurns)
           b == LatestTurns(Append(kept, r), MaxTurns)
<1>2. /\ a \in Seq(Requests) /\ b \in Seq(Requests)
      /\ Len(a) = Len(told) + 1
      /\ Len(b) = Len(told) + 1
      /\ \A i \in 1..Len(a) : a[i] = Append(told, r)[i]
      /\ \A i \in 1..Len(b) : b[i] = Append(kept, r)[Len(kept) - Len(told) + i]
  <2>1. MaxTurns \in Nat
    OBVIOUS
  <2>2. Len(a) = Len(told) + 1 /\ Len(b) = Len(told) + 1
    <3>1. Len(a) = IF Len(told) + 1 > MaxTurns THEN MaxTurns ELSE Len(told) + 1
      <4>1. Len(a) = IF Len(Append(told, r)) > MaxTurns THEN MaxTurns ELSE Len(Append(told, r))
        BY <1>1, <2>1, LatestTyped, Zenon
      <4> HIDE DEF a
      <4> QED BY <4>1, <1>1, Zenon
    <3>2. Len(b) = IF Len(kept) + 1 > MaxTurns THEN MaxTurns ELSE Len(kept) + 1
      <4>1. Len(b) = IF Len(Append(kept, r)) > MaxTurns THEN MaxTurns ELSE Len(Append(kept, r))
        BY <1>1, <2>1, LatestTyped, Zenon
      <4> HIDE DEF b
      <4> QED BY <4>1, <1>1, Zenon
    <3> HIDE DEF a, b
    <3> QED BY <1>1, <3>1, <3>2, CommitLength
  <2>3. Len(Append(kept, r)) - Len(b) = Len(kept) - Len(told)
        /\ Len(Append(told, r)) - Len(a) = 0
    BY <1>1, <2>2
  <2>4. /\ a \in Seq(Requests) /\ b \in Seq(Requests)
        /\ \A i \in 1..Len(a) : a[i] = Append(told, r)[Len(Append(told, r)) - Len(a) + i]
        /\ \A i \in 1..Len(b) : b[i] = Append(kept, r)[Len(Append(kept, r)) - Len(b) + i]
    BY <1>1, <2>1, LatestTyped
  <2> HIDE DEF a, b
  <2>5. ASSUME NEW i \in 1..Len(a) PROVE a[i] = Append(told, r)[i]
    <3>1. Len(Append(told, r)) - Len(a) + i = i
      BY <2>3, <2>2, <1>1
    <3> QED BY <2>4, <3>1
  <2> QED BY <2>2, <2>3, <2>4, <2>5
<1> HIDE DEF a, b
<1>3. \A i \in 1..Len(told) : told[i] = kept[Len(kept) - Len(told) + i]
  <2>1. \A i \in Len(kept) - Len(told) + 1..Len(kept) : kept[i] \in Requests
    BY <1>1, ElementOfSeq
  <2>2. Len(kept) - (Len(kept) - Len(told) + 1) + 1 = Len(told)
    BY <1>1
  <2>3. Len(kept) - Len(told) + 1 \in Int /\ Len(kept) \in Int
    BY <1>1
  <2> DEFINE m == Len(kept) - Len(told) + 1
             n == Len(kept)
  <2>4. \A i \in 1..n - m + 1 : SubSeq(kept, m, n)[i] = kept[m + i - 1]
    <3>1. m \in Int /\ n \in Int /\ \A i \in m..n : kept[i] \in Requests
      BY <2>1, <2>3
    <3> HIDE DEF m, n
    <3> QED BY <3>1, SubSeqProperties
  <2>5. ASSUME NEW i \in 1..Len(told) PROVE told[i] = kept[Len(kept) - Len(told) + i]
    <3>1. i \in 1..n - m + 1 /\ m + i - 1 = Len(kept) - Len(told) + i
      BY <1>1, IndexInTail
    <3>2. told[i] = SubSeq(kept, m, n)[i]
      OBVIOUS
    <3> QED BY <2>4, <3>1, <3>2
  <2> QED BY <2>5
<1>4. ASSUME NEW i \in 1..Len(a) PROVE a[i] = b[i]
  <2>1. CASE i = Len(told) + 1
    <3>1. Len(kept) - Len(told) + i = Len(kept) + 1
      BY <1>1, <1>2, <2>1, IndexInTail
    <3>2. a[i] = r
      BY <1>1, <1>2, <2>1
    <3>3. b[i] = Append(kept, r)[Len(kept) + 1]
      BY <1>2, <3>1
    <3> QED BY <1>1, <3>2, <3>3
  <2>2. CASE i \in 1..Len(told)
    <3>1. Len(kept) - Len(told) + i \in 1..Len(kept)
      BY <1>1, <2>2
    <3>2. a[i] = told[i]
      BY <1>1, <1>2, <2>2
    <3>3. b[i] = kept[Len(kept) - Len(told) + i]
      BY <1>1, <1>2, <3>1
    <3> QED BY <1>3, <2>2, <3>2, <3>3
  <2> QED BY <1>1, <1>2, <2>1, <2>2
<1>5. a = b
  BY <1>2, <1>4, SeqEqual
<1> QED BY <1>5 DEF a, b


-----------------------------------------------------------------------------
(* The invariant is inductive *)

\* What a turn keeps of a history (_retained_history).
LEMMA RetainedHistory ==
    ASSUME NEW kept \in Seq(Requests)
    PROVE  LET told == LatestTurns(kept, MaxTurns - 1)
           IN  /\ told \in Seq(Requests)
               /\ Len(told) = IF Len(kept) < MaxTurns THEN Len(kept) ELSE MaxTurns - 1
               /\ told = SubSeq(kept, Len(kept) - Len(told) + 1, Len(kept))
<1> DEFINE told == LatestTurns(kept, MaxTurns - 1)
<1>1. MaxTurns \in Nat \ {0} /\ MaxTurns - 1 \in Nat
  BY HttpAssumption
<1>2. /\ told \in Seq(Requests)
      /\ Len(told) = IF Len(kept) > MaxTurns - 1 THEN MaxTurns - 1 ELSE Len(kept)
      /\ told = SubSeq(kept, Len(kept) - Len(told) + 1, Len(kept))
  BY <1>1, LatestTyped
<1>3. Len(kept) \in Nat
  BY LenProperties
<1> HIDE DEF told
<1>4. Len(told) = IF Len(kept) < MaxTurns THEN Len(kept) ELSE MaxTurns - 1
  BY <1>1, <1>2, <1>3
<1> QED BY <1>2, <1>4 DEF told

\* A table of sessions with one entry more, or one less.
LEMMA StoredFinite == IsFiniteSet(StoredIds) /\ Cardinality(StoredIds) \in Nat
  BY HttpAssumption, FS_Subset, FS_CardinalityType DEF StoredIds

LEMMA InitInvariant == Init => HInv
<1> SUFFICES ASSUME Init PROVE HInv
  OBVIOUS
<1> USE DEF Init
<1>1. Typed
  <2>1. <<>> \in Seq(Requests)
    OBVIOUS
  <2> QED BY <2>1 DEF Typed
<1>2. Phases /\ TurnHeld /\ TurnOwnsItsSession
  BY HttpAssumption DEF Phases, TurnHeld, TurnOwnsItsSession
<1>3. SessionsApart
  BY DEF SessionsApart, StoredIds
<1> QED BY <1>1, <1>2, <1>3 DEF HInv

\* An answered request leaves its thread.
LEMMA AnswerTyped ==
    ASSUME Typed, NEW r \in Requests, NEW status \in Statuses, Answer(r, status)
    PROVE  /\ pc' \in [Requests -> {"absent", "queued", "working", "running", "done"}]
           /\ call' \in [Requests -> Calls \cup {None}]
           /\ answer' \in [Requests -> Statuses \cup {None}]
  BY DEF Typed, Answer

LEMMA TypedKept == Typed /\ Phases /\ TurnHeld /\ [Next]_vars => Typed'
<1> SUFFICES ASSUME Typed, Phases, TurnHeld, [Next]_vars PROVE Typed'
  OBVIOUS
<1> USE DEF Typed
<1>1. ASSUME NEW r \in Requests, Arrive(r) PROVE Typed'
  BY <1>1 DEF Arrive
<1>2. ASSUME NEW r \in Requests, Refuse(r) PROVE Typed'
  BY <1>2 DEF Refuse, Answer, Statuses
<1>3. ASSUME NEW r \in Requests, Dispatch(r) PROVE Typed'
  BY <1>3 DEF Dispatch
<1>4. ASSUME NEW r \in Requests, Health(r) PROVE Typed'
  BY <1>4 DEF Health, Answer, Statuses
<1>5. ASSUME NEW r \in Requests, CreateSession(r) PROVE Typed'
  <2>1. PICK status \in {201, 409, 500} : Answer(r, status)
    BY <1>5 DEF CreateSession
  <2>2. status \in Statuses
    BY <2>1 DEF Statuses
  <2>3. stored' \in [SessionIds -> Sessions \cup {None}] /\ history' \in [Sessions -> Seq(Requests)]
    <3>1. CASE UNCHANGED <<stored, history>>
      BY <3>1
    <3>2. ASSUME NEW id \in SessionIds, NEW s \in Sessions, Store(id, s)
          PROVE  stored' \in [SessionIds -> Sessions \cup {None}]
                 /\ history' \in [Sessions -> Seq(Requests)]
      <4>1. <<>> \in Seq(Requests)
        OBVIOUS
      <4> QED BY <3>2, <4>1 DEF Store
    <3> QED BY <1>5, <3>1, <3>2 DEF CreateSession
  <2>4. UNCHANGED <<lock, turn>>
    BY <1>5 DEF CreateSession
  <2> QED BY <2>1, <2>2, <2>3, <2>4, AnswerTyped
<1>6. ASSUME NEW r \in Requests, DeleteSession(r) PROVE Typed'
  <2>1. PICK status \in {204, 404} : Answer(r, status)
    BY <1>6 DEF DeleteSession
  <2>2. status \in Statuses
    BY <2>1 DEF Statuses
  <2>3. stored' \in [SessionIds -> Sessions \cup {None}] /\ UNCHANGED <<lock, history, turn>>
    BY <1>6 DEF DeleteSession
  <2> QED BY <2>1, <2>2, <2>3, AnswerTyped
<1>7. ASSUME NEW r \in Requests, BeginOneShot(r) PROVE Typed'
  BY <1>7 DEF BeginOneShot, Enters
<1>8. ASSUME NEW r \in Requests, BeginTurn(r) PROVE Typed'
  <2> DEFINE session == stored[call[r].id]
  <2>1. call[r].id \in SessionIds
    BY <1>8, CallFields, HttpAssumption DEF BeginTurn, Enters, Phases
  <2>2. CASE session = None
    <3>1. Answer(r, 404) /\ UNCHANGED <<lock, turn, stored, history>>
      BY <1>8, <2>2 DEF BeginTurn
    <3>2. 404 \in Statuses
      BY DEF Statuses
    <3> QED BY <3>1, <3>2, AnswerTyped
  <2>3. CASE session # None
    <3>1. session \in Sessions
      BY <2>1, <2>3
    <3>2. Retained(session) \in Seq(Requests)
      BY <3>1, RetainedHistory DEF Retained
    <3>3. /\ lock' = r /\ pc' = [pc EXCEPT ![r] = "running"]
          /\ turn' = [turn EXCEPT ![r] = [session |-> session, retained |-> Retained(session)]]
          /\ UNCHANGED <<call, answer, stored, history>>
      BY <1>8, <2>3 DEF BeginTurn
    <3> HIDE DEF session
    <3> QED BY <3>1, <3>2, <3>3
  <2> QED BY <2>2, <2>3
<1>9. ASSUME NEW r \in Requests, Answered(r) PROVE Typed'
  <2>1. Answer(r, 200) /\ 200 \in Statuses
    BY <1>9 DEF Answered, Statuses
  <2>2. lock' = None /\ turn' = [turn EXCEPT ![r] = None] /\ UNCHANGED stored
    BY <1>9 DEF Answered
  <2>3. history' \in [Sessions -> Seq(Requests)]
    <3>1. CASE call[r].route = "one-shot"
      BY <1>9, <3>1 DEF Answered
    <3>2. CASE call[r].route # "one-shot"
      <4>2. turn[r].retained \in Seq(Requests) /\ turn[r].session \in Sessions
        BY <1>9, <3>2 DEF Answered, Phases, TurnHeld
      <4>3. LatestTurns(Append(turn[r].retained, r), MaxTurns) \in Seq(Requests)
        BY <4>2, OneMoreTurn, LatestTyped, HttpAssumption
      <4> QED BY <1>9, <3>2, <4>3 DEF Answered
    <3> QED BY <3>1, <3>2
  <2> QED BY <2>1, <2>2, <2>3, AnswerTyped
<1>10. ASSUME NEW r \in Requests, Raised(r) PROVE Typed'
  BY <1>10 DEF Raised, Answer, Statuses
<1>11. CASE UNCHANGED vars
  BY <1>11 DEF vars
<1> QED
  BY <1>1, <1>2, <1>3, <1>4, <1>5, <1>6, <1>7, <1>8, <1>9, <1>10, <1>11 DEF Next, Endpoint

LEMMA PhasesKept == Typed /\ Phases /\ [Next]_vars => Phases'
<1> SUFFICES ASSUME Typed, Phases, [Next]_vars, NEW q \in Requests
             PROVE  /\ pc'[q] = "absent" <=> call'[q] = None
                    /\ pc'[q] = "done" <=> answer'[q] # None
                    /\ pc'[q] = "running" <=> lock' = q
                    /\ pc'[q] = "running" => call'[q].route \in {"one-shot", "turn"}
  BY DEF Phases
<1> DEFINE Goal == /\ pc'[q] = "absent" <=> call'[q] = None
                   /\ pc'[q] = "done" <=> answer'[q] # None
                   /\ pc'[q] = "running" <=> lock' = q
                   /\ pc'[q] = "running" => call'[q].route \in {"one-shot", "turn"}
<1>0. /\ \A c \in Calls : c # None
      /\ \A r \in Requests : r # None
      /\ \A status \in Statuses : status # None
  BY HttpAssumption
<1>a. ASSUME NEW r \in Requests, NEW status \in Statuses, Answer(r, status), pc[r] # "absent",
             pc[r] = "running" => lock' = None, pc[r] # "running" => lock' = lock
      PROVE  Goal
  BY <1>0, <1>a DEF Answer, Typed, Phases
<1>1. ASSUME NEW r \in Requests, Arrive(r) PROVE Goal
  BY <1>0, <1>1 DEF Arrive, Typed, Phases
<1>2. ASSUME NEW r \in Requests, Refuse(r) PROVE Goal
  BY <1>a, <1>2 DEF Refuse, Statuses
<1>3. ASSUME NEW r \in Requests, Dispatch(r) PROVE Goal
  BY <1>3 DEF Dispatch, Typed, Phases
<1>4. ASSUME NEW r \in Requests, Health(r) PROVE Goal
  BY <1>a, <1>4 DEF Health, Statuses
<1>5. ASSUME NEW r \in Requests, CreateSession(r) PROVE Goal
  <2>1. PICK status \in {201, 409, 500} : Answer(r, status)
    BY <1>5 DEF CreateSession
  <2> QED BY <1>a, <1>5, <2>1 DEF CreateSession, Enters, Statuses
<1>6. ASSUME NEW r \in Requests, DeleteSession(r) PROVE Goal
  <2>1. PICK status \in {204, 404} : Answer(r, status)
    BY <1>6 DEF DeleteSession
  <2> QED BY <1>a, <1>6, <2>1 DEF DeleteSession, Enters, Statuses
<1>7. ASSUME NEW r \in Requests, BeginOneShot(r) PROVE Goal
  BY <1>0, <1>7 DEF BeginOneShot, Enters, Typed, Phases
<1>8. ASSUME NEW r \in Requests, BeginTurn(r) PROVE Goal
  <2>1. CASE stored[call[r].id] = None
    <3>1. Answer(r, 404) /\ lock' = lock /\ pc[r] = "working"
      BY <1>8, <2>1 DEF BeginTurn, Enters
    <3> QED BY <1>a, <3>1 DEF Statuses
  <2>2. CASE stored[call[r].id] # None
    <3>1. /\ pc[r] = "working" /\ call[r].route = "turn" /\ lock = None /\ lock' = r
          /\ pc' = [pc EXCEPT ![r] = "running"] /\ UNCHANGED <<call, answer>>
      BY <1>8, <2>2 DEF BeginTurn, Enters
    <3> QED BY <1>0, <3>1 DEF Typed, Phases
  <2> QED BY <2>1, <2>2
<1>9. ASSUME NEW r \in Requests, Answered(r) PROVE Goal
  BY <1>a, <1>9 DEF Answered, Statuses
<1>10. ASSUME NEW r \in Requests, Raised(r) PROVE Goal
  <2>1. PICK status \in {500, 504} : Answer(r, status)
    BY <1>10 DEF Raised
  <2> QED BY <1>a, <1>10, <2>1 DEF Raised, Statuses
<1>11. CASE UNCHANGED vars
  BY <1>11 DEF vars, Phases
<1> QED
  BY <1>1, <1>2, <1>3, <1>4, <1>5, <1>6, <1>7, <1>8, <1>9, <1>10, <1>11 DEF Next, Endpoint

\* While a request runs, nobody else changes what it works on: every step that
\* could takes the lock first.
LEMMA RunsAlone ==
    ASSUME HInv, [Next]_vars, NEW r \in Requests, pc[r] = "running", pc'[r] = "running"
    PROVE  UNCHANGED <<lock, stored, history, turn>> /\ call'[r] = call[r]
<1>1. lock = r /\ r # None /\ call[r] # None
  BY HttpAssumption DEF HInv, Phases
<1>2. ASSUME NEW q \in Requests, Endpoint(q) PROVE FALSE
  BY <1>1, <1>2 DEF Endpoint, CreateSession, DeleteSession, BeginOneShot, BeginTurn, Enters
<1>3. ASSUME NEW q \in Requests, Answered(q) \/ Raised(q) PROVE FALSE
  <2>1. pc[q] = "running" /\ pc'[q] = "done"
    BY <1>3 DEF Answered, Raised, Answer, HInv, Typed
  <2>2. q = r
    BY <1>1, <2>1 DEF HInv, Phases
  <2> QED BY <2>1, <2>2
<1>4. ASSUME NEW q \in Requests, Arrive(q)
      PROVE  UNCHANGED <<lock, stored, history, turn>> /\ call'[r] = call[r]
  BY <1>1, <1>4 DEF Arrive, HInv, Typed
<1>5. ASSUME NEW q \in Requests, Refuse(q) \/ Dispatch(q) \/ Health(q)
      PROVE  UNCHANGED <<lock, stored, history, turn>> /\ call'[r] = call[r]
  BY <1>5 DEF Refuse, Dispatch, Health, Answer
<1>6. CASE UNCHANGED vars
  BY <1>6 DEF vars
<1> QED BY <1>2, <1>3, <1>4, <1>5, <1>6 DEF Next

\* A request that starts to run is a one-shot, or a turn of a stored session.
LEMMA Starts ==
    ASSUME HInv, [Next]_vars, NEW r \in Requests, pc[r] # "running", pc'[r] = "running"
    PROVE  BeginOneShot(r) \/ (BeginTurn(r) /\ stored[call[r].id] # None)
<1>1. ASSUME NEW q \in Requests, NEW status, Answer(q, status) PROVE FALSE
  BY <1>1 DEF Answer, HInv, Typed
<1>2. ASSUME NEW q \in Requests, Arrive(q) \/ Dispatch(q) PROVE FALSE
  BY <1>2 DEF Arrive, Dispatch, HInv, Typed
<1>3. ASSUME NEW q \in Requests,
             Refuse(q) \/ Health(q) \/ CreateSession(q) \/ DeleteSession(q)
                       \/ Answered(q) \/ Raised(q)
      PROVE  FALSE
  BY <1>1, <1>3 DEF Refuse, Health, CreateSession, DeleteSession, Answered, Raised
<1>4. ASSUME NEW q \in Requests, BeginOneShot(q) PROVE BeginOneShot(r)
  BY <1>4 DEF BeginOneShot, HInv, Typed
<1>5. ASSUME NEW q \in Requests, BeginTurn(q)
      PROVE  BeginTurn(r) /\ stored[call[r].id] # None
  <2>1. stored[call[q].id] # None /\ pc' = [pc EXCEPT ![q] = "running"]
    BY <1>1, <1>5 DEF BeginTurn
  <2>2. q = r
    BY <2>1 DEF HInv, Typed
  <2> QED BY <1>5, <2>1, <2>2
<1>6. CASE UNCHANGED vars
  BY <1>6 DEF vars
<1>7. ASSUME Next PROVE BeginOneShot(r) \/ (BeginTurn(r) /\ stored[call[r].id] # None)
  <2>1. PICK q \in Requests :
           Arrive(q) \/ Refuse(q) \/ Dispatch(q) \/ Health(q)
           \/ Endpoint(q) \/ Answered(q) \/ Raised(q)
    BY <1>7 DEF Next
  <2>2. CASE Endpoint(q)
    <3>1. CASE CreateSession(q)
      BY <3>1, <1>3
    <3>2. CASE DeleteSession(q)
      BY <3>2, <1>3
    <3>3. CASE BeginOneShot(q)
      BY <3>3, <1>4
    <3>4. CASE BeginTurn(q)
      BY <3>4, <1>5
    <3> QED BY <2>2, <3>1, <3>2, <3>3, <3>4 DEF Endpoint
  <2> QED BY <2>1, <2>2, <1>2, <1>3
<1> QED BY <1>6, <1>7

LEMMA TurnHeldKept == HInv /\ Typed' /\ [Next]_vars => TurnHeld'
<1> SUFFICES ASSUME HInv, Typed', [Next]_vars, NEW r \in Requests,
                    pc'[r] = "running", call'[r].route = "turn"
             PROVE  turn'[r] \in [session : Sessions, retained : Seq(Requests)]
  BY DEF TurnHeld
<1>1. CASE pc[r] = "running"
  BY <1>1, RunsAlone DEF HInv, TurnHeld
<1>2. CASE pc[r] # "running"
  <2>1. BeginOneShot(r) \/ (BeginTurn(r) /\ stored[call[r].id] # None)
    BY <1>2, Starts
  <2>2. ~BeginOneShot(r)
    BY DEF BeginOneShot, Enters
  <2>3. call[r].id \in SessionIds
    BY <2>1, <2>2, CallFields, HttpAssumption DEF BeginTurn, Enters, HInv, Phases, Typed
  <2>4. turn'[r] = [session |-> stored[call[r].id], retained |-> Retained(stored[call[r].id])]
    BY <2>1, <2>2 DEF BeginTurn, HInv, Typed
  <2>5. stored[call[r].id] \in Sessions
    BY <2>1, <2>2, <2>3 DEF HInv, Typed
  <2>6. Retained(stored[call[r].id]) \in Seq(Requests)
    BY <2>5, RetainedHistory DEF Retained, HInv, Typed
  <2> QED BY <2>4, <2>5, <2>6
<1> QED BY <1>1, <1>2

LEMMA ApartKept == HInv /\ [Next]_vars => SessionsApart'
<1> SUFFICES ASSUME HInv, [Next]_vars PROVE SessionsApart'
  OBVIOUS
<1> USE DEF HInv, Typed
<1>0. IsFiniteSet(StoredIds) /\ Cardinality(StoredIds) \in Nat /\ MaxSessions \in Nat
  BY StoredFinite, HttpAssumption
<1>1. CASE UNCHANGED stored
  BY <1>1 DEF SessionsApart, StoredIds
<1>2. ASSUME NEW id \in SessionIds, NEW s \in Sessions, Store(id, s) PROVE SessionsApart'
  <2>1. s # None
    BY HttpAssumption
  <2>2. StoredIds' = StoredIds \cup {id} /\ id \notin StoredIds
    BY <1>2, <2>1 DEF Store, StoredIds
  <2>3. Cardinality(StoredIds') = Cardinality(StoredIds) + 1
    BY <1>0, <2>2, FS_AddElement
  <2>4. Cardinality(StoredIds') <= MaxSessions
    BY <1>0, <1>2, <2>3 DEF Store
  <2>5. \A i, j \in StoredIds' : i # j => stored'[i] # stored'[j]
    BY <1>2, <2>2 DEF Store, StoredIds, SessionsApart
  <2> QED BY <2>4, <2>5 DEF SessionsApart
<1>3. ASSUME NEW id \in SessionIds, stored' = [stored EXCEPT ![id] = None] PROVE SessionsApart'
  <2>1. StoredIds' = StoredIds \ {id}
    BY <1>3 DEF StoredIds
  <2>2. Cardinality(StoredIds') <= Cardinality(StoredIds) /\ Cardinality(StoredIds') \in Nat
    BY <1>0, <2>1, FS_Subset, FS_CardinalityType
  <2>3. Cardinality(StoredIds') <= MaxSessions
    BY <1>0, <2>2 DEF SessionsApart
  <2>4. \A i, j \in StoredIds' : i # j => stored'[i] # stored'[j]
    BY <1>3, <2>1 DEF StoredIds, SessionsApart
  <2> QED BY <2>3, <2>4 DEF SessionsApart
<1>4. ASSUME NEW r \in Requests, CreateSession(r) PROVE SessionsApart'
  BY <1>1, <1>2, <1>4 DEF CreateSession
<1>5. ASSUME NEW r \in Requests, DeleteSession(r) PROVE SessionsApart'
  <2>1. call[r].id \in StoredIds => call[r].id \in SessionIds
    BY DEF StoredIds
  <2> QED BY <1>1, <1>3, <1>5, <2>1 DEF DeleteSession
<1>6. ASSUME NEW r \in Requests, Arrive(r) \/ Refuse(r) \/ Dispatch(r) \/ Health(r)
                 \/ BeginOneShot(r) \/ BeginTurn(r) \/ Answered(r) \/ Raised(r)
      PROVE  UNCHANGED stored
  BY <1>6 DEF Arrive, Refuse, Dispatch, Health, BeginOneShot, BeginTurn, Answered, Raised
<1>7. CASE UNCHANGED vars
  BY <1>1, <1>7 DEF vars
<1> HIDE DEF HInv, Typed
<1> QED BY <1>1, <1>4, <1>5, <1>6, <1>7 DEF Next, Endpoint

LEMMA TurnOwnsKept == HInv /\ Phases' /\ [Next]_vars => TurnOwnsItsSession'
<1> SUFFICES ASSUME HInv, Phases', [Next]_vars, NEW r \in Requests, pc'[r] = "running"
             PROVE  /\ lock' = r
                    /\ call'[r].route = "turn" =>
                        LET kept == history'[turn'[r].session]
                            told == turn'[r].retained
                        IN /\ stored'[call'[r].id] = turn'[r].session
                           /\ Len(told) = IF Len(kept) < MaxTurns THEN Len(kept) ELSE MaxTurns - 1
                           /\ told = SubSeq(kept, Len(kept) - Len(told) + 1, Len(kept))
  BY DEF TurnOwnsItsSession
<1>1. lock' = r
  BY DEF Phases
<1>2. CASE pc[r] = "running"
  BY <1>1, <1>2, RunsAlone DEF HInv, TurnOwnsItsSession
<1>3. CASE pc[r] # "running"
  <2>1. BeginOneShot(r) \/ (BeginTurn(r) /\ stored[call[r].id] # None)
    BY <1>3, Starts
  <2>2. CASE BeginOneShot(r)
    BY <1>1, <2>2 DEF BeginOneShot, Enters, HInv, Typed
  <2>3. CASE BeginTurn(r) /\ stored[call[r].id] # None
    <3> DEFINE session == stored[call[r].id]
    <3>1. call[r].id \in SessionIds
      BY <2>3, CallFields, HttpAssumption DEF BeginTurn, Enters, HInv, Phases, Typed
    <3>2. session \in Sessions /\ history[session] \in Seq(Requests)
      BY <2>3, <3>1 DEF HInv, Typed
    <3>3. /\ turn'[r] = [session |-> session, retained |-> LatestTurns(history[session], MaxTurns - 1)]
          /\ UNCHANGED <<call, stored, history>>
      BY <2>3 DEF BeginTurn, Retained, HInv, Typed
    <3> HIDE DEF session
    <3>4. turn'[r].session = session /\ history'[turn'[r].session] = history[session]
          /\ turn'[r].retained = LatestTurns(history[session], MaxTurns - 1)
      BY <3>3
    <3>5. stored'[call'[r].id] = session
      BY <3>3 DEF session
    <3> QED BY <1>1, <3>2, <3>4, <3>5, RetainedHistory
  <2> QED BY <2>1, <2>2, <2>3
<1> QED BY <1>2, <1>3

LEMMA InvariantKept == HInv /\ [Next]_vars => HInv'
<1> SUFFICES ASSUME HInv, [Next]_vars PROVE HInv'
  OBVIOUS
<1>1. Typed' /\ Phases'
  BY TypedKept, PhasesKept DEF HInv
<1> QED
  BY <1>1, TurnHeldKept, ApartKept, TurnOwnsKept DEF HInv

-----------------------------------------------------------------------------
(* Theorems *)

\* The lock, the phases of requests, the sessions and the turns of the adapter
\* satisfy an inductive invariant (http_api.py, session_repository.py).
THEOREM HttpInvariant == Spec => []HInv
  BY InitInvariant, InvariantKept, PTL DEF Spec

\* A turn runs alone and on the session it was asked for, however many requests
\* arrive meanwhile, deletes and creates included (run_session_turn).
THEOREM TurnsOwnTheirSessions == Spec => []TurnOwnsItsSession
<1>1. HInv => TurnOwnsItsSession
  BY DEF HInv
<1> QED
  BY HttpInvariant, <1>1, PTL

\* The repository stays within its capacity and no two ids share a session
\* (CopilotSessionRepository.create, create_session).
THEOREM SessionsStayApart == Spec => []SessionsApart
<1>1. HInv => SessionsApart
  BY DEF HInv
<1> QED
  BY HttpInvariant, <1>1, PTL

-----------------------------------------------------------------------------
(* The refinement of SerialSessions *)

\* The history behind each id, which is what SerialSessions calls sessions.
View == [id \in SessionIds |-> IF stored[id] = None THEN None ELSE history[stored[id]]]

\* The operators of SerialSessions are those of the adapter.
LEMMA SameOperators ==
    /\ Serial!Calls = Calls
    /\ \A s, n : Serial!LatestTurns(s, n) = LatestTurns(s, n)
    /\ HInv => Serial!Stored = StoredIds
<1>1. Serial!Calls = Calls /\ \A s, n : Serial!LatestTurns(s, n) = LatestTurns(s, n)
  BY DEF Serial!Calls, Calls, Serial!LatestTurns, LatestTurns
<1>2. ASSUME HInv PROVE Serial!Stored = StoredIds
  BY <1>2, HttpAssumption DEF Serial!Stored, StoredIds, HInv, Typed
<1> QED BY <1>1, <1>2

LEMMA SameCardinality == \A S : Serial!Cardinality(S) = Cardinality(S)
  BY DEF Serial!Cardinality, Cardinality

\* A request on its thread is pending.
LEMMA IsPending ==
    ASSUME HInv, NEW r \in Requests, pc[r] \in {"queued", "working", "running"}
    PROVE  Serial!Pending(r, call[r].route)
  BY DEF Serial!Pending, HInv, Phases

\* An answer that goes with no change of a session.
LEMMA IdleAnswer ==
    ASSUME HInv, NEW r \in Requests, NEW status, Answer(r, status),
           pc[r] \in {"queued", "working", "running"}, UNCHANGED <<stored, history>>,
           \/ call[r].route = "health" /\ status = 200
           \/ call[r].route = "one-shot" /\ status \in {200, 422, 500, 504}
           \/ call[r].route = "create" /\ status \in {409, 422, 500}
           \/ call[r].route = "turn" /\ status = 422
           \/ call[r].route = "turn" /\ call[r].id \notin StoredIds /\ status = 404
           \/ call[r].route = "turn" /\ call[r].id \in StoredIds /\ status \in {500, 504}
           \/ call[r].route = "delete" /\ call[r].id \notin StoredIds /\ status = 404
    PROVE  Serial!Next
<1>1. Serial!Pending(r, call[r].route)
  BY IsPending
<1>2. View' = View
  BY DEF View
<1>3. Serial!Answer(r, status)
  BY DEF Answer, Serial!Answer
<1>4. Serial!Stored = StoredIds
  BY SameOperators
<1>5. Serial!Idle(r)
  BY <1>1, <1>2, <1>3, <1>4 DEF Serial!Idle, View
<1> QED BY <1>5 DEF Serial!Next

LEMMA InitSimulation == Init => Serial!Init
<1> SUFFICES ASSUME Init PROVE Serial!Init
  OBVIOUS
<1>1. View \in [SessionIds -> {None, <<>>}]
  BY DEF Init, View
<1> QED BY <1>1 DEF Init, Serial!Init, View

\* A new session is empty, and the others stay what they are.
LEMMA CreateSimulation ==
    ASSUME HInv, NEW r \in Requests, CreateSession(r)
    PROVE  Serial!Next
<1>1. pc[r] = "working" /\ call[r].route = "create"
  BY DEF CreateSession, Enters
<1>2. ASSUME NEW id \in SessionIds, NEW s \in Sessions, Store(id, s), Answer(r, 201)
      PROVE  Serial!Next
  <2>1. s # None
    BY HttpAssumption
  <2>2. View' = [View EXCEPT ![id] = <<>>]
    <3>1. ASSUME NEW i \in SessionIds
          PROVE  View'[i] = IF i = id THEN <<>> ELSE View[i]
      BY <1>2, <2>1 DEF Store, View, HInv, Typed
    <3> QED BY <3>1 DEF View
  <2>3. Cardinality(Serial!Stored) < MaxSessions /\ id \in SessionIds \ Serial!Stored
    BY <1>2, SameOperators DEF Store
  <2>4. Serial!Answer(r, 201)
    BY <1>2 DEF Answer, Serial!Answer
  <2>5. Serial!Pending(r, "create")
    BY <1>1, IsPending
  <2>6. Serial!Create(r)
    <3>1. \E i \in SessionIds \ Serial!Stored : View' = [View EXCEPT ![i] = <<>>]
      BY <2>2, <2>3
    <3> QED BY <2>3, <2>4, <2>5, <3>1, SameCardinality DEF Serial!Create, View
  <2> QED BY <2>6 DEF Serial!Next
<1>3. ASSUME NEW status \in {409, 500}, Answer(r, status), UNCHANGED <<stored, history>>
      PROVE  Serial!Next
  BY <1>1, <1>3, IdleAnswer
<1> QED BY <1>2, <1>3 DEF CreateSession

LEMMA DeleteSimulation ==
    ASSUME HInv, NEW r \in Requests, DeleteSession(r)
    PROVE  Serial!Next
<1>1. pc[r] = "working" /\ call[r].route = "delete" /\ UNCHANGED history
  BY DEF DeleteSession, Enters
<1>2. CASE call[r].id \in StoredIds
  <2> DEFINE id == call[r].id
  <2>1. Answer(r, 204) /\ stored' = [stored EXCEPT ![id] = None] /\ id \in SessionIds
    BY <1>2 DEF DeleteSession, StoredIds
  <2>2. View' = [View EXCEPT ![id] = None]
    <3> HIDE DEF id
    <3>1. ASSUME NEW i \in SessionIds
          PROVE  View'[i] = IF i = id THEN None ELSE View[i]
      BY <1>1, <2>1 DEF View, HInv, Typed
    <3> QED BY <3>1 DEF View
  <2>3. Serial!Answer(r, 204)
    BY <2>1 DEF Answer, Serial!Answer
  <2>4. Serial!Pending(r, "delete")
    BY <1>1, IsPending
  <2>5. Serial!Delete(r)
    BY <1>2, <2>2, <2>3, <2>4, SameOperators DEF Serial!Delete, View
  <2> QED BY <2>5 DEF Serial!Next
<1>3. CASE call[r].id \notin StoredIds
  <2>1. Answer(r, 404) /\ UNCHANGED stored
    BY <1>3 DEF DeleteSession
  <2> QED BY <1>1, <1>3, <2>1, IdleAnswer
<1> QED BY <1>2, <1>3

\* The turn that answers is appended to its session, and to no other.
LEMMA AnsweredSimulation ==
    ASSUME HInv, NEW r \in Requests, Answered(r)
    PROVE  Serial!Next
<1>1. pc[r] = "running" /\ Answer(r, 200) /\ UNCHANGED stored
  BY DEF Answered
<1>2. call[r].route \in {"one-shot", "turn"} /\ call[r] \in Calls
  BY <1>1 DEF HInv, Phases, Typed
<1>3. CASE call[r].route = "one-shot"
  <2>1. UNCHANGED history
    BY <1>3 DEF Answered
  <2> QED BY <1>1, <1>3, <2>1, IdleAnswer
<1>4. CASE call[r].route = "turn"
  <2> DEFINE id == call[r].id
             session == turn[r].session
             told == turn[r].retained
             kept == history[session]
  <2>1. /\ id \in SessionIds /\ session \in Sessions /\ told \in Seq(Requests)
        /\ kept \in Seq(Requests) /\ session # None
    BY <1>1, <1>2, <1>4, CallFields, HttpAssumption DEF HInv, TurnHeld, Typed
  <2>2. /\ stored[id] = session
        /\ Len(told) = IF Len(kept) < MaxTurns THEN Len(kept) ELSE MaxTurns - 1
        /\ told = SubSeq(kept, Len(kept) - Len(told) + 1, Len(kept))
    BY <1>1, <1>4 DEF HInv, TurnOwnsItsSession
  <2>3. history' = [history EXCEPT ![session] = LatestTurns(Append(told, r), MaxTurns)]
    BY <1>4 DEF Answered
  <2> HIDE DEF id, session, told, kept
  <2>4. LatestTurns(Append(told, r), MaxTurns) = LatestTurns(Append(kept, r), MaxTurns)
    BY <2>1, <2>2, CommitIsAppend
  <2>5. id \in StoredIds /\ View[id] = kept
    BY <2>1, <2>2 DEF StoredIds, View, kept
  <2>6. View' = [View EXCEPT ![id] = LatestTurns(Append(kept, r), MaxTurns)]
    <3>1. ASSUME NEW i \in SessionIds
          PROVE  View'[i] = IF i = id THEN LatestTurns(Append(kept, r), MaxTurns) ELSE View[i]
      <4>1. CASE i = id
        BY <1>1, <2>1, <2>2, <2>3, <2>4, <4>1 DEF View, HInv, Typed
      <4>2. CASE i # id /\ stored[i] = None
        BY <1>1, <4>2 DEF View
      <4>3. CASE i # id /\ stored[i] # None
        <5>1. i \in StoredIds /\ stored[i] # session
          BY <2>2, <2>5, <4>3 DEF StoredIds, HInv, SessionsApart
        <5>2. history'[stored[i]] = history[stored[i]]
          BY <2>3, <5>1, <4>3 DEF HInv, Typed
        <5> QED BY <1>1, <4>3, <5>2 DEF View
      <4> QED BY <4>1, <4>2, <4>3
    <3> QED BY <3>1 DEF View
  <2>7. Serial!Answer(r, 200)
    BY <1>1 DEF Answer, Serial!Answer
  <2>8. Serial!Pending(r, "turn")
    BY <1>1, <1>4, IsPending
  <2>9. Serial!Turn(r)
    <3>1. id \in Serial!Stored /\ id = call[r].id
      BY <2>5, SameOperators DEF id
    <3>2. View' = [View EXCEPT ![id] = Serial!LatestTurns(Append(View[id], r), MaxTurns)]
      BY <2>5, <2>6, SameOperators
    <3> QED BY <2>7, <2>8, <3>1, <3>2 DEF Serial!Turn, View
  <2> QED BY <2>9 DEF Serial!Next
<1> QED BY <1>2, <1>3, <1>4

\* Every step of the adapter is a step of the serial service, or none.
LEMMA StepSimulation == HInv /\ [Next]_vars => [Serial!Next]_Serial!vars
<1> SUFFICES ASSUME HInv, [Next]_vars PROVE [Serial!Next]_Serial!vars
  OBVIOUS
<1>1. ASSUME NEW r \in Requests, Arrive(r) PROVE Serial!Next
  <2>1. call[r] = None /\ View' = View
    BY <1>1 DEF Arrive, HInv, Phases, View
  <2>2. Serial!Arrive(r)
    BY <1>1, <2>1, SameOperators DEF Arrive, Serial!Arrive, View
  <2> QED BY <2>2 DEF Serial!Next
<1>2. ASSUME NEW r \in Requests, Refuse(r) PROVE Serial!Next
  BY <1>2, IdleAnswer DEF Refuse
<1>3. ASSUME NEW r \in Requests, Dispatch(r) \/ BeginOneShot(r) PROVE UNCHANGED Serial!vars
  <2>1. View' = View /\ UNCHANGED <<call, answer>>
    BY <1>3 DEF Dispatch, BeginOneShot, View
  <2> QED BY <2>1 DEF Serial!vars, View
<1>4. ASSUME NEW r \in Requests, Health(r) PROVE Serial!Next
  BY <1>4, IdleAnswer DEF Health
<1>5. ASSUME NEW r \in Requests, BeginTurn(r) PROVE [Serial!Next]_Serial!vars
  <2>1. pc[r] = "working" /\ call[r].route = "turn" /\ UNCHANGED <<stored, history>>
    BY <1>5 DEF BeginTurn, Enters
  <2>2. CASE stored[call[r].id] = None
    <3>1. Answer(r, 404) /\ call[r].id \notin StoredIds
      BY <1>5, <2>2 DEF BeginTurn, StoredIds
    <3> QED BY <2>1, <3>1, IdleAnswer
  <2>3. CASE stored[call[r].id] # None
    <3>1. UNCHANGED <<call, answer>> /\ View' = View
      BY <1>5, <2>1, <2>3 DEF BeginTurn, View
    <3> QED BY <3>1 DEF Serial!vars, View
  <2> QED BY <2>2, <2>3
<1>6. ASSUME NEW r \in Requests, Raised(r) PROVE Serial!Next
  <2>1. PICK status \in {500, 504} : Answer(r, status)
    BY <1>6 DEF Raised
  <2>2. /\ pc[r] = "running" /\ UNCHANGED <<stored, history>>
        /\ call[r].route \in {"one-shot", "turn"} /\ call[r] \in Calls
    BY <1>6 DEF Raised, HInv, Phases, Typed
  <2>3. CASE call[r].route = "one-shot"
    BY <2>1, <2>2, <2>3, IdleAnswer
  <2>4. CASE call[r].route = "turn"
    <3>1. call[r].id \in SessionIds /\ stored[call[r].id] \in Sessions
      <4>1. call[r].id \in SessionIds
        BY <2>2, <2>4, CallFields
      <4>2. turn[r].session \in Sessions
        BY <2>2, <2>4 DEF HInv, TurnHeld
      <4>3. stored[call[r].id] = turn[r].session
        BY <2>2, <2>4 DEF HInv, TurnOwnsItsSession
      <4> QED BY <4>1, <4>2, <4>3
    <3>2. call[r].id \in StoredIds
      BY <3>1, HttpAssumption DEF StoredIds
    <3> QED BY <2>1, <2>2, <2>4, <3>2, IdleAnswer
  <2> QED BY <2>2, <2>3, <2>4
<1>7. CASE UNCHANGED vars
  BY <1>7 DEF vars, Serial!vars
<1>8. ASSUME Next PROVE [Serial!Next]_Serial!vars
  <2>1. PICK r \in Requests :
           Arrive(r) \/ Refuse(r) \/ Dispatch(r) \/ Health(r)
           \/ Endpoint(r) \/ Answered(r) \/ Raised(r)
    BY <1>8 DEF Next
  <2>2. CASE Endpoint(r)
    BY <2>2, <1>3, <1>5, CreateSimulation, DeleteSimulation DEF Endpoint
  <2> QED BY <2>1, <2>2, <1>1, <1>2, <1>3, <1>4, <1>6, AnsweredSimulation
<1> QED BY <1>7, <1>8

\* Requests take effect one at a time, in the order they are answered, and each
\* answer tells its effect, whatever waits for the lock meanwhile (http_api.py).
THEOREM ServesSerially == Spec => SerialService
  BY InitSimulation, StepSimulation, HttpInvariant, PTL DEF Spec, SerialService, Serial!Spec

=============================================================================
