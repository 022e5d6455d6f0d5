-------------------------- MODULE Workflow_proofs --------------------------
(***************************************************************************)
(* TLAPS proofs about WorkflowController, that it implements the contract  *)
(* of each action, and about WorkflowTools over it, for every set of       *)
(* threads, models, actions, keys, specs, versions and times.              *)
(***************************************************************************)
EXTENDS WorkflowTools, FiniteSetTheorems, SequenceTheorems, TLAPS

-----------------------------------------------------------------------------
(* The controller: its inductive invariant                                  *)

\* What a record of the ledger looks like in each state.
LedgerShape ==
    \A a \in ActionIds :
        /\ state[a] = "absent" => approval[a] = None
        /\ state[a] # "absent" => spec[a] \in AuthorizedSpecs
        /\ state[a] = "proposed" => Len(trail[a]) = 1
        /\ state[a] = "executing" =>
              Len(trail[a]) = 2 /\ trail[a][2].at < approval[a].expires_at
        /\ state[a] \in Reserved <=> (approval[a] # None /\ approval[a].status = "consumed")

\* Between the first check and the decision of execute the thread holds the lock
\* and the action it is about is still proposed and approved.
HoldingShape ==
    \A t \in Threads : pc[t] \in Holding =>
        /\ lock = t
        /\ job[t].action \in ActionIds
        /\ state[job[t].action] = "proposed"
        /\ approval[job[t].action] # None

\* After the decision it works on an action that only it settles.
RunningShape ==
    \A t \in Threads : pc[t] \in Running =>
        /\ job[t].action \in ActionIds
        /\ state[job[t].action] = "executing"
        /\ job[t].actual = Precondition[spec[job[t].action]]

\* No two threads run the same action.
OneRunner ==
    \A t, u \in Threads :
        pc[t] \in Running /\ pc[u] \in Running /\ job[t].action = job[u].action => t = u

\* The simulator has run exactly for the actions past it.
RunsShape ==
    /\ \A a \in ActionIds :
          /\ state[a] \notin Reserved => runs[a] = <<>>
          /\ state[a] = "succeeded" => runs[a] = <<"echo">>
          /\ state[a] = "failed" => runs[a] = <<"failure">>
          /\ state[a] = "uncertain" => Len(runs[a]) = 1
          /\ Len(runs[a]) <= 1
    /\ \A t \in Threads :
          /\ pc[t] = "simulating" => runs[job[t].action] = <<>>
          /\ pc[t] = "succeeding" => runs[job[t].action] = <<"echo">>
          /\ pc[t] = "failing" => runs[job[t].action] = <<"failure">>
          /\ pc[t] = "raising" => Len(runs[job[t].action]) = 1

\* The dictionaries of propose, and what counting the stored actions needs.
KeysShape == KeysBindOneAction /\ IsFiniteSet(Stored)

IInv ==
    /\ TypeOK /\ LedgerShape /\ KeysShape
    /\ HoldingShape /\ RunningShape /\ OneRunner /\ RunsShape

\* An empty ledger satisfies the invariant.
LEMMA InitIInv == Init => IInv
<1> SUFFICES ASSUME Init PROVE IInv
    OBVIOUS
<1> USE ControllerAssumption DEF Init
<1>1. TypeOK
    BY DEF TypeOK, Holding, Running, Replies, States, Errors, Moves, Answers
<1>2. LedgerShape /\ HoldingShape /\ RunningShape /\ OneRunner /\ RunsShape
    BY DEF LedgerShape, HoldingShape, RunningShape, OneRunner, RunsShape,
           Holding, Running, Reserved
<1>3. KeysShape
  <2>1. Stored = {}
    BY DEF Stored
  <2> QED BY <2>1, FS_EmptySet DEF KeysShape, KeysBindOneAction
<1> QED BY <1>1, <1>2, <1>3 DEF IInv

\* Refusals, replays and get change nothing but the reply.
LEMMA QuietStep ==
    ASSUME IInv, UNCHANGED <<ledger, lock, pc, job, runs>>, reply' \in Replies
    PROVE  IInv'
<1> USE DEF ledger
<1>1. TypeOK'
    BY DEF IInv, TypeOK
<1>2. LedgerShape' /\ HoldingShape' /\ RunningShape' /\ OneRunner' /\ RunsShape'
    BY DEF IInv, LedgerShape, HoldingShape, RunningShape, OneRunner, RunsShape
<1>3. KeysShape'
    BY DEF IInv, KeysShape, KeysBindOneAction, Stored
<1> QED BY <1>1, <1>2, <1>3 DEF IInv

\* What a move does to the record of its action, and to no other.
LEMMA MoveEffect ==
    ASSUME TypeOK, NEW a \in ActionIds, NEW s \in States, NEW at \in Times, Move(a, s, at),
           state[a] \in States
    PROVE  /\ state' \in [ActionIds -> States \cup {"absent"}]
           /\ trail' \in [ActionIds -> Seq(Moves)]
           /\ state'[a] = s
           /\ Len(trail'[a]) = Len(trail[a]) + 1
           /\ trail'[a][Len(trail[a]) + 1] = [state |-> s, at |-> at]
           /\ \A b \in ActionIds : b # a => state'[b] = state[b] /\ trail'[b] = trail[b]
           /\ Stored' = Stored
<1>1. [state |-> s, at |-> at] \in Moves
    BY DEF Moves
<1>2. /\ trail[a] \in Seq(Moves)
      /\ trail' = [trail EXCEPT ![a] = Append(@, [state |-> s, at |-> at])]
    BY DEF TypeOK, Move
<1>3. trail'[a] = Append(trail[a], [state |-> s, at |-> at]) /\ trail'[a] \in Seq(Moves)
    BY <1>1, <1>2 DEF TypeOK
<1>4. trail' \in [ActionIds -> Seq(Moves)]
    BY <1>2, <1>3 DEF TypeOK
<1>5. /\ Len(trail'[a]) = Len(trail[a]) + 1
      /\ trail'[a][Len(trail[a]) + 1] = [state |-> s, at |-> at]
    BY <1>2, <1>3
<1>6. state' \in [ActionIds -> States \cup {"absent"}] /\ state'[a] = s
    BY DEF TypeOK, Move
<1>7. \A b \in ActionIds : b # a => state'[b] = state[b] /\ trail'[b] = trail[b]
    BY DEF TypeOK, Move
<1>8. Stored' = Stored
    BY <1>6, <1>7 DEF Stored, States, Terminal
<1> QED BY <1>4, <1>5, <1>6, <1>7, <1>8

\* _authorize and _entry let a call through for stored actions only.
LEMMA EntryFacts ==
    ASSUME NEW caller, NEW a
    PROVE  /\ EntryError(caller, a) \in Errors \cup {""}
           /\ EntryError(caller, a) = "" => a \in Stored
BY DEF EntryError, Errors

\* A reply of the ledger's vocabulary is well typed.
LEMMA ReplyTyped ==
    /\ \A a \in ActionIds, word \in States \cup {"approved"} :
           Answer(a, word) => reply' \in Replies
    /\ \A code \in Errors : Raise(code) => reply' \in Replies
BY DEF Answer, Raise, Replies

\* Steps that run nothing keep RunsShape: a record that moves had not been run and does
\* not settle, and a thread that starts simulating does so for one that had not.
LEMMA RunsKept ==
    ASSUME RunsShape, runs' = runs,
           \A b \in ActionIds :
               \/ state'[b] = state[b]
               \/ runs[b] = <<>> /\ state'[b] \notin {"succeeded", "failed", "uncertain"},
           \A u \in Threads :
               \/ pc'[u] \notin Running
               \/ pc'[u] = pc[u] /\ job'[u].action = job[u].action
               \/ pc'[u] = "simulating" /\ runs[job'[u].action] = <<>>
    PROVE  RunsShape'
<1>1. ASSUME NEW b \in ActionIds
      PROVE  /\ state'[b] \notin Reserved => runs'[b] = <<>>
             /\ state'[b] = "succeeded" => runs'[b] = <<"echo">>
             /\ state'[b] = "failed" => runs'[b] = <<"failure">>
             /\ state'[b] = "uncertain" => Len(runs'[b]) = 1
             /\ Len(runs'[b]) <= 1
  <2>1. CASE state'[b] = state[b]
    BY <2>1 DEF RunsShape
  <2>2. CASE runs[b] = <<>> /\ state'[b] \notin {"succeeded", "failed", "uncertain"}
    <3>1. Len(runs[b]) <= 1
      BY <2>2
    <3> QED BY <2>2, <3>1
  <2> QED BY <2>1, <2>2
<1>2. ASSUME NEW u \in Threads
      PROVE  /\ pc'[u] = "simulating" => runs'[job'[u].action] = <<>>
             /\ pc'[u] = "succeeding" => runs'[job'[u].action] = <<"echo">>
             /\ pc'[u] = "failing" => runs'[job'[u].action] = <<"failure">>
             /\ pc'[u] = "raising" => Len(runs'[job'[u].action]) = 1
  <2>1. CASE pc'[u] \notin Running
    BY <2>1 DEF Running
  <2>2. CASE pc'[u] = pc[u] /\ job'[u].action = job[u].action
    BY <2>2 DEF RunsShape
  <2>3. CASE pc'[u] = "simulating" /\ runs[job'[u].action] = <<>>
    BY <2>3
  <2> QED BY <2>1, <2>2, <2>3
<1> QED BY <1>1, <1>2 DEF RunsShape

\* get preserves the invariant.
LEMMA GetStep ==
    ASSUME IInv, NEW t \in Threads, NEW caller \in Callers, NEW a \in ActionIds,
           Get(t, caller, a)
    PROVE  IInv'
<1>1. EntryError(caller, a) = "" => state[a] \in States
    BY EntryFacts DEF IInv, TypeOK, Stored
<1>2. reply' \in Replies
    BY <1>1, EntryFacts, ReplyTyped DEF Get
<1> QED BY <1>2, QuietStep DEF Get

\* reject preserves the invariant: nobody runs or holds a proposed action.
LEMMA RejectStep ==
    ASSUME IInv, NEW t \in Threads, NEW caller \in Callers, NEW a \in ActionIds,
           NEW now \in Readings, Reject(t, caller, a, now)
    PROVE  IInv'
<1>1. RejectError(caller, a, now) \in Errors \cup {""}
    BY EntryFacts DEF RejectError, Errors
<1>2. CASE RejectError(caller, a, now) # ""
  <2>1. reply' \in Replies /\ UNCHANGED <<state, trail>>
    BY <1>1, <1>2, ReplyTyped DEF Reject
  <2> QED BY <2>1, QuietStep DEF Reject, ledger
<1>3. CASE RejectError(caller, a, now) = ""
  <2>1. /\ Move(a, "rejected", now) /\ now \in Times /\ state[a] = "proposed"
        /\ reply' = [action |-> a, told |-> "rejected"]
    BY <1>3 DEF Reject, Answer, RejectError, Readings
  <2>2. /\ UNCHANGED <<spec, approval, keys, lock, pc, job, runs>> /\ lock = None
    BY DEF Reject, Calls
  <2>3. /\ state' \in [ActionIds -> States \cup {"absent"}]
        /\ trail' \in [ActionIds -> Seq(Moves)]
        /\ state'[a] = "rejected"
        /\ \A b \in ActionIds : b # a => state'[b] = state[b] /\ trail'[b] = trail[b]
        /\ Stored' = Stored
    BY <2>1, MoveEffect DEF IInv, States, Terminal
  <2>4. TypeOK'
    BY <2>1, <2>2, <2>3 DEF IInv, TypeOK, Replies, States, Terminal
  <2>5. LedgerShape'
    BY <2>1, <2>2, <2>3 DEF IInv, LedgerShape, Reserved
  <2>6. \A u \in Threads : pc[u] \notin Holding
    BY <2>2, ControllerAssumption DEF IInv, HoldingShape
  <2>7. HoldingShape' /\ OneRunner'
    BY <2>2, <2>6 DEF IInv, HoldingShape, OneRunner
  <2>8. \A u \in Threads : pc[u] \in Running => job[u].action # a
    BY <2>1 DEF IInv, RunningShape
  <2>9. RunningShape'
    BY <2>2, <2>3, <2>8 DEF IInv, RunningShape
  <2>10. RunsShape'
    <3>1. runs[a] = <<>>
      BY <2>1 DEF IInv, RunsShape, Reserved
    <3> QED BY <2>2, <2>3, <3>1, RunsKept DEF IInv
  <2>11. KeysShape'
    BY <2>2, <2>3 DEF IInv, KeysShape, KeysBindOneAction
  <2> QED BY <2>4, <2>5, <2>7, <2>9, <2>10, <2>11 DEF IInv
<1> QED BY <1>2, <1>3

\* propose preserves the invariant: a new key is bound to a new action.
LEMMA ProposeStep ==
    ASSUME IInv, NEW t \in Threads, NEW caller \in Callers, NEW s \in Specs,
           NEW a \in ActionIds, NEW k \in Keys, Propose(t, caller, s, a, k)
    PROVE  IInv'
<1> DEFINE outcome == ProposeOutcome(caller, s, a, k)
<1>1. CASE outcome = "replay" /\ Answer(keys[k], state[keys[k]]) /\ UNCHANGED ledger
  <2>1. keys[k] \in ActionIds
    BY <1>1, ControllerAssumption DEF ProposeOutcome, IInv, TypeOK
  <2>2. state[keys[k]] \in States
    BY <1>1, <2>1, ControllerAssumption
    DEF ProposeOutcome, IInv, TypeOK, KeysShape, KeysBindOneAction, Stored
  <2>3. reply' \in Replies
    BY <1>1, <2>1, <2>2, ReplyTyped
  <2> QED BY <1>1, <2>3, QuietStep DEF Propose
<1>2. CASE outcome \in Errors /\ Raise(outcome) /\ UNCHANGED ledger
  <2>1. reply' \in Replies
    BY <1>2, ReplyTyped
  <2> QED BY <1>2, <2>1, QuietStep DEF Propose
<1>3. CASE Raise("raised") /\ UNCHANGED ledger
  <2>1. reply' \in Replies
    BY <1>3, ReplyTyped DEF Errors
  <2> QED BY <1>3, <2>1, QuietStep DEF Propose
<1>4. ASSUME outcome = "", NEW now \in Times,
             state' = [state EXCEPT ![a] = "proposed"],
             spec' = [spec EXCEPT ![a] = s],
             trail' = [trail EXCEPT ![a] = <<[state |-> "proposed", at |-> now]>>],
             keys' = [keys EXCEPT ![k] = a],
             Answer(a, "proposed"), UNCHANGED approval
      PROVE  IInv'
  <2>1. /\ s \in AuthorizedSpecs /\ state[a] = "absent"
        /\ keys[k] = None /\ ~(Cardinality(Stored) >= MaxActions)
    BY <1>4, ControllerAssumption DEF ProposeOutcome, Stored
  <2>2. /\ UNCHANGED <<lock, pc, job, runs>> /\ lock = None
    BY DEF Propose, Calls
  <2>3. /\ \A u \in Threads : pc[u] \notin Holding
        /\ \A u \in Threads : pc[u] \in Running => job[u].action # a
    BY <2>1, <2>2, ControllerAssumption DEF IInv, HoldingShape, RunningShape
  <2>4. reply' \in Replies
    BY <1>4, ReplyTyped DEF States
  <2> DEFINE first == [state |-> "proposed", at |-> now]
  <2>20. <<first>> \in Seq(Moves)
    <3>1. first \in Moves
      BY DEF Moves, States
    <3> QED BY <3>1
  <2>21. trail' = [trail EXCEPT ![a] = <<first>>]
    BY <1>4
  <2>22. trail' \in [ActionIds -> Seq(Moves)]
    <3> HIDE DEF first
    <3> QED BY <2>20, <2>21 DEF IInv, TypeOK
  <2>5. TypeOK'
    BY <1>4, <2>2, <2>4, <2>22 DEF IInv, TypeOK, States, ledger
  <2>6. LedgerShape'
    BY <1>4, <2>1 DEF IInv, TypeOK, LedgerShape, Reserved
  <2>7. HoldingShape' /\ OneRunner'
    BY <2>2, <2>3 DEF IInv, HoldingShape, OneRunner
  <2>8. RunningShape'
    BY <1>4, <2>2, <2>3 DEF IInv, TypeOK, RunningShape
  <2>9. RunsShape'
    BY <1>4, <2>1, <2>2 DEF IInv, TypeOK, RunsShape, Reserved
  <2>10. Stored' = Stored \cup {a} /\ a \notin Stored
    BY <1>4, <2>1 DEF IInv, TypeOK, Stored
  <2>11. IsFiniteSet(Stored') /\ Cardinality(Stored') <= MaxActions
    <3>1. IsFiniteSet(Stored)
      BY DEF IInv, KeysShape
    <3>2. Cardinality(Stored) \in Nat
      BY <3>1, FS_CardinalityType
    <3>3. /\ IsFiniteSet(Stored \cup {a})
          /\ Cardinality(Stored \cup {a}) = Cardinality(Stored) + 1
      BY <2>10, <3>1, FS_AddElement
    <3>4. Cardinality(Stored) + 1 <= MaxActions
      BY <2>1, <3>2, ControllerAssumption
    <3> QED BY <2>10, <3>3, <3>4
  <2>12. KeysShape'
    <3>1. keys' \in [Keys -> ActionIds \cup {None}] /\ keys'[k] = a
          /\ \A j \in Keys : j # k => keys'[j] = keys[j]
      BY <1>4 DEF IInv, TypeOK
    <3>2. \A j \in Keys : keys[j] # a
      BY <2>10, ControllerAssumption DEF IInv, KeysShape, KeysBindOneAction
    <3>3. \A b \in Stored : \E j \in Keys : j # k /\ keys[j] = b
      BY <2>1, ControllerAssumption DEF IInv, KeysShape, KeysBindOneAction, Stored
    <3>4. KeysBindOneAction'
      BY <3>1, <3>2, <3>3, <2>10, <2>11 DEF IInv, KeysShape, KeysBindOneAction
    <3> QED BY <3>4, <2>11 DEF KeysShape
  <2> QED BY <2>5, <2>6, <2>7, <2>8, <2>9, <2>12 DEF IInv
<1> QED BY <1>1, <1>2, <1>3, <1>4 DEF Propose

\* approve preserves the invariant: it only adds an available approval.
LEMMA ApproveStep ==
    ASSUME IInv, NEW t \in Threads, NEW caller \in Callers, NEW a \in ActionIds,
           NEW id \in ApprovalIds, NEW expires \in Expiries, NEW now \in Readings,
           Approve(t, caller, a, id, expires, now)
    PROVE  IInv'
<1>1. ApproveError(caller, a, id, expires, now) \in Errors \cup {""}
    BY EntryFacts DEF ApproveError, Errors
<1>2. CASE ApproveError(caller, a, id, expires, now) # ""
  <2>1. reply' \in Replies /\ UNCHANGED approval
    BY <1>1, <1>2, ReplyTyped DEF Approve
  <2> QED BY <2>1, QuietStep DEF Approve, ledger
<1>3. CASE ApproveError(caller, a, id, expires, now) = ""
  <2> DEFINE granted == [approval_id |-> id, expires_at |-> expires, status |-> "available"]
  <2>1. state[a] = "proposed" /\ approval[a] = None
    BY <1>3 DEF ApproveError
  <2>2. /\ UNCHANGED <<state, spec, trail, keys, lock, pc, job, runs>> /\ lock = None
        /\ approval' = [approval EXCEPT ![a] = granted] /\ reply' \in Replies
    BY <1>3, ReplyTyped DEF Approve, Calls
  <2>3. granted \in Approvals /\ granted # None /\ granted.status = "available"
    BY ControllerAssumption DEF Approvals
  <2>4. TypeOK'
    BY <2>2, <2>3 DEF IInv, TypeOK
  <2>5. approval'[a] = granted /\ \A b \in ActionIds : b # a => approval'[b] = approval[b]
    BY <2>2 DEF IInv, TypeOK
  <2>6. LedgerShape'
    <3> HIDE DEF granted
    <3> QED BY <2>1, <2>2, <2>3, <2>5 DEF IInv, LedgerShape, Reserved
  <2>7. HoldingShape'
    BY <2>2, ControllerAssumption DEF IInv, HoldingShape
  <2>8. RunningShape' /\ OneRunner' /\ RunsShape'
    BY <2>2 DEF IInv, RunningShape, OneRunner, RunsShape
  <2>9. KeysShape'
    BY <2>2 DEF IInv, KeysShape, KeysBindOneAction, Stored
  <2> QED BY <2>4, <2>6, <2>7, <2>8, <2>9 DEF IInv
<1> QED BY <1>2, <1>3, <1>1

\* _approval lets through the approval of the action itself only.
LEMMA ApprovalFacts ==
    ASSUME NEW a \in ActionIds, NEW grant \in Held
    PROVE  /\ ApprovalError(a, grant) \in Errors \cup {""}
           /\ ApprovalError(a, grant) = "" => approval[a] # None
BY DEF ApprovalError, Errors, Held

\* The first part of execute preserves the invariant.
LEMMA ExecuteStep ==
    ASSUME IInv, NEW t \in Threads, NEW caller \in Callers, NEW a \in ActionIds,
           NEW grant \in Held, NEW now \in Readings, Execute(t, caller, a, grant, now)
    PROVE  IInv'
<1> DEFINE error == ExecuteError(caller, a, grant)
<1>1. /\ error \in Errors \cup {""}
      /\ error = "" => a \in Stored /\ approval[a] # None
    BY EntryFacts, ApprovalFacts DEF ExecuteError
<1>2. CASE error # "" /\ Raise(error) /\ UNCHANGED <<lock, pc, job>>
  <2>1. reply' \in Replies
    BY <1>1, <1>2, ReplyTyped
  <2> QED BY <1>2, <2>1, QuietStep DEF Execute
<1>3. CASE error = "" /\ Answer(a, state[a]) /\ UNCHANGED <<lock, pc, job>>
  <2>1. state[a] \in States
    BY <1>1, <1>3 DEF IInv, TypeOK, Stored
  <2>2. reply' \in Replies
    BY <1>3, <2>1, ReplyTyped
  <2> QED BY <1>3, <2>2, QuietStep DEF Execute
<1>4. CASE (Raise("raised") \/ Raise("approval_expired")) /\ UNCHANGED <<lock, pc, job>>
  <2>1. reply' \in Replies
    BY <1>4, ReplyTyped DEF Errors
  <2> QED BY <1>4, <2>1, QuietStep DEF Execute
<1>5. CASE /\ error = "" /\ state[a] = "proposed"
           /\ lock' = t /\ pc' = [pc EXCEPT ![t] = "reading"]
           /\ job' = [job EXCEPT ![t] = [action |-> a, actual |-> None]]
           /\ UNCHANGED reply
  <2>1. UNCHANGED <<state, spec, approval, trail, keys, runs>> /\ pc[t] = "idle" /\ lock = None
    BY DEF Execute, ledger, Calls
  <2>2. \A u \in Threads : pc[u] \notin Holding
    BY <2>1, ControllerAssumption DEF IInv, HoldingShape
  <2>3. /\ pc'[t] = "reading" /\ job'[t].action = a
        /\ \A u \in Threads : u # t => pc'[u] = pc[u] /\ job'[u] = job[u]
    BY <1>5 DEF IInv, TypeOK
  <2>4. TypeOK'
    BY <1>5, <2>1 DEF IInv, TypeOK, Holding
  <2>5. LedgerShape' /\ KeysShape'
    BY <2>1 DEF IInv, LedgerShape, KeysShape, KeysBindOneAction, Stored
  <2>6. HoldingShape'
    BY <1>1, <1>5, <2>1, <2>2, <2>3 DEF HoldingShape
  <2>7. RunningShape' /\ OneRunner'
    BY <2>1, <2>3 DEF IInv, RunningShape, OneRunner, Running
  <2>8. RunsShape'
    <3>1. pc'[t] \notin Running
      BY <2>3 DEF Running
    <3> QED BY <2>1, <2>3, <3>1, RunsKept DEF IInv
  <2> QED BY <2>4, <2>5, <2>6, <2>7, <2>8 DEF IInv
<1> QED BY <1>2, <1>3, <1>4, <1>5 DEF Execute

\* An abandoned execute leaves the ledger and gives the lock back.
LEMMA AbandonStep ==
    ASSUME IInv, NEW t \in Threads, NEW code \in Errors, Abandon(t, code),
           pc[t] \in Holding, UNCHANGED <<ledger, job, runs>>
    PROVE  IInv'
<1> USE DEF ledger
<1>1. /\ lock = t /\ lock' = None /\ pc'[t] = "idle"
      /\ pc' \in [Threads -> {"idle"} \cup Holding \cup Running]
      /\ \A u \in Threads : u # t => pc'[u] = pc[u] /\ pc[u] \notin Holding
    BY DEF IInv, TypeOK, HoldingShape, Abandon
<1>2. reply' \in Replies
    BY ReplyTyped DEF Abandon
<1>3. TypeOK'
    BY <1>1, <1>2 DEF IInv, TypeOK
<1>4. LedgerShape' /\ KeysShape'
    BY DEF IInv, LedgerShape, KeysShape, KeysBindOneAction, Stored
<1>5. HoldingShape' /\ RunningShape' /\ OneRunner'
    BY <1>1 DEF IInv, HoldingShape, RunningShape, OneRunner, Running, Holding
<1>6. RunsShape'
    BY <1>1 DEF IInv, RunsShape
<1> QED BY <1>3, <1>4, <1>5, <1>6 DEF IInv

\* So does the target provider's answer.
LEMMA ReadTargetStep ==
    ASSUME IInv, NEW t \in Threads, NEW seen \in Versions \cup {None}, ReadTarget(t, seen)
    PROVE  IInv'
<1>1. CASE seen = None
  <2>1. Abandon(t, "raised") /\ UNCHANGED <<ledger, job, runs>> /\ pc[t] \in Holding
    BY <1>1 DEF ReadTarget, Holding
  <2>2. "raised" \in Errors
    BY DEF Errors
  <2> QED BY <2>1, <2>2, AbandonStep
<1>2. CASE seen # None
  <2>1. /\ UNCHANGED <<state, spec, approval, trail, keys, runs, lock, reply>>
        /\ pc[t] = "reading" /\ pc' = [pc EXCEPT ![t] = "deciding"]
        /\ job' = [job EXCEPT ![t].actual = seen]
    BY <1>2 DEF ReadTarget, ledger
  <2>2. TypeOK'
    BY <2>1 DEF IInv, TypeOK, Holding
  <2>3. /\ pc'[t] = "deciding" /\ job'[t].action = job[t].action
        /\ \A u \in Threads : u # t => pc'[u] = pc[u] /\ job'[u] = job[u]
    BY <2>1 DEF IInv, TypeOK
  <2>4. LedgerShape' /\ KeysShape'
    BY <2>1 DEF IInv, LedgerShape, KeysShape, KeysBindOneAction, Stored
  <2>5. HoldingShape' /\ RunningShape' /\ OneRunner'
    BY <2>1, <2>3 DEF IInv, HoldingShape, RunningShape, OneRunner, Running, Holding
  <2>6. RunsShape'
    <3>1. pc'[t] \notin Running
      BY <2>3 DEF Running
    <3> QED BY <2>1, <2>3, <3>1, RunsKept DEF IInv
  <2> QED BY <2>2, <2>4, <2>5, <2>6 DEF IInv
<1> QED BY <1>1, <1>2

\* The decision of execute does: a reservation is new, granted and unexpired.
LEMMA DecideStep ==
    ASSUME IInv, NEW t \in Threads, NEW now \in Readings, Decide(t, now)
    PROVE  IInv'
<1> DEFINE a == job[t].action
<1>1. /\ a \in ActionIds /\ state[a] = "proposed" /\ approval[a] # None
      /\ pc[t] = "deciding" /\ lock = t /\ UNCHANGED <<job, runs>>
    BY DEF IInv, HoldingShape, Holding, Decide
<1>2. CASE (Abandon(t, "raised") \/ Abandon(t, "approval_expired")) /\ UNCHANGED ledger
  <2>1. "raised" \in Errors /\ "approval_expired" \in Errors /\ pc[t] \in Holding
    BY <1>1 DEF Errors, Holding
  <2> QED BY <1>1, <1>2, <2>1, AbandonStep
<1>3. \A u \in Threads : u # t => pc[u] \notin Holding
    BY <1>1 DEF IInv, HoldingShape
<1>4. \A u \in Threads : pc[u] \in Running => job[u].action # a
    BY <1>1 DEF IInv, RunningShape
<1>5. CASE /\ now \in Times /\ Move(a, "stale", now) /\ Answer(a, "stale") /\ lock' = None
           /\ pc' = [pc EXCEPT ![t] = "idle"] /\ UNCHANGED <<spec, approval, keys>>
  <2>1. reply' \in Replies
    BY <1>1, <1>5, ReplyTyped DEF States, Terminal
  <2>2. /\ state' \in [ActionIds -> States \cup {"absent"}]
        /\ trail' \in [ActionIds -> Seq(Moves)]
        /\ state'[a] = "stale"
        /\ \A b \in ActionIds : b # a => state'[b] = state[b] /\ trail'[b] = trail[b]
        /\ Stored' = Stored
    BY <1>1, <1>5, MoveEffect DEF IInv, States, Terminal
  <2>3. pc'[t] = "idle" /\ \A u \in Threads : u # t => pc'[u] = pc[u]
    BY <1>5 DEF IInv, TypeOK
  <2> HIDE DEF a
  <2>4. TypeOK'
    BY <1>1, <1>5, <2>1, <2>2 DEF IInv, TypeOK
  <2>5. LedgerShape'
    BY <1>1, <1>5, <2>2 DEF IInv, LedgerShape, Reserved
  <2>9. KeysShape'
    BY <1>5, <2>2 DEF IInv, KeysShape, KeysBindOneAction
  <2>6. HoldingShape' /\ OneRunner'
    BY <1>1, <1>3, <2>3 DEF IInv, HoldingShape, OneRunner, Holding, Running
  <2>7. RunningShape'
    BY <1>1, <1>4, <1>5, <2>2, <2>3 DEF IInv, RunningShape, Running
  <2>8. RunsShape'
    <3>1. runs[a] = <<>> /\ pc'[t] \notin Running
      BY <1>1, <2>3 DEF IInv, RunsShape, Reserved, Running
    <3> QED BY <1>1, <2>2, <2>3, <3>1, RunsKept DEF IInv
  <2> QED BY <2>4, <2>5, <2>6, <2>7, <2>8, <2>9 DEF IInv
<1>6. CASE /\ now \in Times /\ ~Expired(a, now) /\ job[t].actual = Precondition[spec[a]]
           /\ approval' = [approval EXCEPT ![a].status = "consumed"]
           /\ Move(a, "executing", now) /\ lock' = None
           /\ pc' = [pc EXCEPT ![t] = "simulating"] /\ UNCHANGED <<spec, keys, reply>>
  <2>1. /\ state' \in [ActionIds -> States \cup {"absent"}]
        /\ trail' \in [ActionIds -> Seq(Moves)]
        /\ state'[a] = "executing"
        /\ Len(trail'[a]) = Len(trail[a]) + 1
        /\ trail'[a][Len(trail[a]) + 1] = [state |-> "executing", at |-> now]
        /\ \A b \in ActionIds : b # a => state'[b] = state[b] /\ trail'[b] = trail[b]
        /\ Stored' = Stored
    BY <1>1, <1>6, MoveEffect DEF IInv, States
  <2>2. pc'[t] = "simulating" /\ \A u \in Threads : u # t => pc'[u] = pc[u]
    BY <1>6 DEF IInv, TypeOK
  <2>3. approval[a] \in Approvals
    BY <1>1 DEF IInv, TypeOK
  <2>4. /\ approval'[a] \in Approvals /\ approval'[a] # None
        /\ approval'[a].status = "consumed"
        /\ approval'[a].expires_at = approval[a].expires_at
        /\ \A b \in ActionIds : b # a => approval'[b] = approval[b]
        /\ approval' \in [ActionIds -> Approvals \cup {None}]
    <3>1. /\ approval'[a] = [approval[a] EXCEPT !.status = "consumed"]
          /\ \A b \in ActionIds : b # a => approval'[b] = approval[b]
      BY <1>1, <1>6 DEF IInv, TypeOK
    <3>2. /\ approval'[a] \in Approvals /\ approval'[a].status = "consumed"
          /\ approval'[a].expires_at = approval[a].expires_at
      BY <2>3, <3>1 DEF Approvals
    <3>3. approval' \in [ActionIds -> Approvals \cup {None}]
      BY <1>6, <3>1, <3>2 DEF IInv, TypeOK
    <3> QED BY <3>1, <3>2, <3>3, ControllerAssumption
  <2>5. now < approval[a].expires_at
    BY <1>6, <2>3, ControllerAssumption DEF Expired, Approvals
  <2> HIDE DEF a
  <2>6. TypeOK'
    BY <1>1, <1>6, <2>1, <2>4 DEF IInv, TypeOK, Running
  <2>7. LedgerShape'
    <3>1. Len(trail'[a]) = 2 /\ trail'[a][2].at = now
      <4>1. Len(trail[a]) = 1
        BY <1>1 DEF IInv, LedgerShape
      <4>2. Len(trail[a]) + 1 = 2
        BY <4>1
      <4>3. trail'[a][2] = [state |-> "executing", at |-> now] /\ Len(trail'[a]) = 2
        <5>1. trail'[a][Len(trail[a]) + 1] = [state |-> "executing", at |-> now]
          BY <2>1
        <5>2. Len(trail'[a]) = Len(trail[a]) + 1
          BY <2>1
        <5> QED BY <4>2, <5>1, <5>2
      <4> QED BY <4>3
    <3>2. spec[a] \in AuthorizedSpecs
      BY <1>1 DEF IInv, LedgerShape
    <3> SUFFICES ASSUME NEW b \in ActionIds
                 PROVE  LedgerShape!(b)'
      BY DEF LedgerShape
    <3>3. CASE b = a
      <4>1. state'[b] = "executing" /\ "executing" \in Reserved
        BY <2>1, <3>3 DEF Reserved
      <4>2. /\ approval'[b] # None /\ approval'[b].status = "consumed"
            /\ approval'[b].expires_at = approval[a].expires_at
        BY <2>4, <3>3
      <4>3. Len(trail'[b]) = 2 /\ trail'[b][2].at < approval'[b].expires_at
        BY <2>5, <3>1, <3>3, <4>2
      <4>4. spec'[b] \in AuthorizedSpecs
        BY <1>6, <3>2, <3>3
      <4> QED BY <4>1, <4>2, <4>3, <4>4
    <3>4. CASE b # a
      <4>1. /\ state'[b] = state[b] /\ trail'[b] = trail[b]
            /\ approval'[b] = approval[b] /\ spec' = spec
        BY <1>6, <2>1, <2>4, <3>4
      <4>2. LedgerShape
        BY DEF IInv
      <4> QED BY <4>1, <4>2 DEF LedgerShape
    <3> QED BY <3>3, <3>4
  <2>8. KeysShape'
    BY <1>6, <2>1 DEF IInv, KeysShape, KeysBindOneAction
  <2>9. HoldingShape'
    BY <1>1, <1>3, <2>2 DEF HoldingShape, Holding
  <2>10. RunningShape'
    BY <1>1, <1>4, <1>6, <2>1, <2>2 DEF a, IInv, RunningShape
  <2>11. OneRunner'
    BY <1>1, <1>4, <2>2 DEF a, IInv, OneRunner
  <2>12. RunsShape'
    <3>1. runs[a] = <<>>
      BY <1>1 DEF IInv, RunsShape, Reserved
    <3>2. job'[t].action = a
      BY <1>1 DEF a
    <3> QED BY <1>1, <2>1, <2>2, <3>1, <3>2, RunsKept DEF IInv
  <2> QED BY <2>6, <2>7, <2>8, <2>9, <2>10, <2>11, <2>12 DEF IInv
<1> QED BY <1>2, <1>5, <1>6 DEF Decide, Readings

\* The simulator runs for an action it has not run for.
LEMMA SimulateStep ==
    ASSUME IInv, NEW t \in Threads, NEW answer \in Answers, Simulate(t, answer)
    PROVE  IInv'
<1> DEFINE a == job[t].action
<1>1. /\ pc[t] = "simulating" /\ a \in ActionIds /\ state[a] = "executing" /\ runs[a] = <<>>
      /\ UNCHANGED <<state, spec, approval, trail, keys, lock, job, reply>>
    BY DEF Simulate, ledger, IInv, RunningShape, RunsShape, Running
<1>2. /\ runs'[a] = <<answer>> /\ runs' \in [ActionIds -> Seq(Answers)]
      /\ \A b \in ActionIds : b # a => runs'[b] = runs[b]
    BY <1>1 DEF Simulate, IInv, TypeOK
<1>3. /\ pc'[t] = AfterRun[answer] /\ pc' = [pc EXCEPT ![t] = AfterRun[answer]]
      /\ \A u \in Threads : u # t => pc'[u] = pc[u]
    BY DEF Simulate, IInv, TypeOK
<1>4. \/ answer = "echo" /\ AfterRun[answer] = "succeeding"
      \/ answer = "failure" /\ AfterRun[answer] = "failing"
      \/ answer = "other" /\ AfterRun[answer] = "raising"
    BY DEF Answers, AfterRun
<1>5. pc'[t] \in Running \ {"simulating"} /\ pc' \in [Threads -> {"idle"} \cup Holding \cup Running]
    BY <1>3, <1>4 DEF IInv, TypeOK, Running
<1> HIDE DEF a
<1>6. TypeOK'
    BY <1>1, <1>2, <1>5 DEF IInv, TypeOK
<1>7. LedgerShape' /\ KeysShape'
    BY <1>1 DEF IInv, LedgerShape, KeysShape, KeysBindOneAction, Stored
<1>8. HoldingShape' /\ RunningShape' /\ OneRunner'
    BY <1>1, <1>3, <1>5 DEF IInv, HoldingShape, RunningShape, OneRunner, Holding, Running
<1>9. \A u \in Threads : u # t /\ pc[u] \in Running => job[u].action # a
    BY <1>1 DEF a, IInv, OneRunner, Running
<1>10. \A u \in Threads : pc[u] \in Running => job[u].action \in ActionIds
    BY DEF IInv, RunningShape
<1>11. RunsShape'
  <2>1. Len(runs'[a]) = 1
    BY <1>2
  <2>2. ASSUME NEW b \in ActionIds
        PROVE
          /\ state'[b] \notin Reserved => runs'[b] = <<>>
          /\ state'[b] = "succeeded" => runs'[b] = <<"echo">>
          /\ state'[b] = "failed" => runs'[b] = <<"failure">>
          /\ state'[b] = "uncertain" => Len(runs'[b]) = 1
          /\ Len(runs'[b]) <= 1
    <3>1. CASE b = a
      <4>1. state'[b] = "executing" /\ Len(runs'[b]) = 1
        BY <1>1, <2>1, <3>1
      <4> QED BY <4>1 DEF Reserved
    <3>2. CASE b # a
      BY <1>1, <1>2, <3>2 DEF IInv, RunsShape
    <3> QED BY <3>1, <3>2
  <2>3. \A u \in Threads : u # t =>
          runs'[job[u].action] = runs[job[u].action] \/ pc[u] \notin Running
    BY <1>2, <1>9, <1>10
  <2>4. ASSUME NEW u \in Threads
        PROVE  /\ pc'[u] = "simulating" => runs'[job'[u].action] = <<>>
               /\ pc'[u] = "succeeding" => runs'[job'[u].action] = <<"echo">>
               /\ pc'[u] = "failing" => runs'[job'[u].action] = <<"failure">>
               /\ pc'[u] = "raising" => Len(runs'[job'[u].action]) = 1
    <3>1. CASE u = t
      BY <1>1, <1>2, <1>3, <1>4, <2>1, <3>1 DEF a
    <3>2. CASE u # t
      BY <1>1, <1>3, <2>3, <3>2 DEF IInv, RunsShape, Running
    <3> QED BY <3>1, <3>2
  <2> QED BY <2>2, <2>4 DEF RunsShape
<1> QED BY <1>6, <1>7, <1>8, <1>11 DEF IInv

\* Complete and Uncertain end the run of an action in one of the settled states.
LEMMA SettledStep ==
    ASSUME IInv, NEW t \in Threads, pc[t] \in Running, lock = None,
           NEW s \in {"succeeded", "failed", "uncertain"}, NEW at \in Times,
           Move(job[t].action, s, at), pc' = [pc EXCEPT ![t] = "idle"], reply' \in Replies,
           UNCHANGED <<spec, approval, keys, lock, job, runs>>,
           s = "succeeded" => runs[job[t].action] = <<"echo">>,
           s = "failed" => runs[job[t].action] = <<"failure">>,
           s = "uncertain" => Len(runs[job[t].action]) = 1
    PROVE  IInv'
<1> DEFINE a == job[t].action
<1>1. a \in ActionIds /\ state[a] = "executing"
    BY DEF IInv, RunningShape
<1>2. /\ state' \in [ActionIds -> States \cup {"absent"}]
      /\ trail' \in [ActionIds -> Seq(Moves)]
      /\ state'[a] = s
      /\ \A b \in ActionIds : b # a => state'[b] = state[b] /\ trail'[b] = trail[b]
      /\ Stored' = Stored
    BY <1>1, MoveEffect DEF IInv, States, Terminal
<1>3. pc'[t] = "idle" /\ \A u \in Threads : u # t => pc'[u] = pc[u]
    BY DEF IInv, TypeOK
<1>4. \A u \in Threads : u # t /\ pc[u] \in Running => job[u].action # a
    BY DEF IInv, OneRunner
<1>5. \A u \in Threads : pc[u] \notin Holding
    BY ControllerAssumption DEF IInv, HoldingShape
<1>6. TypeOK'
    BY <1>2 DEF IInv, TypeOK
<1>7. LedgerShape'
    BY <1>1, <1>2 DEF IInv, LedgerShape, Reserved
<1>11. KeysShape'
    BY <1>2 DEF IInv, KeysShape, KeysBindOneAction
<1>8. HoldingShape'
    BY <1>3, <1>5 DEF HoldingShape, Holding
<1>9. RunningShape' /\ OneRunner'
    BY <1>2, <1>3, <1>4 DEF IInv, RunningShape, OneRunner, Running
<1>10. RunsShape'
  <2>1. runs' = runs /\ job' = job
    OBVIOUS
  <2>2. ASSUME NEW b \in ActionIds
        PROVE  /\ state'[b] \notin Reserved => runs'[b] = <<>>
               /\ state'[b] = "succeeded" => runs'[b] = <<"echo">>
               /\ state'[b] = "failed" => runs'[b] = <<"failure">>
               /\ state'[b] = "uncertain" => Len(runs'[b]) = 1
               /\ Len(runs'[b]) <= 1
    <3>1. CASE b = a
      <4>1. state'[b] = s /\ s \in Reserved /\ Len(runs[b]) <= 1
        BY <1>1, <1>2, <3>1 DEF IInv, RunsShape, Reserved
      <4> QED BY <2>1, <3>1, <4>1
    <3>2. CASE b # a
      BY <1>2, <2>1, <3>2 DEF IInv, RunsShape
    <3> QED BY <3>1, <3>2
  <2>3. ASSUME NEW u \in Threads
        PROVE  /\ pc'[u] = "simulating" => runs'[job'[u].action] = <<>>
               /\ pc'[u] = "succeeding" => runs'[job'[u].action] = <<"echo">>
               /\ pc'[u] = "failing" => runs'[job'[u].action] = <<"failure">>
               /\ pc'[u] = "raising" => Len(runs'[job'[u].action]) = 1
    <3>1. CASE u = t
      BY <1>3, <3>1
    <3>2. CASE u # t
      <4>1. pc'[u] = pc[u] /\ runs'[job'[u].action] = runs[job[u].action]
        BY <1>3, <2>1, <3>2
      <4>2. RunsShape
        BY DEF IInv
      <4> QED BY <4>1, <4>2 DEF RunsShape
    <3> QED BY <3>1, <3>2
  <2> QED BY <2>2, <2>3 DEF RunsShape
<1> QED BY <1>6, <1>7, <1>8, <1>9, <1>10, <1>11 DEF IInv

\* _complete preserves the invariant.
LEMMA CompleteStep ==
    ASSUME IInv, NEW t \in Threads, NEW now \in Readings, Complete(t, now)
    PROVE  IInv'
<1>1. CASE now = None
  <2>1. /\ UNCHANGED <<state, spec, approval, trail, keys, lock, job, runs, reply>>
        /\ pc[t] \in {"succeeding", "failing"} /\ pc' = [pc EXCEPT ![t] = "raising"]
    BY <1>1 DEF Complete
  <2>2. pc'[t] = "raising" /\ \A u \in Threads : u # t => pc'[u] = pc[u]
    BY <2>1 DEF IInv, TypeOK
  <2>3. TypeOK'
    BY <2>1 DEF IInv, TypeOK, Running
  <2>4. LedgerShape' /\ KeysShape'
    BY <2>1 DEF IInv, LedgerShape, KeysShape, KeysBindOneAction, Stored
  <2>5. HoldingShape' /\ RunningShape' /\ OneRunner'
    BY <2>1, <2>2 DEF IInv, HoldingShape, RunningShape, OneRunner, Holding, Running
  <2>6. RunsShape'
    <3>1. Len(<<"echo">>) = 1 /\ Len(<<"failure">>) = 1
      OBVIOUS
    <3> QED BY <2>1, <2>2, <3>1 DEF IInv, RunsShape
  <2> QED BY <2>3, <2>4, <2>5, <2>6 DEF IInv
<1>2. ASSUME now # None, NEW s \in {"succeeded", "failed"},
             pc[t] = "succeeding" => s = "succeeded", pc[t] = "failing" => s = "failed",
             Move(job[t].action, s, now), Answer(job[t].action, s)
      PROVE  IInv'
  <2>1. /\ pc[t] \in {"succeeding", "failing"} /\ lock = None
        /\ pc' = [pc EXCEPT ![t] = "idle"] /\ UNCHANGED <<spec, approval, keys, lock, job, runs>>
    BY <1>2 DEF Complete
  <2>2. pc[t] \in Running /\ now \in Times
    BY <1>2, <2>1 DEF Running, Readings
  <2>3. reply' \in Replies
    BY <1>2, <2>2, ReplyTyped DEF IInv, RunningShape, States, Terminal
  <2>4. /\ s = "succeeded" => runs[job[t].action] = <<"echo">>
        /\ s = "failed" => runs[job[t].action] = <<"failure">>
    BY <1>2, <2>1 DEF IInv, RunsShape
  <2>5. s \in {"succeeded", "failed", "uncertain"} /\ s # "uncertain"
    BY <1>2
  <2> QED BY <1>2, <2>1, <2>2, <2>3, <2>4, <2>5, SettledStep
<1> QED BY <1>1, <1>2 DEF Complete

\* The except clause of execute preserves the invariant.
LEMMA UncertainStep ==
    ASSUME IInv, NEW t \in Threads, NEW now \in Readings, Uncertain(t, now)
    PROVE  IInv'
<1> DEFINE a == job[t].action
           at == IF now = None THEN trail[a][Len(trail[a])].at ELSE now
<1>1. /\ a \in ActionIds /\ state[a] = "executing" /\ pc[t] = "raising" /\ pc[t] \in Running
    BY DEF Uncertain, IInv, RunningShape, Running
<1>2. /\ Move(a, "uncertain", at) /\ lock = None /\ pc' = [pc EXCEPT ![t] = "idle"]
      /\ Raise("raised") /\ UNCHANGED <<spec, approval, keys, lock, job, runs>>
    BY <1>1 DEF Uncertain
<1>3. trail[a] \in Seq(Moves) /\ Len(trail[a]) = 2
    BY <1>1 DEF IInv, TypeOK, LedgerShape
<1>4. at \in Times
  <2>1. trail[a][Len(trail[a])] \in Moves
    BY <1>3
  <2> QED BY <2>1 DEF Readings, Moves
<1>5. reply' \in Replies
    BY <1>2, ReplyTyped DEF Errors
<1>6. Len(runs[a]) = 1
    BY <1>1 DEF IInv, RunsShape
<1> HIDE DEF at
<1> QED BY <1>1, <1>2, <1>4, <1>5, <1>6, SettledStep

\* A step that changes no variable preserves the invariant.
LEMMA StutterStep == IInv /\ UNCHANGED vars => IInv'
<1> SUFFICES ASSUME IInv, UNCHANGED vars PROVE IInv'
    OBVIOUS
<1>1. reply' \in Replies
    BY DEF IInv, TypeOK, vars
<1> QED BY <1>1, QuietStep DEF vars, ledger

\* Every step of every thread preserves the invariant.
LEMMA NextIInv == IInv /\ [Next]_vars => IInv'
<1> SUFFICES ASSUME IInv, Next PROVE IInv'
    BY StutterStep
<1>1. PICK t \in Threads : Operation(t) \/ UnderLock(t) \/ Run(t) \/ Settle(t)
    BY DEF Next
<1>2. CASE Operation(t)
    BY <1>2, ProposeStep, GetStep, ApproveStep, RejectStep, ExecuteStep DEF Operation
<1>3. CASE UnderLock(t)
    BY <1>3, ReadTargetStep, DecideStep DEF UnderLock
<1>4. CASE Run(t)
    BY <1>4, SimulateStep DEF Run
<1>5. CASE Settle(t)
    BY <1>5, CompleteStep, UncertainStep DEF Settle
<1> QED BY <1>1, <1>2, <1>3, <1>4, <1>5

\* The invariant the theorems below rest on.
THEOREM InductiveInvariant == Spec => []IInv
<1>1. IInv /\ [Next]_vars => IInv'
    BY NextIInv
<1> QED BY InitIInv, <1>1, PTL DEF Spec

\* The ledger and the threads keep their types.
THEOREM TypeCorrect == Spec => []TypeOK
<1>1. IInv => TypeOK
    BY DEF IInv
<1> QED BY InductiveInvariant, <1>1, PTL

\* No action's simulator runs twice, for any number of callers, retries and
\* overlapping executes of the controller.
THEOREM SimulatedOnce == Spec => []AtMostOneSimulation
<1>1. IInv => AtMostOneSimulation
  <2> SUFFICES ASSUME IInv, NEW a \in ActionIds
               PROVE  /\ Len(runs[a]) <= 1
                      /\ state[a] \in Reserved \ {"executing"} => Len(runs[a]) = 1
    BY DEF AtMostOneSimulation
  <2>1. Len(<<"echo">>) = 1 /\ Len(<<"failure">>) = 1
    OBVIOUS
  <2> QED BY <2>1 DEF IInv, RunsShape, Reserved
<1> QED BY InductiveInvariant, <1>1, PTL

\* Whatever execute runs was approved for that action, unexpired when reserved,
\* and reserved against a target that met the preconditions.
THEOREM SimulatedAsGranted == Spec => []SimulationIsGranted
<1>1. IInv => SimulationIsGranted
    BY DEF IInv, SimulationIsGranted, RunningShape, LedgerShape, Reserved
<1> QED BY InductiveInvariant, <1>1, PTL

\* Settled states never misreport what the simulator did.
THEOREM OutcomeReported == Spec => []OutcomeIsTheSimulators
<1>1. IInv => OutcomeIsTheSimulators
    BY DEF IInv, OutcomeIsTheSimulators, RunsShape
<1> QED BY InductiveInvariant, <1>1, PTL

\* Idempotency keys and stored actions stay in bijection, within the capacity.
THEOREM KeysBound == Spec => []KeysBindOneAction
<1>1. IInv => KeysBindOneAction
    BY DEF IInv, KeysShape
<1> QED BY InductiveInvariant, <1>1, PTL

-----------------------------------------------------------------------------
(* What a step may do to the ledger and to the runs                         *)

Kept == UNCHANGED <<ledger, runs>>

Opened(a, s, k, now) ==
    /\ state[a] = "absent" /\ keys[k] = None
    /\ state' = [state EXCEPT ![a] = "proposed"]
    /\ spec' = [spec EXCEPT ![a] = s]
    /\ trail' = [trail EXCEPT ![a] = <<[state |-> "proposed", at |-> now]>>]
    /\ keys' = [keys EXCEPT ![k] = a]
    /\ UNCHANGED <<approval, runs>>

Granted(a, grant) ==
    /\ state[a] = "proposed" /\ approval[a] = None
    /\ grant.status = "available"
    /\ approval' = [approval EXCEPT ![a] = grant]
    /\ UNCHANGED <<state, spec, trail, keys, runs>>

Closed(a, s, at) ==
    /\ state[a] = "proposed" /\ s \in {"rejected", "stale"}
    /\ Move(a, s, at)
    /\ UNCHANGED <<spec, approval, keys, runs>>

MadeReserved(a, at) ==
    /\ state[a] = "proposed" /\ approval[a] # None
    /\ Move(a, "executing", at)
    /\ approval' = [approval EXCEPT ![a].status = "consumed"]
    /\ UNCHANGED <<spec, keys, runs>>

Ran(a, answer) ==
    /\ state[a] = "executing" /\ runs[a] = <<>>
    /\ runs' = [runs EXCEPT ![a] = Append(@, answer)]
    /\ UNCHANGED ledger

MadeSettled(a, s, at) ==
    /\ state[a] = "executing" /\ s \in {"succeeded", "failed", "uncertain"}
    /\ Len(runs[a]) = 1
    /\ Move(a, s, at)
    /\ UNCHANGED <<spec, approval, keys, runs>>

Effect ==
    \/ Kept
    \/ \E a \in ActionIds :
        \/ \E s \in Specs, k \in Keys, now \in Times : Opened(a, s, k, now)
        \/ \E grant \in Approvals : Granted(a, grant)
        \/ \E s \in States, at \in Times : Closed(a, s, at) \/ MadeSettled(a, s, at)
        \/ \E at \in Times : MadeReserved(a, at)
        \/ \E answer \in Answers : Ran(a, answer)

LEMMA ProposeEffect ==
    ASSUME IInv, NEW t \in Threads, NEW caller \in Callers, NEW s \in Specs,
           NEW a \in ActionIds, NEW k \in Keys, Propose(t, caller, s, a, k)
    PROVE  Effect
<1>1. CASE UNCHANGED ledger
  BY <1>1 DEF Propose, Effect, Kept
<1>2. ASSUME ProposeOutcome(caller, s, a, k) = "", NEW now \in Times,
             state' = [state EXCEPT ![a] = "proposed"],
             spec' = [spec EXCEPT ![a] = s],
             trail' = [trail EXCEPT ![a] = <<[state |-> "proposed", at |-> now]>>],
             keys' = [keys EXCEPT ![k] = a], UNCHANGED approval
      PROVE  Effect
  <2>1. state[a] = "absent" /\ keys[k] = None
    BY <1>2, ControllerAssumption DEF ProposeOutcome, Stored
  <2>2. UNCHANGED <<approval, runs>>
    BY <1>2 DEF Propose
  <2>3. Opened(a, s, k, now)
    BY <1>2, <2>1, <2>2 DEF Opened
  <2> QED BY <2>3 DEF Effect
<1> QED BY <1>1, <1>2 DEF Propose

LEMMA ApproveEffect ==
    ASSUME IInv, NEW t \in Threads, NEW caller \in Callers, NEW a \in ActionIds,
           NEW id \in ApprovalIds, NEW expires \in Expiries, NEW now \in Readings,
           Approve(t, caller, a, id, expires, now)
    PROVE  Effect
<1>1. CASE ApproveError(caller, a, id, expires, now) # ""
  BY <1>1 DEF Approve, Effect, Kept, ledger
<1>2. CASE ApproveError(caller, a, id, expires, now) = ""
  <2> DEFINE grant == [approval_id |-> id, expires_at |-> expires, status |-> "available"]
  <2>1. state[a] = "proposed" /\ approval[a] = None
    BY <1>2 DEF ApproveError
  <2>2. grant \in Approvals /\ grant.status = "available"
    BY DEF Approvals
  <2>3. /\ approval' = [approval EXCEPT ![a] = grant]
        /\ UNCHANGED <<state, spec, trail, keys, runs>>
    BY <1>2 DEF Approve
  <2> HIDE DEF grant
  <2>4. Granted(a, grant)
    BY <2>1, <2>2, <2>3 DEF Granted
  <2> QED BY <2>2, <2>4 DEF Effect
<1> QED BY <1>1, <1>2

LEMMA RejectEffect ==
    ASSUME IInv, NEW t \in Threads, NEW caller \in Callers, NEW a \in ActionIds,
           NEW now \in Readings, Reject(t, caller, a, now)
    PROVE  Effect
<1>1. CASE RejectError(caller, a, now) # ""
  BY <1>1 DEF Reject, Effect, Kept, ledger
<1>2. CASE RejectError(caller, a, now) = ""
  <2>1. now \in Times /\ Closed(a, "rejected", now) /\ "rejected" \in States
    BY <1>2 DEF Reject, RejectError, Closed, Readings, States, Terminal
  <2> QED BY <2>1 DEF Effect
<1> QED BY <1>1, <1>2

LEMMA DecideEffect ==
    ASSUME IInv, NEW t \in Threads, NEW now \in Readings, Decide(t, now)
    PROVE  Effect
<1> DEFINE a == job[t].action
<1>1. /\ a \in ActionIds /\ state[a] = "proposed" /\ approval[a] # None
      /\ UNCHANGED runs
  BY DEF IInv, HoldingShape, Holding, Decide
<1>2. CASE UNCHANGED ledger
  BY <1>1, <1>2 DEF Effect, Kept
<1>3. CASE now # None /\ Move(a, "stale", now) /\ UNCHANGED <<spec, approval, keys>>
  <2>1. now \in Times /\ Closed(a, "stale", now) /\ "stale" \in States
    BY <1>1, <1>3 DEF Closed, Readings, States, Terminal
  <2> QED BY <1>1, <2>1 DEF Effect
<1>4. CASE /\ now # None /\ approval' = [approval EXCEPT ![a].status = "consumed"]
           /\ Move(a, "executing", now) /\ UNCHANGED <<spec, keys>>
  <2>1. now \in Times /\ MadeReserved(a, now)
    BY <1>1, <1>4 DEF MadeReserved, Readings
  <2> QED BY <1>1, <2>1 DEF Effect
<1> QED BY <1>2, <1>3, <1>4 DEF Decide

LEMMA SimulateEffect ==
    ASSUME IInv, NEW t \in Threads, NEW answer \in Answers, Simulate(t, answer)
    PROVE  Effect
<1>1. job[t].action \in ActionIds /\ Ran(job[t].action, answer)
  BY DEF Simulate, IInv, RunningShape, RunsShape, Running, Ran
<1> QED BY <1>1 DEF Effect

LEMMA SettleEffect ==
    ASSUME IInv, NEW t \in Threads, NEW now \in Readings,
           Complete(t, now) \/ Uncertain(t, now)
    PROVE  Effect
<1> DEFINE a == job[t].action
<1>1. /\ a \in ActionIds /\ state[a] = "executing"
      /\ pc[t] \in {"succeeding", "failing", "raising"}
      /\ UNCHANGED <<spec, approval, keys, runs>>
  BY DEF IInv, RunningShape, Running, Complete, Uncertain
<1>2. Len(runs[a]) = 1
  <2>1. Len(<<"echo">>) = 1 /\ Len(<<"failure">>) = 1
    OBVIOUS
  <2> QED BY <1>1, <2>1 DEF IInv, RunsShape
<1>3. CASE UNCHANGED <<state, trail>>
  BY <1>1, <1>3 DEF Effect, Kept, ledger
<1>4. ASSUME NEW s \in {"succeeded", "failed", "uncertain"}, NEW at \in Times, Move(a, s, at)
      PROVE  Effect
  <2>1. MadeSettled(a, s, at) /\ s \in States
    BY <1>1, <1>2, <1>4 DEF MadeSettled, States, Terminal
  <2> QED BY <1>1, <2>1 DEF Effect
<1>5. CASE Complete(t, now) /\ now # None
  <2>1. now \in Times
    BY <1>5 DEF Readings
  <2> QED BY <1>4, <1>5, <2>1 DEF Complete
<1>6. CASE Uncertain(t, now)
  <2> DEFINE at == IF now = None THEN trail[a][Len(trail[a])].at ELSE now
  <2>1. at \in Times
    <3>1. trail[a] \in Seq(Moves) /\ Len(trail[a]) = 2
      BY <1>1 DEF IInv, TypeOK, LedgerShape
    <3>2. trail[a][Len(trail[a])] \in Moves
      BY <3>1
    <3> QED BY <3>2 DEF Readings, Moves
  <2>2. Move(a, "uncertain", at)
    BY <1>1, <1>6 DEF Uncertain
  <2> HIDE DEF at
  <2> QED BY <1>4, <2>1, <2>2
<1> QED BY <1>3, <1>5, <1>6 DEF Complete

\* Whatever a step does to the records is one of these effects, on one action.
LEMMA StepEffect == IInv /\ [Next]_vars => Effect
<1> SUFFICES ASSUME IInv, [Next]_vars PROVE Effect
  OBVIOUS
<1>1. CASE UNCHANGED vars
  BY <1>1 DEF vars, Effect, Kept, ledger
<1>2. ASSUME NEW t \in Threads, Operation(t) PROVE Effect
  <2>1. PICK caller \in Callers, a \in ActionIds :
        \/ \E s \in Specs, k \in Keys : Propose(t, caller, s, a, k)
        \/ Get(t, caller, a)
        \/ \E now \in Readings :
              \/ \E id \in ApprovalIds, expires \in Expiries :
                    Approve(t, caller, a, id, expires, now)
              \/ Reject(t, caller, a, now)
              \/ \E grant \in Held : Execute(t, caller, a, grant, now)
    BY <1>2 DEF Operation
  <2>2. CASE Get(t, caller, a)
    BY <2>2 DEF Get, Effect, Kept
  <2>3. ASSUME NEW grant \in Held, NEW now \in Readings, Execute(t, caller, a, grant, now)
        PROVE  Effect
    BY <2>3 DEF Execute, Effect, Kept
  <2> QED BY <2>1, <2>2, <2>3, ProposeEffect, ApproveEffect, RejectEffect
<1>3. ASSUME NEW t \in Threads, UnderLock(t) PROVE Effect
  <2>1. ASSUME NEW seen, ReadTarget(t, seen) PROVE Effect
    BY <2>1 DEF ReadTarget, Effect, Kept
  <2> QED BY <1>3, <2>1, DecideEffect DEF UnderLock
<1>4. ASSUME NEW t \in Threads, Run(t) PROVE Effect
  BY <1>4, SimulateEffect DEF Run
<1>5. ASSUME NEW t \in Threads, Settle(t) PROVE Effect
  BY <1>5, SettleEffect DEF Settle
<1> QED BY <1>1, <1>2, <1>3, <1>4, <1>5 DEF Next

-----------------------------------------------------------------------------
(* Records only grow                                                        *)

LEMMA SamePrefix ==
    ASSUME NEW s \in Seq(Moves)
    PROVE  Len(s) \in Nat /\ SubSeq(s, 1, Len(s)) = s
<1>1. Len(s) \in Nat /\ \A i \in 1..Len(s) : s[i] \in Moves
  BY LenProperties, ElementOfSeq
<1>2. PICK n \in Nat : n = Len(s)
  BY <1>1
<1>3. /\ SubSeq(s, 1, n) \in Seq(Moves)
      /\ Len(SubSeq(s, 1, n)) = IF 1 <= n THEN n - 1 + 1 ELSE 0
      /\ \A i \in 1..n - 1 + 1 : SubSeq(s, 1, n)[i] = s[1 + i - 1]
  BY <1>1, <1>2, SubSeqProperties
<1>4. Len(SubSeq(s, 1, n)) = n /\ \A i \in 1..n : SubSeq(s, 1, n)[i] = s[i]
  BY <1>3
<1>5. SubSeq(s, 1, n) = s
  BY <1>2, <1>3, <1>4, SeqEqual
<1> QED BY <1>1, <1>2, <1>5

LEMMA AppendPrefix ==
    ASSUME NEW s \in Seq(Moves), NEW m \in Moves
    PROVE  /\ Len(Append(s, m)) >= Len(s)
           /\ SubSeq(Append(s, m), 1, Len(s)) = s
           /\ Append(s, m) # s
<1> DEFINE t == Append(s, m)
<1>1. /\ Len(s) \in Nat /\ t \in Seq(Moves) /\ Len(t) = Len(s) + 1
      /\ \A i \in 1..Len(s) : t[i] = s[i] /\ s[i] \in Moves
  BY LenProperties, AppendProperties, ElementOfSeq
<1> HIDE DEF t
<1>2. PICK n \in Nat : n = Len(s)
  BY <1>1
<1>3. /\ SubSeq(t, 1, n) \in Seq(Moves)
      /\ Len(SubSeq(t, 1, n)) = IF 1 <= n THEN n - 1 + 1 ELSE 0
      /\ \A i \in 1..n - 1 + 1 : SubSeq(t, 1, n)[i] = t[1 + i - 1]
  <2>1. \A i \in 1..n : t[i] \in Moves
    BY <1>1, <1>2
  <2> QED BY <2>1, SubSeqProperties
<1>4. Len(SubSeq(t, 1, n)) = n /\ \A i \in 1..n : SubSeq(t, 1, n)[i] = t[i]
  BY <1>3
<1>5. SubSeq(t, 1, n) = s
  BY <1>1, <1>2, <1>3, <1>4, SeqEqual
<1>6. Len(t) >= Len(s) /\ t # s
  BY <1>1
<1> QED BY <1>2, <1>5, <1>6 DEF t

\* What RecordsOnlyGrow says of a step.
RecordGrows(a) ==
    /\ spec'[a] = spec[a]
    /\ Len(trail'[a]) >= Len(trail[a])
    /\ SubSeq(trail'[a], 1, Len(trail[a])) = trail[a]
    /\ state'[a] # state[a] => trail'[a] # trail[a]
    /\ approval[a] # None /\ approval'[a] # approval[a] =>
          /\ state[a] = "proposed" /\ state'[a] = "executing"
          /\ approval'[a] = [approval[a] EXCEPT !.status = "consumed"]

\* A record nothing happens to.
LEMMA RecordStays ==
    ASSUME IInv, NEW a \in ActionIds, spec'[a] = spec[a], trail'[a] = trail[a],
           state'[a] = state[a],
           approval[a] # None => approval'[a] = approval[a]
    PROVE  RecordGrows(a)
<1>1. trail[a] \in Seq(Moves)
  BY DEF IInv, TypeOK
<1>2. Len(trail[a]) \in Nat /\ SubSeq(trail[a], 1, Len(trail[a])) = trail[a]
  BY <1>1, SamePrefix
<1> QED BY <1>2 DEF RecordGrows

\* A record that moves.
LEMMA RecordMoves ==
    ASSUME IInv, NEW a \in ActionIds, NEW s \in States, NEW at \in Times, Move(a, s, at),
           UNCHANGED spec,
           approval'[a] # approval[a] =>
              /\ state[a] = "proposed" /\ s = "executing"
              /\ approval'[a] = [approval[a] EXCEPT !.status = "consumed"]
    PROVE  RecordGrows(a)
<1> DEFINE m == [state |-> s, at |-> at]
<1>1. trail[a] \in Seq(Moves) /\ m \in Moves
  BY DEF IInv, TypeOK, Moves
<1>2. trail'[a] = Append(trail[a], m) /\ state'[a] = s
  BY DEF Move, IInv, TypeOK
<1> HIDE DEF m
<1>3. /\ Len(trail'[a]) >= Len(trail[a]) /\ trail'[a] # trail[a]
      /\ SubSeq(trail'[a], 1, Len(trail[a])) = trail[a]
  BY <1>1, <1>2, AppendPrefix
<1> QED BY <1>2, <1>3 DEF RecordGrows

LEMMA StepGrows ==
    ASSUME IInv, Effect
    PROVE  /\ \A k \in Keys : keys[k] # None => keys'[k] = keys[k]
           /\ \A a \in Stored : RecordGrows(a)
<1>t. TypeOK
  BY DEF IInv
<1>0. \A a \in Stored : a \in ActionIds /\ state[a] # "absent"
  BY DEF Stored
<1>1. CASE Kept
  BY <1>0, <1>1, RecordStays DEF Kept, ledger
<1>2. ASSUME NEW a \in ActionIds, NEW s \in Specs, NEW k \in Keys, NEW now \in Times,
             Opened(a, s, k, now)
      PROVE  /\ \A j \in Keys : keys[j] # None => keys'[j] = keys[j]
             /\ \A b \in Stored : RecordGrows(b)
  <2>1. \A j \in Keys : keys[j] # None => keys'[j] = keys[j]
    BY <1>t, <1>2 DEF Opened, TypeOK
  <2>2. ASSUME NEW b \in Stored PROVE RecordGrows(b)
    <3>1. b \in ActionIds /\ b # a
      BY <1>0, <1>2 DEF Opened
    <3>2. /\ spec'[b] = spec[b] /\ trail'[b] = trail[b] /\ state'[b] = state[b]
          /\ approval' = approval
      BY <1>t, <1>2, <3>1 DEF Opened, TypeOK
    <3> QED BY <3>1, <3>2, RecordStays
  <2> QED BY <2>1, <2>2
<1>3. ASSUME NEW a \in ActionIds, NEW grant \in Approvals, Granted(a, grant)
      PROVE  /\ UNCHANGED keys
             /\ \A b \in Stored : RecordGrows(b)
  <2>1. ASSUME NEW b \in Stored PROVE RecordGrows(b)
    <3>1. b \in ActionIds /\ UNCHANGED <<state, spec, trail>>
      BY <1>0, <1>3 DEF Granted
    <3>2. approval[b] # None => approval'[b] = approval[b]
      BY <1>t, <1>3, <3>1 DEF Granted, TypeOK
    <3> QED BY <3>1, <3>2, RecordStays
  <2> QED BY <1>3, <2>1 DEF Granted
<1>4. ASSUME NEW a \in ActionIds, NEW s \in States, NEW at \in Times, Move(a, s, at),
             UNCHANGED <<spec, keys>>,
             \A b \in ActionIds : b # a => approval'[b] = approval[b],
             approval'[a] # approval[a] =>
                /\ state[a] = "proposed" /\ s = "executing"
                /\ approval'[a] = [approval[a] EXCEPT !.status = "consumed"]
      PROVE  /\ UNCHANGED keys
             /\ \A b \in Stored : RecordGrows(b)
  <2>1. ASSUME NEW b \in Stored PROVE RecordGrows(b)
    <3>1. CASE b = a
      BY <1>4, <3>1, RecordMoves
    <3>2. CASE b # a
      <4>1. b \in ActionIds /\ state'[b] = state[b] /\ trail'[b] = trail[b]
        BY <1>t, <1>0, <1>4, <3>2 DEF Move, TypeOK
      <4> QED BY <1>4, <3>2, <4>1, RecordStays
    <3> QED BY <3>1, <3>2
  <2> QED BY <1>4, <2>1
<1>5. ASSUME NEW a \in ActionIds, NEW s \in States, NEW at \in Times,
             Closed(a, s, at) \/ MadeSettled(a, s, at)
      PROVE  /\ UNCHANGED keys
             /\ \A b \in Stored : RecordGrows(b)
  BY <1>4, <1>5 DEF Closed, MadeSettled
<1>6. ASSUME NEW a \in ActionIds, NEW at \in Times, MadeReserved(a, at)
      PROVE  /\ UNCHANGED keys
             /\ \A b \in Stored : RecordGrows(b)
  <2>1. approval'[a] = [approval[a] EXCEPT !.status = "consumed"]
    BY <1>t, <1>6 DEF MadeReserved, TypeOK
  <2>2. \A b \in ActionIds : b # a => approval'[b] = approval[b]
    BY <1>t, <1>6 DEF MadeReserved, TypeOK
  <2> QED BY <1>4, <1>6, <2>1, <2>2 DEF MadeReserved, States
<1>7. ASSUME NEW a \in ActionIds, NEW answer \in Answers, Ran(a, answer)
      PROVE  /\ UNCHANGED keys
             /\ \A b \in Stored : RecordGrows(b)
  BY <1>0, <1>7, RecordStays DEF Ran, ledger
<1> QED BY <1>1, <1>2, <1>3, <1>5, <1>6, <1>7 DEF Effect

\* A record once stored keeps its spec, its key and its past; the approval on it
\* changes only by being consumed when the action is reserved (_transition and
\* the reservation of execute).
THEOREM RecordsGrow == Spec => RecordsOnlyGrow
<1> DEFINE Grows == /\ \A k \in Keys : keys[k] # None => keys'[k] = keys[k]
                    /\ \A a \in Stored : RecordGrows(a)
<1>1. IInv /\ [Next]_vars => [Grows]_vars
  BY StepEffect, StepGrows
<1>2. Spec => [][Grows]_vars
  BY <1>1, InductiveInvariant, PTL DEF Spec
<1> QED BY <1>2 DEF RecordsOnlyGrow, RecordGrows

-----------------------------------------------------------------------------
(* The refinement                                                           *)

PhaseOf == [a \in ActionIds |-> Phase(a)]
GrantOf == [a \in ActionIds |-> IF approval[a] = None THEN "none" ELSE approval[a].status]
RanOf   == [a \in ActionIds |-> Len(runs[a])]

\* The phase of an action whose state is known.
LEMMA Phases ==
    ASSUME NEW a \in ActionIds
    PROVE  /\ state[a] = "absent" => Phase(a) = "absent"
           /\ state[a] = "proposed" => Phase(a) = "proposed"
           /\ state[a] \in {"rejected", "stale"} => Phase(a) = "closed"
           /\ state[a] = "executing" => Phase(a) = "reserved"
           /\ state[a] \in {"succeeded", "failed", "uncertain"} => Phase(a) = "settled"
  BY DEF Phase

LEMMA PhasesLater ==
    ASSUME NEW a \in ActionIds
    PROVE  /\ state'[a] = "proposed" => Phase(a)' = "proposed"
           /\ state'[a] \in {"rejected", "stale"} => Phase(a)' = "closed"
           /\ state'[a] = "executing" => Phase(a)' = "reserved"
           /\ state'[a] \in {"succeeded", "failed", "uncertain"} => Phase(a)' = "settled"
  BY DEF Phase

\* One action's state is set, and so is its phase.
LEMMA OnePhase ==
    ASSUME TypeOK, NEW a \in ActionIds, NEW s, state' = [state EXCEPT ![a] = s], NEW p,
           Phase(a)' = p
    PROVE  PhaseOf' = [PhaseOf EXCEPT ![a] = p]
<1>1. \A b \in ActionIds : b # a => Phase(b)' = Phase(b)
  <2>1. \A b \in ActionIds : b # a => state'[b] = state[b]
    BY DEF TypeOK
  <2> QED BY <2>1 DEF Phase
<1> QED BY <1>1 DEF PhaseOf

LEMMA ContractInit == Init => Contract!Init
<1> SUFFICES ASSUME Init PROVE Contract!Init
  OBVIOUS
<1>1. \A a \in ActionIds : Phase(a) = "absent"
  BY Phases DEF Init
<1>2. \A a \in ActionIds : Len(runs[a]) = 0
  BY DEF Init
<1>3. \A a \in ActionIds : approval[a] = None
  BY DEF Init
<1> QED BY <1>1, <1>2, <1>3 DEF Contract!Init

LEMMA ContractStep == IInv /\ [Next]_vars => [Contract!Next]_Contract!vars
<1> SUFFICES ASSUME IInv, Effect PROVE [Contract!Next]_Contract!vars
  BY StepEffect
<1>t. TypeOK
  BY DEF IInv
<1>1. /\ UNCHANGED approval => GrantOf' = GrantOf
      /\ UNCHANGED runs => RanOf' = RanOf
      /\ UNCHANGED state => PhaseOf' = PhaseOf
  BY DEF GrantOf, RanOf, PhaseOf, Phase
<1>2. CASE Kept
  BY <1>1, <1>2 DEF Kept, ledger, Contract!vars, PhaseOf, GrantOf, RanOf
<1>3. ASSUME NEW a \in ActionIds, NEW s \in Specs, NEW k \in Keys, NEW now \in Times,
             Opened(a, s, k, now)
      PROVE  Contract!Open(a)
  <2>1. PhaseOf' = [PhaseOf EXCEPT ![a] = "proposed"] /\ Phase(a) = "absent"
    <3>1. state'[a] = "proposed" /\ state[a] = "absent"
      BY <1>t, <1>3 DEF Opened, TypeOK
    <3> QED BY <1>t, <1>3, <3>1, OnePhase, Phases, PhasesLater DEF Opened
  <2>2. GrantOf' = GrantOf /\ RanOf' = RanOf
    BY <1>1, <1>3 DEF Opened
  <2> QED BY <2>1, <2>2 DEF Contract!Open, PhaseOf, GrantOf, RanOf
<1>4. ASSUME NEW a \in ActionIds, NEW grant \in Approvals, Granted(a, grant)
      PROVE  Contract!Grant(a)
  <2>1. Phase(a) = "proposed" /\ PhaseOf' = PhaseOf /\ RanOf' = RanOf
    BY <1>1, <1>4, Phases DEF Granted
  <2>2. GrantOf[a] = "none" /\ GrantOf' = [GrantOf EXCEPT ![a] = "available"]
    <3>1. approval'[a] = grant /\ \A b \in ActionIds : b # a => approval'[b] = approval[b]
      BY <1>t, <1>4 DEF Granted, TypeOK
    <3>2. grant # None /\ grant.status = "available" /\ approval[a] = None
      BY <1>4, ControllerAssumption DEF Granted
    <3> QED BY <3>1, <3>2 DEF GrantOf
  <2> QED BY <2>1, <2>2 DEF Contract!Grant, PhaseOf, GrantOf, RanOf
<1>5. ASSUME NEW a \in ActionIds, NEW s \in States, NEW at \in Times, Closed(a, s, at)
      PROVE  Contract!Close(a)
  <2>1. PhaseOf' = [PhaseOf EXCEPT ![a] = "closed"] /\ Phase(a) = "proposed"
    <3>1. state'[a] = s /\ state[a] = "proposed" /\ state' = [state EXCEPT ![a] = s]
      BY <1>t, <1>5 DEF Closed, Move, TypeOK
    <3> QED BY <1>t, <1>5, <3>1, OnePhase, Phases, PhasesLater DEF Closed
  <2>2. GrantOf' = GrantOf /\ RanOf' = RanOf
    BY <1>1, <1>5 DEF Closed
  <2> QED BY <2>1, <2>2 DEF Contract!Close, PhaseOf, GrantOf, RanOf
<1>6. ASSUME NEW a \in ActionIds, NEW at \in Times, MadeReserved(a, at)
      PROVE  Contract!Reserve(a)
  <2>1. PhaseOf' = [PhaseOf EXCEPT ![a] = "reserved"] /\ Phase(a) = "proposed"
    <3>1. /\ state'[a] = "executing" /\ state[a] = "proposed"
          /\ state' = [state EXCEPT ![a] = "executing"]
      BY <1>t, <1>6 DEF MadeReserved, Move, TypeOK
    <3> QED BY <1>t, <3>1, OnePhase, Phases, PhasesLater
  <2>2. GrantOf[a] = "available" /\ GrantOf' = [GrantOf EXCEPT ![a] = "consumed"]
    <3>1. approval[a] \in Approvals /\ state[a] = "proposed"
      BY <1>t, <1>6 DEF MadeReserved, TypeOK
    <3>2. approval[a].status = "available" /\ approval[a] # None
      BY <1>6, <3>1 DEF IInv, LedgerShape, Reserved, Approvals, MadeReserved
    <3>3. /\ approval'[a] = [approval[a] EXCEPT !.status = "consumed"]
          /\ \A b \in ActionIds : b # a => approval'[b] = approval[b]
      BY <1>t, <1>6 DEF MadeReserved, TypeOK
    <3>4. approval'[a] \in Approvals /\ approval'[a].status = "consumed"
      BY <3>1, <3>3 DEF Approvals
    <3>5. approval'[a] # None
      BY <3>4, ControllerAssumption
    <3> QED BY <3>2, <3>3, <3>4, <3>5 DEF GrantOf
  <2>3. RanOf' = RanOf
    BY <1>1, <1>6 DEF MadeReserved
  <2> QED BY <2>1, <2>2, <2>3 DEF Contract!Reserve, PhaseOf, GrantOf, RanOf
<1>7. ASSUME NEW a \in ActionIds, NEW answer \in Answers, Ran(a, answer)
      PROVE  Contract!Simulate(a)
  <2>1. Phase(a) = "reserved" /\ PhaseOf' = PhaseOf /\ GrantOf' = GrantOf
    BY <1>1, <1>7, Phases DEF Ran, ledger
  <2>2. RanOf[a] = 0 /\ RanOf' = [RanOf EXCEPT ![a] = 1]
    <3>1. runs[a] = <<>> /\ runs'[a] = <<answer>>
      BY <1>t, <1>7 DEF Ran, TypeOK
    <3>2. \A b \in ActionIds : b # a => runs'[b] = runs[b]
      BY <1>t, <1>7 DEF Ran, TypeOK
    <3>3. Len(runs[a]) = 0 /\ Len(runs'[a]) = 1
      BY <3>1
    <3> QED BY <3>2, <3>3 DEF RanOf
  <2> QED BY <2>1, <2>2 DEF Contract!Simulate, PhaseOf, GrantOf, RanOf
<1>8. ASSUME NEW a \in ActionIds, NEW s \in States, NEW at \in Times, MadeSettled(a, s, at)
      PROVE  Contract!Settle(a)
  <2>1. PhaseOf' = [PhaseOf EXCEPT ![a] = "settled"] /\ Phase(a) = "reserved"
    <3>1. state'[a] = s /\ state[a] = "executing" /\ state' = [state EXCEPT ![a] = s]
      BY <1>t, <1>8 DEF MadeSettled, Move, TypeOK
    <3> QED BY <1>t, <1>8, <3>1, OnePhase, Phases, PhasesLater DEF MadeSettled
  <2>2. GrantOf' = GrantOf /\ RanOf' = RanOf /\ RanOf[a] = 1
    BY <1>1, <1>8 DEF MadeSettled, RanOf
  <2> QED BY <2>1, <2>2 DEF Contract!Settle, PhaseOf, GrantOf, RanOf
<1> QED BY <1>2, <1>3, <1>4, <1>5, <1>6, <1>7, <1>8 DEF Effect, Contract!Next

\* Every step of the controller is a step of the contract of one action, or none:
\* granted once, reserved against its grant, run once and settled after its run,
\* whatever callers interleave (copilot/controlled_workflow.py).
THEOREM ImplementsContract == Spec => ContractHeld
  BY ContractInit, ContractStep, InductiveInvariant, PTL DEF Spec, ContractHeld, Contract!Spec

-----------------------------------------------------------------------------
(* The tools: the invariant of their calls                                  *)

Stages == {"looked", "granted", "executing"}

\* A call that is under way works for an action of the tools' scope, with an
\* approval its provider could hold.
Asks(t) == turn[t] # None =>
    /\ turn[t] \in [stage : Stages, action : ActionIds, state : States \cup {"absent"},
                    grant : {None, Forged} \cup ActionIds]
    /\ turn[t].grant \in Held
    /\ scope = "principal"
    /\ turn[t].action \in Stored /\ spec[turn[t].action] \in AuthorizedSpecs

\* What is told is so.
Tells == told # None /\ told.state # None =>
    LET a == told.action
        s == told.state
    IN  /\ state[a] = s
        /\ s = "succeeded" => runs[a] = <<"echo">>
        /\ ~told.ok => told.code # None
        /\ told.tool = "simulate" => s # "proposed" /\ approval[a] # None

TInv ==
    /\ IInv /\ scope \in Callers /\ DOMAIN turn = Models
    /\ \A t \in Models : Asks(t)
    /\ Tells

LEMMA InvariantTells == TInv => ToolsTellDecisions
  BY DEF TInv, ToolsTellDecisions, ProviderAfterAuthority, Asks, Tells

-----------------------------------------------------------------------------
(* The tools and the host use the controller's operations only *)

LEMMA ControllerStep == TInv /\ [ToolsNext]_toolVars => [Next]_vars
<1> SUFFICES ASSUME TInv, [ToolsNext]_toolVars PROVE [Next]_vars
  OBVIOUS
<1>1. CASE UNCHANGED toolVars
  BY <1>1 DEF toolVars
<1>2. ASSUME NEW t \in Models, Tool(t) PROVE [Next]_vars
  <2>1. t \in Threads /\ scope \in Callers /\ Asks(t)
    BY ModelsAssumption DEF TInv
  <2>2. CASE Malformed(t) \/ IdentityRaises(t) \/ AskProvider(t)
    BY <2>2 DEF Malformed, IdentityRaises, AskProvider
  <2>3. CASE ProposeTool(t) \/ GetTool(t) \/ Look(t)
    BY <2>1, <2>3 DEF ProposeTool, GetTool, Look, Next, Operation
  <2>4. CASE ExecuteTool(t)
    <3>1. turn[t].action \in ActionIds /\ turn[t].grant \in Held
      BY <2>1, <2>4 DEF ExecuteTool, Asks
    <3>2. PICK now \in Readings : Execute(t, scope, turn[t].action, turn[t].grant, now)
      BY <2>4 DEF ExecuteTool
    <3>3. Operation(t)
      BY <2>1, <3>1, <3>2 DEF Operation
    <3> QED BY <2>1, <3>3 DEF Next
  <2>5. CASE Executing(t, UnderLock(t)) \/ Executing(t, Run(t)) \/ Executing(t, Settle(t))
    BY <2>1, <2>5 DEF Executing, Next
  <2> QED BY <1>2, <2>2, <2>3, <2>4, <2>5 DEF Tool, Call
<1>3. ASSUME NEW t \in Threads \ Models, Host(t, Threaded(t)) PROVE [Next]_vars
  <2>1. CASE Decision(t)
    <3>1. "principal" \in Callers
      BY DEF Callers
    <3>2. Operation(t)
      BY <2>1, <3>1 DEF Decision, Operation
    <3> QED BY <3>2 DEF Next
  <2>2. CASE UnderLock(t) \/ Run(t) \/ Settle(t)
    BY <2>2 DEF Next
  <2> QED BY <1>3, <2>1, <2>2 DEF Host, Threaded
<1> QED BY <1>1, <1>2, <1>3 DEF ToolsNext

-----------------------------------------------------------------------------
(* What lasts *)

\* A record stays, with its spec, and so does the approval of an action.
Lasting ==
    /\ \A a \in Stored : a \in Stored' /\ spec'[a] = spec[a]
    /\ \A a \in ActionIds : approval[a] # None => approval'[a] # None

LEMMA StepLasts ==
    ASSUME IInv, IInv', [Next]_vars
    PROVE  Lasting
<1>1. Effect
  BY StepEffect
<1>t. TypeOK /\ TypeOK'
  BY DEF IInv
<1>2. \A a \in Stored : spec'[a] = spec[a]
  BY <1>1, StepGrows DEF RecordGrows
<1>3. ASSUME NEW a \in ActionIds, approval[a] # None PROVE approval'[a] # None
  <2>1. a \in Stored
    BY <1>3 DEF IInv, LedgerShape, Stored
  <2>2. approval'[a] = approval[a] \/ approval'[a] = [approval[a] EXCEPT !.status = "consumed"]
    BY <1>1, <1>3, <2>1, StepGrows DEF RecordGrows
  <2>3. approval[a] \in Approvals
    BY <1>3, <1>t DEF TypeOK
  <2>4. [approval[a] EXCEPT !.status = "consumed"] \in Approvals
    BY <2>3 DEF Approvals
  <2> QED BY <1>3, <2>2, <2>4, ControllerAssumption
<1>4. ASSUME NEW a \in ActionIds, state[a] # "absent" PROVE state'[a] # "absent"
  <2>s. "absent" \notin States
    BY DEF States, Terminal
  <2>1. CASE Kept
    BY <1>4, <2>1 DEF Kept, ledger
  <2>2. ASSUME NEW b \in ActionIds, NEW s \in States, state' = [state EXCEPT ![b] = s]
        PROVE  state'[a] # "absent"
    BY <1>4, <1>t, <2>s, <2>2 DEF TypeOK
  <2>3. ASSUME NEW b \in ActionIds, NEW s \in Specs, NEW k \in Keys, NEW now \in Times,
               Opened(b, s, k, now)
        PROVE  state'[a] # "absent"
    BY <2>2, <2>3 DEF Opened, States
  <2>4. ASSUME NEW b \in ActionIds, NEW s \in States, NEW at \in Times,
               Closed(b, s, at) \/ MadeSettled(b, s, at)
        PROVE  state'[a] # "absent"
    BY <2>2, <2>4 DEF Closed, MadeSettled, Move
  <2>5. ASSUME NEW b \in ActionIds, NEW at \in Times, MadeReserved(b, at)
        PROVE  state'[a] # "absent"
    BY <2>2, <2>5 DEF MadeReserved, Move, States
  <2>6. ASSUME NEW b \in ActionIds, NEW grant \in Approvals, Granted(b, grant)
        PROVE  state'[a] # "absent"
    BY <1>4, <2>6 DEF Granted
  <2>7. ASSUME NEW b \in ActionIds, NEW answer \in Answers, Ran(b, answer)
        PROVE  state'[a] # "absent"
    BY <1>4, <2>7 DEF Ran, ledger
  <2> QED BY <1>1, <2>1, <2>3, <2>4, <2>5, <2>6, <2>7 DEF Effect
<1> QED BY <1>2, <1>3, <1>4 DEF Lasting, Stored

\* A call that stays, ends or moves to a later stage still works for its action.
LEMMA AskingLasts ==
    ASSUME Lasting, scope' = scope, NEW t, Asks(t),
           \/ turn'[t] = None \/ turn'[t] = turn[t]
           \/ turn[t] # None /\ turn'[t] = [turn[t] EXCEPT !.stage = "executing"]
           \/ /\ turn[t] # None
              /\ \E grant \in Held :
                    turn'[t] = [turn[t] EXCEPT !.stage = "granted", !.grant = grant]
    PROVE  Asks(t)'
<1>1. Held \subseteq Held' /\ Held \subseteq {None, Forged} \cup ActionIds
  BY DEF Held, Lasting
<1>2. CASE turn'[t] = None
  BY <1>2 DEF Asks
<1>3. ASSUME turn[t] # None,
             NEW s \in Stages, NEW grant \in Held,
             turn'[t] = [turn[t] EXCEPT !.stage = s, !.grant = grant]
      PROVE  Asks(t)'
  <2>1. /\ turn'[t] \in [stage : Stages, action : ActionIds, state : States \cup {"absent"},
                         grant : {None, Forged} \cup ActionIds]
        /\ turn'[t].grant = grant /\ turn'[t].action = turn[t].action
    BY <1>1, <1>3 DEF Asks
  <2> QED BY <1>1, <1>3, <2>1 DEF Asks, Lasting
<1>4. CASE turn[t] # None /\ turn'[t] = turn[t]
  BY <1>1, <1>4 DEF Asks, Lasting
<1>5. CASE turn[t] # None /\ turn'[t] = [turn[t] EXCEPT !.stage = "executing"]
  <2>1. turn'[t] = [turn[t] EXCEPT !.stage = "executing", !.grant = turn[t].grant]
    BY <1>5 DEF Asks
  <2> QED BY <1>3, <1>5, <2>1 DEF Asks, Stages
<1> QED BY <1>2, <1>3, <1>4, <1>5 DEF Stages

-----------------------------------------------------------------------------
(* What is told is so *)

\* What the controller said, in a step, to a call of a tool.
Said(tool) ==
    \/ reply'.told \in Errors
    \/ /\ reply'.action \in ActionIds
       /\ state'[reply'.action] = reply'.told
       /\ tool = "simulate" => reply'.told # "proposed" /\ approval'[reply'.action] # None

\* A projection of what was said tells what is so.
LEMMA TellsSaid ==
    ASSUME IInv', NEW t, NEW tool, Tell(t, tool), Said(tool)
    PROVE  Tells'
<1>1. CASE told' = None
  BY <1>1 DEF Tells
<1>2. ASSUME NEW code, told' = Refused(tool, code) PROVE Tells'
  BY <1>2 DEF Tells, Refused
<1>3. CASE reply'.told \notin Errors /\ told' = Project(tool, reply'.action, reply'.told)
  <2>1. /\ told'.action = reply'.action /\ told'.state = reply'.told /\ told'.tool = tool
        /\ told'.ok = (reply'.told \notin Bad) /\ told'.code = Code(reply'.told)
    BY <1>3 DEF Project
  <2>2. reply'.told = "succeeded" => runs'[reply'.action] = <<"echo">>
    BY <1>3 DEF Said, IInv, RunsShape
  <2>3. reply'.told \in Bad => Code(reply'.told) = reply'.told
    BY DEF Bad, Code, Terminal
  <2> QED BY <1>3, <2>1, <2>2, <2>3 DEF Said, Tells
<1> QED BY <1>1, <1>2, <1>3 DEF Tell

LEMMA ProposeSays ==
    ASSUME IInv, NEW t, NEW caller, NEW s \in Specs, NEW a \in ActionIds, NEW k \in Keys,
           Propose(t, caller, s, a, k)
    PROVE  Said("propose")
<1>t. TypeOK
  BY DEF IInv
<1>1. CASE /\ ProposeOutcome(caller, s, a, k) = "replay"
           /\ reply' = [action |-> keys[k], told |-> state[keys[k]]]
           /\ UNCHANGED ledger
  <2>1. keys[k] # None
    BY <1>1 DEF ProposeOutcome
  <2>2. keys[k] \in ActionIds
    BY <1>t, <2>1 DEF TypeOK
  <2> QED BY <1>1, <2>2 DEF Said, ledger
<1>2. CASE /\ state' = [state EXCEPT ![a] = "proposed"]
           /\ reply' = [action |-> a, told |-> "proposed"]
  BY <1>t, <1>2 DEF Said, TypeOK
<1>3. ASSUME NEW code \in Errors, Raise(code) PROVE Said("propose")
  BY <1>3 DEF Said, Raise, Answer
<1>4. "raised" \in Errors
  BY DEF Errors
<1> QED BY <1>1, <1>2, <1>3, <1>4 DEF Propose, Answer

LEMMA GetSays ==
    ASSUME IInv, NEW t, NEW caller, NEW a \in ActionIds, Get(t, caller, a)
    PROVE  /\ Said("get")
           /\ reply'.action = None => reply'.told \in Errors
           /\ reply'.action = a =>
                caller = "principal" /\ a \in Stored /\ spec[a] \in AuthorizedSpecs
<1>0. a # None
  BY ControllerAssumption
<1>1. CASE EntryError(caller, a) = ""
  <2>1. caller = "principal" /\ a \in Stored /\ spec[a] \in AuthorizedSpecs
    BY <1>1 DEF EntryError
  <2>2. reply' = [action |-> a, told |-> state[a]] /\ state' = state
    BY <1>1 DEF Get, Answer, ledger
  <2> QED BY <1>0, <2>1, <2>2 DEF Said
<1>2. CASE EntryError(caller, a) # ""
  <2>1. EntryError(caller, a) \in Errors
    BY <1>2 DEF EntryError, Errors
  <2>2. reply' = [action |-> None, told |-> EntryError(caller, a)]
    BY <1>2 DEF Get, Raise, Answer
  <2> QED BY <1>0, <2>1, <2>2 DEF Said
<1> QED BY <1>1, <1>2

LEMMA ExecuteSays ==
    ASSUME IInv, NEW t \in Threads, NEW caller, NEW a \in ActionIds, NEW grant \in Held,
           NEW now, Execute(t, caller, a, grant, now), pc'[t] = "idle"
    PROVE  Said("simulate")
<1>t. TypeOK
  BY DEF IInv
<1> DEFINE error == ExecuteError(caller, a, grant)
<1>1. CASE error # "" /\ Raise(error)
  <2>1. error \in Errors
    BY <1>1 DEF ExecuteError, EntryError, ApprovalError, Errors
  <2> HIDE DEF error
  <2> QED BY <1>1, <2>1 DEF Said, Raise, Answer
<1>2. CASE error = "" /\ state[a] # "proposed" /\ Answer(a, state[a])
  <2>1. grant = a /\ grant # None /\ grant # Forged
    BY <1>2 DEF ExecuteError, EntryError, ApprovalError
  <2>2. approval[a] # None
    BY <2>1 DEF Held
  <2>3. state' = state /\ approval' = approval
    BY DEF Execute, ledger
  <2>4. reply' = [action |-> a, told |-> state[a]]
    BY <1>2 DEF Answer
  <2> QED BY <1>2, <2>2, <2>3, <2>4 DEF Said
<1>3. CASE Raise("raised") \/ Raise("approval_expired")
  BY <1>3 DEF Said, Raise, Answer, Errors
<1>4. CASE pc' = [pc EXCEPT ![t] = "reading"]
  BY <1>t, <1>4 DEF TypeOK
<1> QED BY <1>1, <1>2, <1>3, <1>4 DEF Execute

LEMMA UnderLockSays ==
    ASSUME IInv, NEW t \in Threads, UnderLock(t), pc'[t] = "idle"
    PROVE  Said("simulate")
<1>t. TypeOK
  BY DEF IInv
<1>0. ASSUME NEW code \in {"raised", "approval_expired"}, Abandon(t, code)
      PROVE  Said("simulate")
  <2>1. reply' = [action |-> None, told |-> code] /\ code \in Errors
    BY <1>0 DEF Abandon, Raise, Answer, Errors
  <2> QED BY <2>1 DEF Said
<1>1. ASSUME NEW seen, ReadTarget(t, seen) PROVE Said("simulate")
  <2>1. CASE seen = None
    BY <1>0, <1>1, <2>1 DEF ReadTarget
  <2>2. CASE seen # None
    BY <1>t, <1>1, <2>2 DEF ReadTarget, TypeOK
  <2> QED BY <2>1, <2>2
<1>2. ASSUME NEW now \in Readings, Decide(t, now) PROVE Said("simulate")
  <2> DEFINE a == job[t].action
  <2>1. a \in ActionIds /\ approval[a] # None
    BY <1>2 DEF Decide, IInv, HoldingShape, Holding
  <2>2. CASE Abandon(t, "raised") \/ Abandon(t, "approval_expired")
    BY <1>0, <2>2
  <2>3. CASE Move(a, "stale", now) /\ Answer(a, "stale") /\ UNCHANGED approval
    <3>1. state'[a] = "stale"
      BY <1>t, <2>1, <2>3 DEF Move, TypeOK
    <3>2. reply' = [action |-> a, told |-> "stale"]
      BY <2>3 DEF Answer
    <3> QED BY <2>1, <2>3, <3>1, <3>2 DEF Said
  <2>4. CASE pc' = [pc EXCEPT ![t] = "simulating"]
    BY <1>t, <2>4 DEF TypeOK
  <2> QED BY <1>2, <2>2, <2>3, <2>4 DEF Decide
<1> QED BY <1>1, <1>2 DEF UnderLock

LEMMA RunSays ==
    ASSUME IInv, NEW t \in Threads, Run(t)
    PROVE  pc'[t] # "idle"
<1>1. PICK answer \in Answers : pc' = [pc EXCEPT ![t] = AfterRun[answer]]
  BY DEF Run, Simulate
<1>2. AfterRun[answer] # "idle"
  BY DEF Answers, AfterRun
<1> QED BY <1>1, <1>2 DEF IInv, TypeOK

LEMMA SettleSays ==
    ASSUME IInv, NEW t \in Threads, Settle(t), pc'[t] = "idle"
    PROVE  Said("simulate")
<1>t. TypeOK
  BY DEF IInv
<1>1. ASSUME NEW now, Complete(t, now) PROVE Said("simulate")
  <2> DEFINE a == job[t].action
             s == IF pc[t] = "succeeding" THEN "succeeded" ELSE "failed"
  <2>1. a \in ActionIds /\ state[a] = "executing"
    BY <1>1 DEF Complete, IInv, RunningShape, Running
  <2>2. approval[a] # None
    BY <2>1 DEF IInv, LedgerShape, Reserved
  <2>3. CASE now = None
    BY <1>t, <1>1, <2>3 DEF Complete, TypeOK
  <2>4. CASE now # None
    <3>1. Move(a, s, now) /\ Answer(a, s) /\ approval' = approval
      BY <1>1, <2>4 DEF Complete
    <3>2. s # "proposed"
      OBVIOUS
    <3> HIDE DEF s
    <3>3. state'[a] = s
      BY <1>t, <2>1, <3>1 DEF Move, TypeOK
    <3>4. reply' = [action |-> a, told |-> s]
      BY <3>1 DEF Answer
    <3> QED BY <2>1, <2>2, <3>1, <3>2, <3>3, <3>4 DEF Said
  <2> QED BY <2>3, <2>4
<1>2. ASSUME NEW now, Uncertain(t, now) PROVE Said("simulate")
  BY <1>2 DEF Uncertain, Said, Raise, Answer, Errors
<1> QED BY <1>1, <1>2 DEF Settle

-----------------------------------------------------------------------------
(* The invariant of the tools is inductive *)

LEMMA ToolsInitially == ToolsInit => TInv
<1> SUFFICES ASSUME ToolsInit PROVE TInv
  OBVIOUS
<1>1. IInv
  BY InitIInv DEF ToolsInit
<1>2. \A t \in Models : Asks(t)
  BY DEF ToolsInit, Asks
<1> QED BY <1>1, <1>2 DEF ToolsInit, TInv, Tells

\* A step of execute, in the thread of a model.
LEMMA SettledTells ==
    ASSUME IInv', NEW t \in Models, DOMAIN turn = Models, turn[t] # None, Settled(t),
           pc'[t] = "idle" => Said("simulate")
    PROVE  /\ Tells'
           /\ DOMAIN turn' = Models
           /\ \A u \in Models \ {t} : turn'[u] = turn[u]
           /\ turn'[t] = None \/ turn'[t] = [turn[t] EXCEPT !.stage = "executing"]
<1>1. CASE pc'[t] = "idle"
  <2>1. Tell(t, "simulate")
    BY <1>1 DEF Settled
  <2>2. Tells'
    BY <1>1, <2>1, TellsSaid
  <2> QED BY <2>1, <2>2 DEF Tell
<1>2. CASE pc'[t] # "idle"
  BY <1>2 DEF Settled, Tells
<1> QED BY <1>1, <1>2

LEMMA ToolStep ==
    ASSUME TInv, IInv', Lasting, NEW t \in Models, Tool(t)
    PROVE  TInv'
<1>0. IInv /\ t \in Threads /\ DOMAIN turn = Models /\ Asks(t)
  BY ModelsAssumption DEF TInv
<1>1. SUFFICES /\ scope' = scope /\ Tells' /\ DOMAIN turn' = Models /\ Asks(t)'
               /\ \A u \in Models \ {t} : turn'[u] = turn[u]
  BY AskingLasts DEF TInv
<1>2. scope' = scope
  BY DEF Tool, Call, ProposeTool, GetTool, Look, Malformed, IdentityRaises, AskProvider,
         ExecuteTool, Executing
<1>3. ASSUME NEW tool, Tell(t, tool), Said(tool)
      PROVE  /\ Tells' /\ DOMAIN turn' = Models /\ Asks(t)'
             /\ \A u \in Models \ {t} : turn'[u] = turn[u]
  <2>1. Tells'
    BY <1>3, TellsSaid
  <2> QED BY <1>0, <1>3, <2>1 DEF Tell, Asks
<1>4. CASE Malformed(t) \/ IdentityRaises(t)
  <2>1. Tells' /\ turn' = turn
    BY <1>4 DEF Malformed, IdentityRaises, Tells, Refused
  <2> QED BY <1>0, <1>2, <2>1, AskingLasts
<1>5. CASE ProposeTool(t)
  <2>1. Said("propose")
    BY <1>0, <1>5, ProposeSays DEF ProposeTool
  <2> QED BY <1>2, <1>3, <1>5, <2>1 DEF ProposeTool
<1>6. CASE GetTool(t)
  <2>1. Said("get")
    BY <1>0, <1>6, GetSays DEF GetTool
  <2> QED BY <1>2, <1>3, <1>6, <2>1 DEF GetTool
<1>7. CASE Look(t)
  <2>1. PICK a \in ActionIds :
          /\ Get(t, scope, a)
          /\ \/ /\ reply'.action = a
                /\ turn' = [turn EXCEPT ![t] =
                      [stage |-> "looked", action |-> a, state |-> state[a], grant |-> None]]
                /\ told' = None
             \/ /\ reply'.action = None
                /\ Tell(t, "simulate")
    BY <1>7 DEF Look
  <2>2. CASE reply'.action = None /\ Tell(t, "simulate")
    <3>1. reply'.told \in Errors
      BY <1>0, <2>1, <2>2, GetSays
    <3>2. Said("simulate")
      BY <3>1 DEF Said
    <3> QED BY <1>2, <1>3, <2>2, <3>2
  <2>3. CASE /\ reply'.action = a /\ told' = None
             /\ turn' = [turn EXCEPT ![t] =
                   [stage |-> "looked", action |-> a, state |-> state[a], grant |-> None]]
    <3>1. scope = "principal" /\ a \in Stored /\ spec[a] \in AuthorizedSpecs
      BY <1>0, <2>1, <2>3, GetSays
    <3>2. a \in Stored' /\ spec'[a] = spec[a]
      BY <3>1 DEF Lasting
    <3>3. /\ turn'[t] = [stage |-> "looked", action |-> a, state |-> state[a], grant |-> None]
          /\ DOMAIN turn' = Models /\ \A u \in Models \ {t} : turn'[u] = turn[u]
      BY <1>0, <2>3
    <3>4. state[a] \in States \cup {"absent"}
      BY <1>0 DEF IInv, TypeOK
    <3>5. turn'[t] \in [stage : Stages, action : ActionIds, state : States \cup {"absent"},
                        grant : {None, Forged} \cup ActionIds]
      BY <3>3, <3>4 DEF Stages
    <3>6. Asks(t)'
      BY <1>2, <3>1, <3>2, <3>3, <3>5 DEF Asks, Held
    <3> QED BY <1>2, <2>3, <3>3, <3>6 DEF Tells
  <2> QED BY <2>1, <2>2, <2>3
<1>8. CASE AskProvider(t)
  <2>1. /\ turn[t] # None /\ told' = None
        /\ \/ \E grant \in Held :
                 turn' = [turn EXCEPT ![t].stage = "granted", ![t].grant = grant]
           \/ turn' = [turn EXCEPT ![t] = None]
    BY <1>8 DEF AskProvider
  <2>2. /\ DOMAIN turn' = Models /\ \A u \in Models \ {t} : turn'[u] = turn[u]
        /\ \/ turn'[t] = None
           \/ \E grant \in Held :
                 turn'[t] = [turn[t] EXCEPT !.stage = "granted", !.grant = grant]
    BY <1>0, <2>1
  <2>3. Asks(t)'
    BY <1>0, <1>2, <2>1, <2>2, AskingLasts
  <2> QED BY <1>2, <2>1, <2>2, <2>3 DEF Tells
<1>9. CASE ExecuteTool(t)
  <2>1. turn[t] # None /\ turn[t].action \in ActionIds /\ turn[t].grant \in Held
    BY <1>0, <1>9 DEF ExecuteTool, Asks
  <2>2. pc'[t] = "idle" => Said("simulate")
    BY <1>0, <1>9, <2>1, ExecuteSays DEF ExecuteTool
  <2>3. Settled(t)
    BY <1>9 DEF ExecuteTool
  <2> QED BY <1>0, <1>2, <2>1, <2>2, <2>3, SettledTells, AskingLasts
<1>10. CASE Executing(t, UnderLock(t)) \/ Executing(t, Run(t)) \/ Executing(t, Settle(t))
  <2>1. turn[t] # None /\ Settled(t)
    BY <1>10 DEF Executing
  <2>2. pc'[t] = "idle" => Said("simulate")
    BY <1>0, <1>10, UnderLockSays, RunSays, SettleSays DEF Executing
  <2> QED BY <1>0, <1>2, <2>1, <2>2, SettledTells, AskingLasts
<1> QED BY <1>4, <1>5, <1>6, <1>7, <1>8, <1>9, <1>10 DEF Tool, Call

LEMMA ToolsStep == TInv /\ [ToolsNext]_toolVars => TInv'
<1> SUFFICES ASSUME TInv, [ToolsNext]_toolVars PROVE TInv'
  OBVIOUS
<1>1. IInv /\ [Next]_vars
  BY ControllerStep DEF TInv
<1>2. IInv'
  BY <1>1, NextIInv
<1>3. Lasting
  BY <1>1, <1>2, StepLasts
<1>4. CASE UNCHANGED toolVars
  BY <1>2, <1>4 DEF toolVars, tools, vars, TInv, Asks, Tells, Held, Stored
<1>5. ASSUME NEW t \in Models, Tool(t) PROVE TInv'
  BY <1>2, <1>3, <1>5, ToolStep
<1>6. ASSUME NEW t, told' = None, UNCHANGED <<scope, turn>> PROVE TInv'
  <2>1. \A u \in Models : Asks(u)'
    BY <1>3, <1>6, AskingLasts DEF TInv
  <2> QED BY <1>2, <1>6, <2>1 DEF TInv, Tells
<1> QED BY <1>4, <1>5, <1>6 DEF ToolsNext, Host

-----------------------------------------------------------------------------

\* The typing of a call under way, what it works for and what is told hold in
\* every state, with the invariant of the controller.
THEOREM ToolsInvariant == SafeToolsSpec => []TInv
<1> QED BY ToolsInitially, ToolsStep, PTL DEF SafeToolsSpec

\* What a tool tells a model of an action was decided by the host and done by
\* the controller, and no approval is asked for without authority (invoke_tool
\* of the three tools, _project and _error).
THEOREM ToolsTellTheirDecisions == SafeToolsSpec => []ToolsTellDecisions
<1> QED BY ToolsInvariant, InvariantTells, PTL

\* Models and a host use the controller as its threads may, so that whatever is
\* proved of it holds among them (WorkflowController is borrowed by the tools).
THEOREM ToolsRunTheController == SafeToolsSpec => Spec
<1>1. ToolsInit => Init
  BY DEF ToolsInit
<1> QED BY <1>1, ToolsInvariant, ControllerStep, PTL DEF SafeToolsSpec, Spec

\* The records and the contract of each action, among models and a host: what
\* execute promises is kept when tools call it.
THEOREM ToolsKeepTheContract ==
    SafeToolsSpec => RecordsOnlyGrow /\ ContractHeld /\ []KeysBindOneAction
<1> QED BY ToolsRunTheController, RecordsGrow, ImplementsContract, KeysBound
=============================================================================
