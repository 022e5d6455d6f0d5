------------------------- MODULE CopilotTurn_proofs -------------------------
(* What one turn starts, in which stage it fails, what its follow-up request *)
(* carries and what is published of it, for any responses, any number of     *)
(* tool calls, any sizes of their results, any usages and any limits.        *)
EXTENDS CopilotTurn, SequenceTheorems, FiniteSetTheorems, WellFoundedInduction, TLAPS

-----------------------------------------------------------------------------
(* The inductive invariant *)

Places == {"start", "request", "awaiting", "reading", "closing", "tools", "invoking",
           "serializing", "failing", "failed", "answered"}
Kinds == {"run.started", "provider.request.started", "provider.response.received",
          "tool.calls.validation.started", "tool.execution.started",
          "tool.result.accepted", "run.completed", "run.failed"}
Events == [kind : Kinds, detail : {None} \cup Usages \cup Nat \cup Stages]

Asked == Times("provider.request.started")
Entered == Times("tool.execution.started")
LastKind == log[Len(log)].kind

Typed ==
    /\ pc \in Places
    /\ progress \in [stage : Stages, requests : Nat, tools : Nat]
    /\ log \in Seq(Events) /\ log # <<>>
    /\ calls \in Nat /\ bytes \in Nat
    /\ result \in Nat \cup {None}
    /\ results \in Seq(Nat)

\* The counts of _ProgressState are those of the run.
Counted == Asked = progress.requests /\ Entered = progress.tools

\* How many requests a turn has sent where it is.
Requested ==
    /\ progress.requests <= 2
    /\ pc = "start" => progress.requests = 0
    /\ pc = "request" => progress.requests <= 1
    /\ pc \in {"reading", "tools", "invoking", "serializing"} => progress.requests = 1
    /\ pc \in {"awaiting", "closing", "answered"} => progress.requests >= 1
    /\ pc \in {"reading", "closing"} => response \in Responses

\* The stage fits what happened last, until the failure is told.
Staged ==
    /\ pc = "start" => LastKind = "run.started"
    /\ pc = "awaiting" => LastKind = "provider.request.started"
    /\ pc \in {"reading", "closing"} => LastKind = "provider.response.received"
    /\ pc = "request" /\ progress.requests = 0 => LastKind = "run.started"
    /\ pc = "request" /\ progress.requests = 1 => LastKind = "tool.result.accepted"
    /\ pc = "tools" => LastKind \in {"tool.calls.validation.started", "tool.result.accepted"}
    /\ pc \in {"invoking", "serializing"} => LastKind = "tool.execution.started"
    /\ pc = "serializing" => progress.stage = "tool_result_serialization"
    /\ pc \notin {"answered", "failed"} =>
         published = None /\ progress.stage \in StagesAfter(LastKind, progress.requests)
    /\ pc \in {"answered", "failed"} => StageIsWhereItFailed

\* The partial sums of some sizes, up to a total.
SumsTo(sums, sizes, total) ==
    /\ sums \in [0..Len(sizes) -> 0..MaxCycleBytes]
    /\ sums[0] = 0 /\ sums[Len(sizes)] = total
    /\ \A i \in DOMAIN sizes : sums[i] = sums[i - 1] + sizes[i]

\* The cycle: each call is entered once, in order, and what was accepted is
\* within the limits; a follow-up follows a whole cycle.
Cycled ==
    /\ \A i \in DOMAIN results : results[i] <= MaxResultBytes
    /\ pc \notin {"failing", "failed"} => \E sums : SumsTo(sums, results, bytes)
    /\ progress.requests = 0 \/ pc = "reading" \/ (pc = "awaiting" /\ progress.requests = 1) =>
         progress.tools = 0 /\ results = <<>>
    /\ pc = "tools" => progress.tools = Len(results) /\ Len(results) < calls
    /\ pc \in {"invoking", "serializing"} =>
         progress.tools = Len(results) + 1 /\ Len(results) < calls
    /\ progress.requests = 2 \/ (pc = "request" /\ progress.requests = 1) =>
         calls > 0 /\ progress.tools = calls /\ Len(results) = calls
    /\ progress.requests = 2 => AddUpWithin(results, MaxCycleBytes)

TInv == Typed /\ Counted /\ Requested /\ Staged /\ Cycled

-----------------------------------------------------------------------------
(* Lemmas about the log and the sums *)

\* One more event, of some kind.
LEMMA OneMoreEvent ==
    ASSUME log \in Seq(Events), NEW e \in Events, log' = Append(log, e)
    PROVE  /\ log' \in Seq(Events) /\ log' # <<>>
           /\ Len(log') = Len(log) + 1 /\ log'[Len(log')] = e /\ Last(log') = e
           /\ \A i \in 1..Len(log) : log'[i] = log[i]
  BY AppendProperties DEF Last

\* The events counted are finitely many.
LEMMA CountedFinite ==
    ASSUME log \in Seq(Events), NEW kind
    PROVE  /\ IsFiniteSet({i \in DOMAIN log : log[i].kind = kind})
           /\ Times(kind) \in Nat
<1>1. DOMAIN log = 1..Len(log) /\ Len(log) \in Nat
  BY LenProperties
<1>2. IsFiniteSet(DOMAIN log)
  BY <1>1, FS_Interval
<1>3. IsFiniteSet({i \in DOMAIN log : log[i].kind = kind})
  BY <1>2, FS_Subset
<1> QED BY <1>3, FS_CardinalityType DEF Times

LEMMA OneMoreTime ==
    ASSUME log \in Seq(Events), NEW e \in Events, log' = Append(log, e), NEW kind
    PROVE  Times(kind)' = IF e.kind = kind THEN Times(kind) + 1 ELSE Times(kind)
<1> DEFINE S == {i \in DOMAIN log : log[i].kind = kind}
           T == {i \in DOMAIN log' : log'[i].kind = kind}
<1>1. PICK n \in Nat : n = Len(log) /\ DOMAIN log = 1..n
  BY LenProperties
<1>2. DOMAIN log' = 1..n + 1 /\ log'[n + 1] = e /\ \A i \in 1..n : log'[i] = log[i]
  BY <1>1, OneMoreEvent, LenProperties
<1>3. T = IF e.kind = kind THEN S \cup {n + 1} ELSE S
  BY <1>1, <1>2
<1>4. n + 1 \notin S
  BY <1>1
<1>5. IsFiniteSet(S)
  BY CountedFinite
<1>6. Cardinality(S \cup {n + 1}) = Cardinality(S) + 1
  BY <1>4, <1>5, FS_AddElement
<1> QED BY <1>3, <1>6 DEF Times

\* A request, or a tool, that is counted when its stage is reached.
LEMMA OneMoreCounted ==
    ASSUME NEW p \in [stage : Stages, requests : Nat, tools : Nat],
           NEW next \in Stages, NEW asked \in Nat, NEW entered \in Nat,
           NEW q, q = [p EXCEPT !.requests = asked, !.tools = entered, !.stage = next]
    PROVE  /\ q \in [stage : Stages, requests : Nat, tools : Nat]
           /\ q.requests = asked /\ q.tools = entered /\ q.stage = next
  OBVIOUS

\* One more size within the limit.
LEMMA OneMoreSize ==
    ASSUME NEW sizes \in Seq(Nat), NEW total \in Nat, NEW sums, SumsTo(sums, sizes, total),
           NEW size \in Nat, total + size <= MaxCycleBytes
    PROVE  \E more : SumsTo(more, Append(sizes, size), total + size)
<1> DEFINE longer == Append(sizes, size)
<1>1. PICK n \in Nat : n = Len(sizes) /\ DOMAIN sizes = 1..n
  BY LenProperties
<1>2. /\ Len(longer) = n + 1 /\ DOMAIN longer = 1..n + 1
      /\ longer[n + 1] = size /\ \A i \in 1..n : longer[i] = sizes[i]
  BY <1>1, AppendProperties, LenProperties
<1> HIDE DEF longer
<1> DEFINE more == [i \in 0..n + 1 |-> IF i = n + 1 THEN total + size ELSE sums[i]]
<1>3. \A i \in 0..n : more[i] = sums[i] /\ sums[i] \in 0..MaxCycleBytes
  <2>1. sums \in [0..n -> 0..MaxCycleBytes]
    BY <1>1 DEF SumsTo
  <2>2. \A i \in 0..n : i \in 0..n + 1 /\ i # n + 1
    OBVIOUS
  <2> QED BY <2>1, <2>2
<1>4. total + size \in 0..MaxCycleBytes
  BY TurnAssumption
<1>5. more \in [0..n + 1 -> 0..MaxCycleBytes] /\ more[n + 1] = total + size
  <2>1. \A i \in 0..n + 1 : i = n + 1 \/ i \in 0..n
    OBVIOUS
  <2>2. n + 1 \in 0..n + 1
    OBVIOUS
  <2> QED BY <1>3, <1>4, <2>1, <2>2
<1>6. more[0] = 0 /\ more[n] = total
  BY <1>1, <1>3 DEF SumsTo
<1> HIDE DEF more
<1>7. ASSUME NEW i \in 1..n + 1 PROVE more[i] = more[i - 1] + longer[i]
  <2>1. CASE i = n + 1
    BY <1>2, <1>5, <1>6, <2>1
  <2>2. CASE i \in 1..n
    <3>1. sums[i] = sums[i - 1] + sizes[i]
      BY <1>1, <2>2 DEF SumsTo
    <3>2. i - 1 \in 0..n /\ i \in 0..n
      BY <2>2
    <3> QED BY <1>2, <1>3, <2>2, <3>1, <3>2
  <2> QED BY <2>1, <2>2
<1>8. SumsTo(more, longer, total + size)
  BY <1>2, <1>5, <1>6, <1>7 DEF SumsTo
<1> QED BY <1>8 DEF longer

-----------------------------------------------------------------------------
(* The invariant is inductive *)

LEMMA InitTurn == Init => TInv
<1> SUFFICES ASSUME Init PROVE TInv
  OBVIOUS
<1> DEFINE e == Event("run.started", None)
<1>1. log = <<e>> /\ e \in Events /\ e.kind = "run.started"
  BY DEF Init, Event, Events, Kinds
<1> HIDE DEF e
<1>2. log \in Seq(Events) /\ Len(log) = 1 /\ log[1] = e /\ DOMAIN log = {1} /\ log # <<>>
  BY <1>1
<1>3. Typed
  BY <1>2 DEF Init, Typed, Places, Stages
<1>4. Counted
  <2>1. ASSUME NEW kind, kind # "run.started" PROVE Times(kind) = 0
    <3>1. {i \in DOMAIN log : log[i].kind = kind} = {}
      BY <1>1, <1>2, <2>1
    <3> QED BY <3>1, FS_EmptySet DEF Times
  <2> QED BY <2>1 DEF Counted, Asked, Entered, Init
<1>5. Requested
  BY DEF Init, Requested
<1>6. Staged
  BY <1>1, <1>2 DEF Init, Staged, LastKind, StagesAfter
<1>7. Cycled
  <2> DEFINE sums == [i \in 0..0 |-> 0]
  <2>1. SumsTo(sums, <<>>, 0)
    BY TurnAssumption DEF SumsTo
  <2> HIDE DEF sums
  <2> QED BY <2>1 DEF Init, Cycled
<1> QED BY <1>3, <1>4, <1>5, <1>6, <1>7 DEF TInv

\* A step that raises before anything else happens.
LEMMA FailStep ==
    ASSUME TInv, pc \notin {"failing", "answered", "failed"}, pc' = "failing",
           UNCHANGED <<progress, log, published, results>>,
           calls' \in Nat, bytes' \in Nat, result' \in Nat \cup {None},
           progress.requests = 2 => calls' = calls
    PROVE  TInv'
<1>1. Typed'
  BY DEF TInv, Typed, Places
<1>2. Counted' /\ Requested'
  BY DEF TInv, Counted, Asked, Entered, Times, Requested
<1>3. Staged'
  BY DEF TInv, Staged, LastKind
<1>4. Cycled'
  BY DEF TInv, Cycled
<1> QED BY <1>1, <1>2, <1>3, <1>4 DEF TInv

LEMMA StartStep == ASSUME TInv, Start PROVE TInv'
<1>1. CASE Fail("invalid")
  BY <1>1, FailStep DEF Start, Fail, TInv, Typed
<1>2. CASE pc' = "request"
  <2>1. Typed' /\ Counted' /\ Requested'
    BY <1>2 DEF Start, TInv, Typed, Places, Counted, Asked, Entered, Times, Requested
  <2>2. Staged'
    BY <1>2 DEF Start, TInv, Staged, LastKind, Requested
  <2>3. Cycled'
    BY <1>2 DEF Start, TInv, Cycled, Requested
  <2> QED BY <2>1, <2>2, <2>3 DEF TInv
<1> QED BY <1>1, <1>2 DEF Start

LEMMA RequestStep == ASSUME TInv, Request PROVE TInv'
<1>1. CASE (Fail("invalid") \/ Fail("timeout")) /\ UNCHANGED <<progress, evidence, log>>
  BY <1>1, FailStep DEF Request, Fail, TInv, Typed
<1>2. CASE pc' = "awaiting"
  <2> DEFINE e == Event("provider.request.started", None)
             stage == IF progress.requests = 0 THEN "first_provider_request"
                      ELSE "second_provider_request"
  <2>1. /\ pc = "request" /\ progress.requests \in {0, 1}
        /\ progress' = [progress EXCEPT !.requests = @ + 1, !.stage = stage]
        /\ log' = Append(log, e)
        /\ UNCHANGED <<response, calls, result, results, bytes, published>>
    BY <1>2 DEF Request, Happens, Fail, TInv, Typed, Requested
  <2>2. e \in Events /\ e.kind = "provider.request.started" /\ stage \in Stages
    BY DEF Event, Events, Kinds, Stages
  <2>3. log \in Seq(Events) /\ progress \in [stage : Stages, requests : Nat, tools : Nat]
    BY DEF TInv, Typed
  <2> HIDE DEF e, stage
  <2>4. /\ progress'.requests = progress.requests + 1 /\ progress'.tools = progress.tools
        /\ progress'.stage = stage
        /\ progress' \in [stage : Stages, requests : Nat, tools : Nat]
    <3>1. progress.requests + 1 \in Nat /\ progress.tools \in Nat
      BY <2>3
    <3>2. progress' = [progress EXCEPT !.requests = progress.requests + 1,
                                       !.tools = progress.tools, !.stage = stage]
      BY <2>1, <2>3
    <3> QED BY <2>2, <2>3, <3>1, <3>2, OneMoreCounted
  <2>5. Typed'
    BY <1>2, <2>1, <2>2, <2>3, <2>4, OneMoreEvent DEF TInv, Typed, Places
  <2>6. Counted'
    BY <2>1, <2>2, <2>3, <2>4, OneMoreTime DEF TInv, Counted, Asked, Entered
  <2>7. Requested'
    BY <1>2, <2>1, <2>4 DEF TInv, Requested
  <2>8. LastKind' = "provider.request.started"
    BY <2>1, <2>2, <2>3, OneMoreEvent DEF LastKind
  <2>9. Staged'
    BY <1>2, <2>1, <2>4, <2>8 DEF stage, TInv, Staged, StagesAfter
  <2>10. Cycled'
    <3>1. PICK sums : SumsTo(sums, results, bytes)
      BY <2>1 DEF TInv, Cycled
    <3>2. AddUpWithin(results, MaxCycleBytes)
      BY <3>1 DEF AddUpWithin, SumsTo
    <3> QED BY <1>2, <2>1, <2>4, <3>2 DEF TInv, Cycled
  <2> QED BY <2>5, <2>6, <2>7, <2>9, <2>10 DEF TInv
<1> QED BY <1>1, <1>2 DEF Request

LEMMA RespondStep == ASSUME TInv, Respond PROVE TInv'
<1>1. PICK r \in Responses, u \in Usages :
        response' = r /\ log' = Append(log, Event("provider.response.received", u))
  BY DEF Respond, Happens
<1> DEFINE e == Event("provider.response.received", u)
           stage == IF progress.requests = 1 THEN "first_provider_response_validation"
                    ELSE "final_response_validation"
<1>2. /\ pc = "awaiting" /\ progress.requests \in {1, 2}
      /\ progress' = [progress EXCEPT !.stage = stage]
      /\ pc' \in {"failing", IF progress.requests = 1 THEN "reading" ELSE "closing"}
      /\ UNCHANGED <<calls, result, results, bytes, published>>
  BY DEF Respond, Reach, Checked, Fail, TInv, Typed, Requested
<1>3. e \in Events /\ e.kind = "provider.response.received" /\ stage \in Stages
  BY DEF Event, Events, Kinds, Stages
<1>4. log \in Seq(Events) /\ progress \in [stage : Stages, requests : Nat, tools : Nat]
  BY DEF TInv, Typed
<1>5. /\ progress'.requests = progress.requests /\ progress'.tools = progress.tools
      /\ progress'.stage = stage
      /\ progress' \in [stage : Stages, requests : Nat, tools : Nat]
  BY <1>2, <1>3, <1>4
<1> HIDE DEF e
<1>6. Typed'
  BY <1>1, <1>2, <1>3, <1>4, <1>5, OneMoreEvent DEF e, TInv, Typed, Places
<1>7. Counted'
  <2>1. log' = Append(log, e)
    BY <1>1 DEF e
  <2> QED BY <1>3, <1>4, <1>5, <2>1, OneMoreTime DEF TInv, Counted, Asked, Entered
<1>8. Requested'
  BY <1>1, <1>2, <1>5 DEF TInv, Requested
<1>9. LastKind' = "provider.response.received"
  BY <1>1, <1>3, <1>4, OneMoreEvent DEF e, LastKind
<1>10. Staged'
  BY <1>2, <1>5, <1>9 DEF TInv, Staged, StagesAfter
<1>11. Cycled'
  BY <1>2, <1>5 DEF TInv, Cycled
<1> QED BY <1>6, <1>7, <1>8, <1>10, <1>11 DEF TInv

LEMMA ReadFirstStep == ASSUME TInv, ReadFirst PROVE TInv'
<1>0. /\ pc = "reading" /\ progress.requests = 1 /\ response \in Responses
      /\ progress.tools = 0 /\ results = <<>> /\ LastKind = "provider.response.received"
      /\ UNCHANGED <<response, result, results, bytes, published>>
  BY DEF ReadFirst, TInv, Requested, Cycled, Staged
<1>1. CASE Fail("invalid") /\ UNCHANGED <<progress, calls, log>>
  BY <1>0, <1>1, FailStep DEF Fail, TInv, Typed
<1>2. CASE pc' = "closing" /\ UNCHANGED <<progress, calls, log>>
  <2>1. Typed' /\ Counted' /\ Requested'
    BY <1>0, <1>2 DEF TInv, Typed, Places, Counted, Asked, Entered, Times, Requested
  <2>2. Staged' /\ Cycled'
    BY <1>0, <1>2 DEF TInv, Staged, LastKind, Cycled
  <2> QED BY <2>1, <2>2 DEF TInv
<1>3. CASE /\ Reach("tool_call_validation")
           /\ Happens("tool.calls.validation.started", None)
           /\ \/ pc' = "failing" /\ UNCHANGED calls
              \/ pc' = "tools" /\ calls' = response.calls /\ response.calls > 0
  <2> DEFINE e == Event("tool.calls.validation.started", None)
  <2>1. /\ log' = Append(log, e)
        /\ progress' = [progress EXCEPT !.stage = "tool_call_validation"]
        /\ e \in Events /\ e.kind = "tool.calls.validation.started"
        /\ log \in Seq(Events) /\ progress \in [stage : Stages, requests : Nat, tools : Nat]
        /\ "tool_call_validation" \in Stages
    BY <1>3 DEF Reach, Happens, Event, Events, Kinds, Stages, TInv, Typed
  <2> HIDE DEF e
  <2>2. /\ progress'.requests = 1 /\ progress'.tools = 0
        /\ progress'.stage = "tool_call_validation"
        /\ progress' \in [stage : Stages, requests : Nat, tools : Nat]
    BY <1>0, <2>1
  <2>3. response.calls \in Nat
    BY <1>0, TurnAssumption DEF Responses
  <2>4. Typed'
    BY <1>0, <1>3, <2>1, <2>2, <2>3, OneMoreEvent DEF TInv, Typed, Places
  <2>5. Counted'
    BY <1>0, <2>1, <2>2, OneMoreTime DEF TInv, Counted, Asked, Entered
  <2>6. Requested'
    BY <1>3, <2>2 DEF TInv, Requested
  <2>7. LastKind' = "tool.calls.validation.started"
    BY <2>1, OneMoreEvent DEF LastKind
  <2>8. Staged'
    BY <1>0, <1>3, <2>2, <2>7 DEF TInv, Staged, StagesAfter
  <2>9. Cycled'
    <3>1. Len(results) = 0
      BY <1>0
    <3> QED BY <1>0, <1>3, <2>2, <3>1 DEF TInv, Cycled
  <2> QED BY <2>4, <2>5, <2>6, <2>8, <2>9 DEF TInv
<1> QED BY <1>1, <1>2, <1>3 DEF ReadFirst, Fail

LEMMA CallToolStep == ASSUME TInv, CallTool PROVE TInv'
<1>0. /\ pc = "tools" /\ progress.requests = 1
      /\ progress.tools = Len(results) /\ Len(results) < calls
      /\ UNCHANGED <<response, calls, result, results, bytes, published>>
  BY DEF CallTool, TInv, Requested, Cycled
<1>1. CASE Fail("timeout") /\ UNCHANGED <<progress, log>>
  BY <1>0, <1>1, FailStep DEF Fail, TInv, Typed
<1>2. CASE /\ pc' = "invoking"
           /\ progress' = [progress EXCEPT !.stage = "tool_execution", !.tools = @ + 1]
           /\ Happens("tool.execution.started", Len(results) + 1)
  <2> DEFINE e == Event("tool.execution.started", Len(results) + 1)
  <2>0. Len(results) \in Nat
    BY LenProperties DEF TInv, Typed
  <2>1. /\ log' = Append(log, e)
        /\ e \in Events /\ e.kind = "tool.execution.started"
        /\ log \in Seq(Events) /\ progress \in [stage : Stages, requests : Nat, tools : Nat]
        /\ "tool_execution" \in Stages
    BY <1>2, <2>0 DEF Happens, Event, Events, Kinds, Stages, TInv, Typed
  <2> HIDE DEF e
  <2>2. /\ progress'.requests = 1 /\ progress'.tools = progress.tools + 1
        /\ progress'.stage = "tool_execution"
        /\ progress' \in [stage : Stages, requests : Nat, tools : Nat]
    <3>1. progress.requests = 1 /\ progress.tools + 1 \in Nat
      BY <1>0, <2>1
    <3>2. progress' = [progress EXCEPT !.requests = 1, !.tools = progress.tools + 1,
                                       !.stage = "tool_execution"]
      BY <1>2, <2>1, <3>1
    <3> QED BY <2>1, <3>1, <3>2, OneMoreCounted
  <2>3. Typed'
    BY <1>0, <1>2, <2>1, <2>2, OneMoreEvent DEF TInv, Typed, Places
  <2>4. Counted'
    BY <1>0, <2>1, <2>2, OneMoreTime DEF TInv, Counted, Asked, Entered
  <2>5. Requested'
    BY <1>2, <2>2 DEF TInv, Requested
  <2>6. LastKind' = "tool.execution.started"
    BY <2>1, OneMoreEvent DEF LastKind
  <2>7. Staged'
    BY <1>0, <1>2, <2>2, <2>6 DEF TInv, Staged, StagesAfter
  <2>8. Cycled'
    BY <1>0, <1>2, <2>2 DEF TInv, Cycled
  <2> QED BY <2>3, <2>4, <2>5, <2>7, <2>8 DEF TInv
<1> QED BY <1>1, <1>2 DEF CallTool, Checked, Fail

LEMMA ToolReturnsStep == ASSUME TInv, ToolReturns PROVE TInv'
<1>0. /\ pc = "invoking" /\ LastKind = "tool.execution.started" /\ progress.requests = 1
      /\ UNCHANGED <<response, calls, results, bytes, log, published>>
  BY DEF ToolReturns, TInv, Staged, Requested
<1>1. CASE Fail("timeout") /\ UNCHANGED <<progress, result>>
  BY <1>0, <1>1, FailStep DEF Fail, TInv, Typed
<1>2. CASE /\ pc' = "serializing" /\ Reach("tool_result_serialization")
           /\ result' \in ResultSizes \cup {None}
  <2>1. /\ progress'.requests = progress.requests /\ progress'.tools = progress.tools
        /\ progress'.stage = "tool_result_serialization"
        /\ progress' \in [stage : Stages, requests : Nat, tools : Nat]
    BY <1>2 DEF Reach, Stages, TInv, Typed
  <2>2. Typed'
    BY <1>0, <1>2, <2>1, TurnAssumption DEF TInv, Typed, Places
  <2>3. Counted' /\ Requested'
    BY <1>0, <1>2, <2>1 DEF TInv, Counted, Asked, Entered, Times, Requested
  <2>4. Staged'
    BY <1>0, <1>2, <2>1 DEF TInv, Staged, LastKind, StagesAfter
  <2>5. Cycled'
    BY <1>0, <1>2, <2>1 DEF TInv, Cycled
  <2> QED BY <2>2, <2>3, <2>4, <2>5 DEF TInv
<1> QED BY <1>1, <1>2 DEF ToolReturns, Checked, Fail

LEMMA AcceptStep == ASSUME TInv, Accept PROVE TInv'
<1>0. /\ pc = "serializing" /\ LastKind = "tool.execution.started" /\ progress.requests = 1
      /\ progress.tools = Len(results) + 1 /\ Len(results) < calls
      /\ UNCHANGED <<progress, response, calls, result, published>>
      /\ results \in Seq(Nat) /\ bytes \in Nat
  BY DEF Accept, TInv, Typed, Staged, Requested, Cycled
<1>1. CASE Fail("invalid") /\ UNCHANGED <<results, bytes, log>>
  BY <1>0, <1>1, FailStep DEF Fail, TInv, Typed
<1>2. CASE WithinLimits
  <2>1. result \in Nat /\ result <= MaxResultBytes /\ bytes + result <= MaxCycleBytes
        /\ bytes' = bytes + result /\ bytes' \in Nat
    BY <1>0, <1>2 DEF WithinLimits, Accept, TInv, Typed
  <2>2. CASE Fail("timeout") /\ UNCHANGED <<results, log>>
    BY <1>0, <2>1, <2>2, FailStep DEF Fail, TInv, Typed
  <2>3. CASE /\ pc' = IF Len(results) + 1 = calls THEN "request" ELSE "tools"
             /\ results' = Append(results, result)
             /\ Happens("tool.result.accepted", Len(results) + 1)
    <3> DEFINE e == Event("tool.result.accepted", Len(results) + 1)
    <3>1. PICK n \in Nat : n = Len(results) /\ DOMAIN results = 1..n
      BY <1>0, LenProperties
    <3>2. /\ results' \in Seq(Nat) /\ Len(results') = n + 1 /\ DOMAIN results' = 1..n + 1
          /\ results'[n + 1] = result /\ \A i \in 1..n : results'[i] = results[i]
      BY <1>0, <2>1, <2>3, <3>1, AppendProperties, LenProperties
    <3>3. /\ log' = Append(log, e) /\ log \in Seq(Events)
          /\ e \in Events /\ e.kind = "tool.result.accepted"
      BY <2>3, <3>1 DEF Happens, Event, Events, Kinds, TInv, Typed
    <3> HIDE DEF e
    <3>4. Typed'
      BY <1>0, <2>1, <2>3, <3>2, <3>3, OneMoreEvent DEF TInv, Typed, Places
    <3>5. Counted'
      BY <1>0, <3>3, OneMoreTime DEF TInv, Counted, Asked, Entered
    <3>6. Requested'
      BY <1>0, <2>3 DEF TInv, Requested
    <3>7. LastKind' = "tool.result.accepted"
      BY <3>3, OneMoreEvent DEF LastKind
    <3>8. Staged'
      <4>1. progress.stage = "tool_result_serialization"
        BY <1>0 DEF TInv, Staged
      <4> QED BY <1>0, <2>3, <3>7, <4>1 DEF TInv, Staged, StagesAfter
    <3>9. Cycled'
      <4>1. \A i \in DOMAIN results' : results'[i] <= MaxResultBytes
        <5>1. \A i \in 1..n : results[i] <= MaxResultBytes
          BY <3>1 DEF TInv, Cycled
        <5>2. SUFFICES ASSUME NEW i \in 1..n + 1 PROVE results'[i] <= MaxResultBytes
          BY <3>2
        <5>3. CASE i = n + 1
          BY <2>1, <3>2, <5>3
        <5>4. CASE i \in 1..n
          BY <3>2, <5>1, <5>4
        <5> QED BY <3>1, <5>3, <5>4
      <4>2. PICK sums : SumsTo(sums, results, bytes)
        BY <1>0 DEF TInv, Cycled
      <4>3. \E more : SumsTo(more, results', bytes')
        BY <1>0, <2>1, <2>3, <4>2, OneMoreSize
      <4>4. n + 1 = calls \/ n + 1 < calls
        BY <1>0, <3>1 DEF TInv, Typed
      <4> QED BY <1>0, <2>3, <3>1, <3>2, <4>1, <4>3, <4>4 DEF TInv, Cycled
    <3> QED BY <3>4, <3>5, <3>6, <3>8, <3>9 DEF TInv
  <2> QED BY <1>0, <1>2, <2>2, <2>3 DEF Accept, Checked, Fail
<1> QED BY <1>1, <1>2 DEF Accept

LEMMA FinishStep == ASSUME TInv, Finish PROVE TInv'
<1>0. pc = "closing" /\ UNCHANGED <<progress, response, calls, result, results, bytes>>
  BY DEF Finish
<1>1. CASE pc' = "failing" /\ UNCHANGED <<published, log>>
  BY <1>0, <1>1, FailStep DEF TInv, Typed
<1>2. CASE pc' = "answered" /\ published' = Observed /\ Happens("run.completed", None)
  <2> DEFINE e == Event("run.completed", None)
  <2>1. /\ log' = Append(log, e) /\ log \in Seq(Events)
        /\ e \in Events /\ e.kind = "run.completed"
    BY <1>2 DEF Happens, Event, Events, Kinds, TInv, Typed
  <2> HIDE DEF e
  <2>2. Typed'
    BY <1>0, <1>2, <2>1, OneMoreEvent DEF TInv, Typed, Places
  <2>3. Counted' /\ Requested'
    BY <1>0, <1>2, <2>1, OneMoreTime DEF TInv, Counted, Asked, Entered, Requested
  <2>4. Staged'
    <3>1. published'.kind = "answer"
      BY <1>2 DEF Observed
    <3> QED BY <1>2, <3>1 DEF Staged, StageIsWhereItFailed
  <2>5. Cycled'
    BY <1>0, <1>2 DEF TInv, Cycled
  <2> QED BY <2>2, <2>3, <2>4, <2>5 DEF TInv
<1> QED BY <1>1, <1>2 DEF Finish, Checked, Fail

LEMMA NotifyStep == ASSUME TInv, Notify PROVE TInv'
<1> DEFINE e == Event("run.failed", progress.stage)
<1>0. /\ pc = "failing" /\ pc' = "failed" /\ published' = Failure
      /\ UNCHANGED <<progress, response, calls, result, results, bytes>>
  BY DEF Notify
<1>1. /\ log' = Append(log, e) /\ log \in Seq(Events) /\ log # <<>>
      /\ e \in Events /\ e.kind = "run.failed"
  BY DEF Notify, Happens, Event, Events, Kinds, TInv, Typed
<1> HIDE DEF e
<1>2. Typed'
  BY <1>0, <1>1, OneMoreEvent DEF TInv, Typed, Places
<1>3. Counted' /\ Requested'
  BY <1>0, <1>1, OneMoreTime DEF TInv, Counted, Asked, Entered, Requested
<1>4. Staged'
  <2>1. published'.stage = progress.stage
    BY <1>0 DEF Failure
  <2>2. progress.stage \in StagesAfter(LastKind, progress.requests)
    BY <1>0 DEF TInv, Staged
  <2>3. PICK n \in Nat : n = Len(log) /\ n >= 1
    BY <1>1, LenProperties, EmptySeq
  <2>4. log'[Len(log') - 1] = log[Len(log)]
    <3>1. Len(log') = n + 1 /\ log'[n] = log[n]
      BY <1>1, <2>3, OneMoreEvent
    <3> QED BY <2>3, <3>1
  <2>5. Asked' = progress.requests
    BY <1>0, <1>3 DEF Counted
  <2>6. StageIsWhereItFailed'
    BY <2>1, <2>2, <2>4, <2>5 DEF StageIsWhereItFailed, Asked, LastKind
  <2> QED BY <1>0, <2>6 DEF Staged
<1>5. Cycled'
  BY <1>0 DEF TInv, Cycled
<1> QED BY <1>2, <1>3, <1>4, <1>5 DEF TInv

LEMMA TurnStep == TInv /\ [Next]_vars => TInv'
<1> SUFFICES ASSUME TInv, [Next]_vars PROVE TInv'
  OBVIOUS
<1>1. CASE UNCHANGED <<pc, progress, response, calls, result, results, bytes, log, published>>
  <2>1. Typed' /\ Counted' /\ Requested'
    BY <1>1 DEF TInv, Typed, Counted, Asked, Entered, Times, Requested
  <2>2. Staged' /\ Cycled'
    BY <1>1 DEF TInv, Staged, LastKind, StageIsWhereItFailed, Times, Cycled
  <2> QED BY <2>1, <2>2 DEF TInv
<1>2. CASE Expire \/ Over \/ UNCHANGED vars
  BY <1>1, <1>2 DEF Expire, Over, vars
<1>3. CASE ProviderRaises \/ ToolRaises
  BY <1>3, FailStep DEF ProviderRaises, ToolRaises, Fail, TInv, Typed
<1> QED BY <1>2, <1>3, StartStep, RequestStep, RespondStep, ReadFirstStep, CallToolStep,
           ToolReturnsStep, AcceptStep, FinishStep, NotifyStep DEF Next, Step, Host

-----------------------------------------------------------------------------
(* What holds of every turn *)

\* The control of _run_tool_call_cycle_with_trace keeps the counts, the stage and
\* the partial sums of the accepted results together, whatever the provider, the
\* tools and the deadline do.
THEOREM TurnInvariant == Spec => []TInv
<1> QED BY InitTurn, TurnStep, PTL DEF Spec

\* The stage of a failure observation (_ProgressState.stage, published by
\* _notify_failure) is the one the run stopped in, for every number of calls and
\* at every _check_turn_deadline.
THEOREM FailsWhereItStopped == Spec => []StageIsWhereItFailed
<1>1. TInv => StageIsWhereItFailed
  BY DEF TInv, Staged, StageIsWhereItFailed
<1> QED BY <1>1, TurnInvariant, PTL

\* A follow-up request of _run_tool_call_cycle_with_trace is the second and last,
\* comes after every validated call ran, and carries results that
\* _validate_tool_result_bytes kept within both limits, for any limits.
THEOREM FollowUpComplete == Spec => []FollowUpCarriesEveryResult
<1>1. TInv => FollowUpCarriesEveryResult
  <2> SUFFICES ASSUME TInv PROVE FollowUpCarriesEveryResult
    OBVIOUS
  <2>1. Times("provider.request.started") = progress.requests
        /\ Times("tool.execution.started") = progress.tools
    BY DEF TInv, Counted, Asked, Entered
  <2>2. progress.requests <= 2 /\ \A i \in DOMAIN results : results[i] <= MaxResultBytes
    BY DEF TInv, Requested, Cycled
  <2>3. progress.requests = 2 => /\ calls > 0 /\ progress.tools = calls
                                 /\ Len(results) = calls
                                 /\ AddUpWithin(results, MaxCycleBytes)
    BY DEF TInv, Cycled
  <2> QED BY <2>1, <2>2, <2>3 DEF FollowUpCarriesEveryResult
<1> QED BY <1>1, TurnInvariant, PTL

\* Once _TURN_DEADLINE has passed, _check_turn_deadline lets no request, no tool,
\* no acceptance and no answer through.
THEOREM NothingLate == Spec => NothingStartsLate
<1>1. TInv /\ [Next]_vars =>
        [log' # log /\ deadline = "past" =>
             Last(log').kind \in {"provider.response.received", "run.failed",
                                  "tool.calls.validation.started"}]_vars
  <2> SUFFICES ASSUME TInv, Next, log' # log, deadline = "past"
               PROVE  Last(log').kind \in {"provider.response.received", "run.failed",
                                           "tool.calls.validation.started"}
    OBVIOUS
  <2>1. \A kind, detail : Happens(kind, detail) => Last(log').kind = kind
    <3> SUFFICES ASSUME NEW kind, NEW detail, Happens(kind, detail)
                 PROVE  Last(log').kind = kind
      OBVIOUS
    <3>1. log' = Append(log, Event(kind, detail)) /\ log \in Seq(Events)
      BY DEF Happens, TInv, Typed
    <3>2. PICK n \in Nat : n = Len(log)
      BY <3>1, LenProperties
    <3>3. Len(log') = n + 1 /\ log'[n + 1] = Event(kind, detail)
      BY <3>1, <3>2
    <3> QED BY <3>3 DEF Last, Event
  <2>2. CASE Request \/ CallTool \/ Accept \/ Finish
    BY <2>2 DEF Request, CallTool, Accept, Finish, OnTime
  <2>3. CASE Respond
    BY <2>1, <2>3 DEF Respond
  <2>4. CASE ReadFirst
    BY <2>1, <2>4 DEF ReadFirst
  <2>5. CASE Notify
    BY <2>1, <2>5 DEF Notify
  <2>6. CASE Start \/ ProviderRaises \/ ToolReturns \/ ToolRaises \/ Expire \/ Over
    BY <2>6 DEF Start, ProviderRaises, ToolReturns, ToolRaises, Expire, Over, vars
  <2> QED BY <2>2, <2>3, <2>4, <2>5, <2>6 DEF Next, Step, Host
<1> QED BY <1>1, TurnInvariant, PTL DEF Spec, NothingStartsLate

\* A set of numbers that holds 0, and with each number the next, holds them all.
LEMMA AllNumbers ==
    ASSUME NEW T \in SUBSET Nat, 0 \in T, \A n \in T : n + 1 \in T
    PROVE  T = Nat
<1> DEFINE R == OpToRel(<, Nat)
           U == Nat \ T
<1>1. IsWellFoundedOn(R, Nat)
  BY NatLessThanWellFounded
<1>2. \A x, y \in Nat : <<x, y>> \in R <=> x < y
  BY DEF OpToRel
<1> HIDE DEF R
<1>3. ASSUME U # {} PROVE FALSE
  <2>1. PICK x \in U : \A y \in U : ~(<<y, x>> \in R)
    BY <1>1, <1>3, WFMin
  <2>2. x \in Nat /\ x # 0
    BY <2>1
  <2>3. x - 1 \in Nat /\ x - 1 < x /\ (x - 1) + 1 = x
    BY <2>2
  <2>4. <<x - 1, x>> \in R
    BY <1>2, <2>2, <2>3
  <2>5. x - 1 \in T
    BY <2>1, <2>3, <2>4
  <2>6. x \in T
    BY <2>3, <2>5
  <2> QED BY <2>1, <2>6
<1> QED BY <1>3

-----------------------------------------------------------------------------
(* Flattening *)

\* The function FlattenSeq defines, for n sequences.
Flattens(f, seqs, n) ==
    f = [i \in 1..n |-> IF i = 1 THEN seqs[i] ELSE f[i - 1] \o seqs[i]]

LEMMA FlattenExists ==
    ASSUME NEW seqs, NEW n \in Nat
    PROVE  \E f : Flattens(f, seqs, n)
<1> DEFINE T == {m \in Nat : \E f : Flattens(f, seqs, m)}
<1>1. 0 \in T
  <2>1. Flattens([i \in 1..0 |-> 0], seqs, 0)
    BY DEF Flattens
  <2> QED BY <2>1
<1>2. ASSUME NEW m \in T PROVE m + 1 \in T
  <2>0. m \in Nat
    BY <1>2
  <2>1. PICK f : Flattens(f, seqs, m)
    BY <1>2
  <2> DEFINE last == IF m = 0 THEN seqs[1] ELSE f[m] \o seqs[m + 1]
             g == [i \in 1..m + 1 |-> IF i = m + 1 THEN last ELSE f[i]]
  <2>2. DOMAIN f = 1..m /\ \A i \in 1..m : f[i] = IF i = 1 THEN seqs[i] ELSE f[i - 1] \o seqs[i]
    BY <2>1 DEF Flattens
  <2>3. ASSUME NEW i \in 1..m + 1
        PROVE  g[i] = IF i = 1 THEN seqs[i] ELSE g[i - 1] \o seqs[i]
    <3>1. CASE i = m + 1 /\ m = 0
      <4>1. g[i] = last /\ i = 1 /\ last = seqs[1]
        BY <3>1
      <4> HIDE DEF g, last
      <4> QED BY <4>1
    <3>2. CASE i = m + 1 /\ m # 0
      <4>0. last = f[m] \o seqs[m + 1]
        BY <3>2
      <4>1. i - 1 = m /\ i # 1
        <5> HIDE DEF T, last, g
        <5> QED BY <2>0, <3>2
      <4>2. m \in 1..m + 1 /\ m # m + 1
        BY <3>2
      <4>3. g[m] = f[m]
        BY <4>2
      <4>4. g[i] = last
        <5> HIDE DEF last
        <5> QED BY <3>2
      <4> HIDE DEF g, last
      <4> QED BY <3>2, <4>0, <4>1, <4>3, <4>4
    <3>3. CASE i # m + 1
      <4>1. i \in 1..m /\ g[i] = f[i] /\ (i # 1 => i - 1 \in 1..m)
        BY <3>3
      <4>2. i # 1 => g[i - 1] = f[i - 1]
        BY <3>3
      <4> QED BY <2>2, <4>1, <4>2
    <3> QED BY <3>1, <3>2, <3>3
  <2>4. DOMAIN g = 1..m + 1 /\ g = [i \in 1..m + 1 |-> g[i]]
    OBVIOUS
  <2> HIDE DEF g
  <2>5. Flattens(g, seqs, m + 1)
    BY <2>3, <2>4 DEF Flattens
  <2> QED BY <2>5
<1>3. T = Nat
  <2> HIDE DEF T
  <2>1. T \in SUBSET Nat
    BY DEF T
  <2> QED BY <1>1, <1>2, <2>1, AllNumbers
<1> QED BY <1>3

\* Two such functions agree as far as both go.
LEMMA FlattenAgree ==
    ASSUME NEW seqs, NEW front, NEW m \in Nat, NEW n \in Nat,
           \A i \in 1..m : i \in 1..n /\ front[i] = seqs[i],
           NEW f, Flattens(f, front, m), NEW g, Flattens(g, seqs, n)
    PROVE  \A i \in 1..m : f[i] = g[i]
<1> DEFINE T == {k \in Nat : k \in 1..m => f[k] = g[k]}
<1>1. /\ \A i \in 1..m : f[i] = IF i = 1 THEN front[i] ELSE f[i - 1] \o front[i]
      /\ \A i \in 1..n : g[i] = IF i = 1 THEN seqs[i] ELSE g[i - 1] \o seqs[i]
  BY DEF Flattens
<1>2. ASSUME NEW k \in T PROVE k + 1 \in T
  <2> SUFFICES ASSUME k + 1 \in 1..m PROVE f[k + 1] = g[k + 1]
    BY <1>2
  <2>1. k + 1 \in 1..n /\ front[k + 1] = seqs[k + 1] /\ (k + 1) - 1 = k
    BY <1>2
  <2>2. k + 1 # 1 => k \in 1..m /\ f[k] = g[k]
    BY <1>2
  <2>3. f[k + 1] = IF k + 1 = 1 THEN front[k + 1] ELSE f[k] \o front[k + 1]
    BY <1>1, <2>1
  <2>4. g[k + 1] = IF k + 1 = 1 THEN seqs[k + 1] ELSE g[k] \o seqs[k + 1]
    BY <1>1, <2>1
  <2> QED BY <2>1, <2>2, <2>3, <2>4
<1>3. T = Nat
  <2>1. 0 \in T /\ T \in SUBSET Nat
    OBVIOUS
  <2> HIDE DEF T
  <2> QED BY <1>2, <2>1, AllNumbers
<1>4. ASSUME NEW i \in 1..m PROVE f[i] = g[i]
  <2>1. i \in T
    BY <1>3
  <2> QED BY <2>1
<1> QED BY <1>4

LEMMA FlattenIs ==
    ASSUME NEW seqs, NEW n \in Nat, n # 0, Len(seqs) = n
    PROVE  \E f : Flattens(f, seqs, n) /\ FlattenSeq(seqs) = f[n]
<1> DEFINE f == CHOOSE g : Flattens(g, seqs, n)
<1>1. Flattens(f, seqs, n)
  BY FlattenExists
<1>2. FlattenSeq(seqs) = f[n]
  BY DEF FlattenSeq, Flattens
<1> QED BY <1>1, <1>2

\* Flattening one more sequence appends it.
LEMMA FlattenMore ==
    ASSUME NEW n \in Nat, NEW seqs, Len(seqs) = n + 1,
           NEW front, Len(front) = n, \A i \in 1..n : front[i] = seqs[i]
    PROVE  FlattenSeq(seqs) = IF n = 0 THEN seqs[1] ELSE FlattenSeq(front) \o seqs[n + 1]
<1>1. PICK g : Flattens(g, seqs, n + 1) /\ FlattenSeq(seqs) = g[n + 1]
  <2>1. n + 1 \in Nat /\ n + 1 # 0
    OBVIOUS
  <2> QED BY <2>1, FlattenIs
<1>2. g[n + 1] = IF n = 0 THEN seqs[n + 1] ELSE g[n] \o seqs[n + 1]
  <2>1. \A i \in 1..(n + 1) : g[i] = IF i = 1 THEN seqs[i] ELSE g[i - 1] \o seqs[i]
    BY <1>1 DEF Flattens
  <2>2. n + 1 \in 1..(n + 1) /\ (n + 1) - 1 = n /\ (n + 1 = 1 <=> n = 0)
    OBVIOUS
  <2> QED BY <2>1, <2>2
<1>3. CASE n = 0
  BY <1>1, <1>2, <1>3
<1>4. CASE n # 0
  <2>1. PICK f : Flattens(f, front, n) /\ FlattenSeq(front) = f[n]
    BY <1>4, FlattenIs
  <2>2. \A i \in 1..n : i \in 1..(n + 1) /\ front[i] = seqs[i]
    OBVIOUS
  <2>3. f[n] = g[n]
    <3>1. \A i \in 1..n : f[i] = g[i]
      BY <1>1, <2>1, <2>2, FlattenAgree
    <3> QED BY <1>4, <3>1
  <2> QED BY <1>1, <1>2, <1>4, <2>1, <2>3
<1> QED BY <1>3, <1>4

-----------------------------------------------------------------------------
(* The events of some kinds *)

\* How many of S come before i.
Before(S, i) == Cardinality({j \in S : j < i})

LEMMA LaterHasMore ==
    ASSUME NEW S \in SUBSET Nat, IsFiniteSet(S), NEW i \in S, NEW j \in S, i < j
    PROVE  Before(S, i) \in Nat /\ Before(S, j) \in Nat /\ Before(S, i) < Before(S, j)
<1> DEFINE I == {k \in S : k < i}
           J == {k \in S : k < j}
<1>1. IsFiniteSet(I) /\ IsFiniteSet(J) /\ Cardinality(I) \in Nat /\ Cardinality(J) \in Nat
  BY FS_Subset, FS_CardinalityType
<1>2. i \notin I /\ I \cup {i} \subseteq J
  <2>1. i \notin I /\ i \in J
    OBVIOUS
  <2>2. \A k \in S : k < i => k < j
    OBVIOUS
  <2> QED BY <2>1, <2>2
<1>3. Cardinality(I \cup {i}) = Cardinality(I) + 1 /\ Cardinality(I \cup {i}) <= Cardinality(J)
  BY <1>1, <1>2, FS_AddElement, FS_Subset
<1>4. Before(S, i) = Cardinality(I) /\ Before(S, j) = Cardinality(J)
  BY DEF Before
<1> HIDE DEF I, J
<1> QED BY <1>1, <1>3, <1>4

\* Each rank is that of one element.
LEMMA RankedOnce ==
    ASSUME NEW S \in SUBSET Nat, IsFiniteSet(S)
    PROVE  /\ Cardinality(S) \in Nat
           /\ \A i \in S : Before(S, i) \in Nat /\ Before(S, i) < Cardinality(S)
           /\ \A i, j \in S : Before(S, i) = Before(S, j) => i = j
           /\ \A n \in 1..Cardinality(S) : \E i \in S : Before(S, i) = n - 1
<1> DEFINE n == Cardinality(S)
           f == [i \in S |-> Before(S, i) + 1]
<1>1. n \in Nat
  BY FS_CardinalityType
<1>2. ASSUME NEW i \in S PROVE Before(S, i) \in Nat /\ Before(S, i) < n
  <2>1. {j \in S : j < i} \subseteq S \ {i}
    OBVIOUS
  <2>2. IsFiniteSet(S \ {i}) /\ Cardinality(S \ {i}) = n - 1
    BY FS_RemoveElement
  <2>3. Before(S, i) \in Nat /\ Before(S, i) <= n - 1
    BY <2>1, <2>2, FS_Subset, FS_CardinalityType DEF Before
  <2> HIDE DEF n
  <2> QED BY <1>1, <2>3
<1>3. ASSUME NEW i \in S, NEW j \in S, Before(S, i) = Before(S, j) PROVE i = j
  <2>1. i < j \/ j < i \/ i = j
    OBVIOUS
  <2>2. Before(S, i) \in Nat
    BY <1>2
  <2> QED BY <1>3, <2>1, <2>2, LaterHasMore
<1>4. f \in Injection(S, 1..n)
  <2> HIDE DEF n
  <2>1. \A i \in S : f[i] = Before(S, i) + 1 /\ Before(S, i) + 1 \in 1..n
    BY <1>1, <1>2
  <2>2. f \in [S -> 1..n]
    BY <2>1
  <2>3. ASSUME NEW i \in S, NEW j \in S, f[i] = f[j] PROVE i = j
    BY <1>2, <1>3, <2>1, <2>3
  <2> HIDE DEF f
  <2> QED BY <2>2, <2>3, Zenon DEF Injection, IsInjective
<1>5. IsFiniteSet(1..n) /\ Cardinality(1..n) = n
  BY <1>1, FS_Interval
<1>6. f \in Surjection(S, 1..n)
  <2> HIDE DEF f
  <2> QED BY <1>4, <1>5, FS_Injection
<1>7. ASSUME NEW k \in 1..n PROVE \E i \in S : Before(S, i) = k - 1
  <2>1. PICK i \in S : f[i] = k
    BY <1>6, Zenon DEF Surjection
  <2>2. Before(S, i) \in Nat /\ f[i] = Before(S, i) + 1
    BY <1>2
  <2> HIDE DEF f, n
  <2> QED BY <1>1, <2>1, <2>2
<1> HIDE DEF n
<1>8. \A i \in S : Before(S, i) \in Nat /\ Before(S, i) < n
  BY <1>2
<1>9. \A i, j \in S : Before(S, i) = Before(S, j) => i = j
  BY <1>3
<1>10. \A k \in 1..n : \E i \in S : Before(S, i) = k - 1
  BY <1>7
<1> QED BY <1>1, <1>8, <1>9, <1>10 DEF n

\* The places of the events of some kinds.
At(events, kinds) == {i \in DOMAIN events : events[i].kind \in kinds}
Pick(events, kinds) ==
    [n \in 1..Cardinality(At(events, kinds)) |->
        events[CHOOSE i \in At(events, kinds) : Before(At(events, kinds), i) = n - 1]]

LEMMA HappenedIsPick == \A kinds : Happened(kinds) = Pick(log, kinds)
BY DEF Happened, Pick, At, Before

\* The n-th of them is the one with n - 1 before it.
LEMMA PickAt ==
    ASSUME NEW X, NEW events \in Seq(X), NEW kinds
    PROVE  LET S == At(events, kinds)
           IN  /\ S \in SUBSET Nat /\ IsFiniteSet(S) /\ Cardinality(S) \in Nat
               /\ Pick(events, kinds) \in Seq(X) /\ Len(Pick(events, kinds)) = Cardinality(S)
               /\ \A n \in 1..Cardinality(S), i \in S :
                     Before(S, i) = n - 1 => Pick(events, kinds)[n] = events[i]
<1> DEFINE S == At(events, kinds)
           c == Cardinality(S)
           p == Pick(events, kinds)
<1>1. DOMAIN events = 1..Len(events) /\ Len(events) \in Nat
  BY LenProperties
<1>2. S \in SUBSET Nat /\ S \subseteq DOMAIN events /\ IsFiniteSet(S)
  <2>1. S \subseteq DOMAIN events
    BY DEF At
  <2>2. IsFiniteSet(1..Len(events))
    BY <1>1, FS_Interval
  <2> HIDE DEF S
  <2>3. IsFiniteSet(S)
    BY <1>1, <2>1, <2>2, FS_Subset
  <2> QED BY <1>1, <2>1, <2>3
<1> HIDE DEF S
<1>3. /\ c \in Nat
      /\ \A i, j \in S : Before(S, i) = Before(S, j) => i = j
      /\ \A n \in 1..c : \E i \in S : Before(S, i) = n - 1
  BY <1>2, RankedOnce
<1>4. p = [n \in 1..c |-> events[CHOOSE i \in S : Before(S, i) = n - 1]]
  BY DEF Pick, S
<1> HIDE DEF c, p
<1>5. ASSUME NEW n \in 1..c, NEW i \in S, Before(S, i) = n - 1 PROVE p[n] = events[i]
  <2> DEFINE j == CHOOSE k \in S : Before(S, k) = n - 1
  <2>1. j \in S /\ Before(S, j) = n - 1
    BY <1>5
  <2>2. p[n] = events[j]
    BY <1>4
  <2> HIDE DEF j
  <2> QED BY <1>3, <1>5, <2>1, <2>2
<1>6. ASSUME NEW n \in 1..c PROVE p[n] \in X
  <2>1. PICK i \in S : Before(S, i) = n - 1
    BY <1>3
  <2>2. events[i] \in X
    BY <1>2
  <2> QED BY <1>5, <2>1, <2>2
<1>7. p \in Seq(X) /\ Len(p) = c
  <2>1. p \in [1..c -> X]
    BY <1>4, <1>6
  <2> QED BY <1>3, <2>1
<1> QED BY <1>2, <1>3, <1>5, <1>7 DEF S, c, p

\* One more event: the last of them if it is of those kinds.
LEMMA PickMore ==
    ASSUME NEW X, NEW events \in Seq(X), NEW e \in X, NEW kinds
    PROVE  Pick(Append(events, e), kinds) =
               IF e.kind \in kinds THEN Append(Pick(events, kinds), e) ELSE Pick(events, kinds)
<1> DEFINE more == Append(events, e)
           S == At(events, kinds)
           T == At(more, kinds)
           p == Pick(events, kinds)
           q == Pick(more, kinds)
           c == Cardinality(S)
<1>1. PICK l \in Nat : l = Len(events) /\ DOMAIN events = 1..l
  BY LenProperties
<1>2. /\ more \in Seq(X) /\ DOMAIN more = 1..l + 1 /\ more[l + 1] = e
      /\ \A i \in 1..l : more[i] = events[i]
  BY <1>1, AppendProperties, LenProperties
<1> HIDE DEF more
<1>3. /\ S \in SUBSET Nat /\ IsFiniteSet(S) /\ c \in Nat /\ p \in Seq(X) /\ Len(p) = c
      /\ \A n \in 1..c, i \in S : Before(S, i) = n - 1 => p[n] = events[i]
  BY PickAt
<1>4. /\ q \in Seq(X) /\ Len(q) = Cardinality(T)
      /\ \A n \in 1..Cardinality(T), i \in T : Before(T, i) = n - 1 => q[n] = more[i]
  BY <1>2, PickAt
<1>5. S \subseteq 1..l /\ T = IF e.kind \in kinds THEN S \cup {l + 1} ELSE S
  BY <1>1, <1>2 DEF At
<1> HIDE DEF S, T, p, q, c
<1>6. \A n \in 1..c : \E i \in S : Before(S, i) = n - 1
  BY <1>3, RankedOnce DEF c
<1>7. \A i \in S : Before(T, i) = Before(S, i)
  <2> SUFFICES ASSUME NEW i \in S PROVE {j \in T : j < i} = {j \in S : j < i}
    BY DEF Before
  <2>1. i \in Nat /\ i < l + 1
    BY <1>3, <1>5
  <2> QED BY <1>3, <1>5, <2>1
<1>8. c <= Cardinality(T) /\ \A n \in 1..c : q[n] = p[n]
  <2>1. Cardinality(T) \in Nat /\ c <= Cardinality(T)
    <3>1. l + 1 \notin S /\ IsFiniteSet(S) /\ IsFiniteSet(S \cup {l + 1})
      BY <1>3, <1>5, FS_AddElement
    <3>2. Cardinality(S \cup {l + 1}) = c + 1
      BY <3>1, FS_AddElement DEF c
    <3>3. Cardinality(T) = c \/ Cardinality(T) = c + 1
      BY <1>5, <3>2 DEF c
    <3> QED BY <1>3, <3>3
  <2>2. ASSUME NEW n \in 1..c PROVE q[n] = p[n]
    <3>1. PICK i \in S : Before(S, i) = n - 1
      BY <1>6
    <3>2. n \in 1..Cardinality(T) /\ i \in T /\ i \in 1..l
      BY <1>3, <1>5, <2>1
    <3>3. q[n] = more[i] /\ p[n] = events[i]
      BY <1>3, <1>4, <1>7, <3>1, <3>2
    <3> QED BY <1>2, <3>2, <3>3
  <2> QED BY <2>1, <2>2
<1>9. CASE e.kind \notin kinds
  <2>1. Len(q) = c
    BY <1>4, <1>5, <1>9 DEF c
  <2>2. q = p
    BY <1>3, <1>4, <1>8, <2>1
  <2> QED BY <1>9, <2>2 DEF p, q, more
<1>10. CASE e.kind \in kinds
  <2>1. Cardinality(T) = c + 1
    <3>1. T = S \cup {l + 1} /\ l + 1 \notin S
      BY <1>3, <1>5, <1>10
    <3> QED BY <1>3, <3>1, FS_AddElement DEF c
  <2>2. q[c + 1] = e
    <3>1. l + 1 \in T
      BY <1>5, <1>10
    <3>2. {j \in T : j < l + 1} = S
      <4>1. T = S \cup {l + 1} /\ \A j \in S : j < l + 1
        BY <1>3, <1>5, <1>10
      <4>2. ~(l + 1 < l + 1)
        OBVIOUS
      <4> QED BY <4>1, <4>2
    <3>3. Before(T, l + 1) = (c + 1) - 1
      <4>1. Before(T, l + 1) = c
        BY <3>2 DEF Before, c
      <4> QED BY <1>3, <4>1
    <3>4. c + 1 \in 1..Cardinality(T)
      BY <1>3, <2>1
    <3> QED BY <1>2, <1>4, <3>1, <3>3, <3>4
  <2>3. /\ Append(p, e) \in Seq(X) /\ Len(Append(p, e)) = c + 1 /\ Append(p, e)[c + 1] = e
        /\ \A n \in 1..c : Append(p, e)[n] = p[n]
    <3>1. p \in Seq(X) /\ Len(p) = c /\ c \in Nat
      BY <1>3
    <3> QED BY <3>1, AppendProperties
  <2>4. q = Append(p, e)
    <3>1. \A n \in 1..(c + 1) : q[n] = Append(p, e)[n]
      <4> SUFFICES ASSUME NEW n \in 1..(c + 1) PROVE q[n] = Append(p, e)[n]
        OBVIOUS
      <4>1. n = c + 1 \/ n \in 1..c
        BY <1>3
      <4> QED BY <1>8, <2>2, <2>3, <4>1
    <3>2. Len(q) = Len(Append(p, e))
      BY <1>4, <2>1, <2>3
    <3> QED BY <1>3, <1>4, <2>3, <2>1, <3>1, <3>2, SeqEqual
  <2> QED BY <1>10, <2>4 DEF p, q, more
<1> QED BY <1>9, <1>10

-----------------------------------------------------------------------------
(* What is told of a turn *)

Started == Event("run.started", None)
Asking == Event("provider.request.started", None)
Hearing(usage) == Event("provider.response.received", usage)
Checking == Event("tool.calls.validation.started", None)
Entering(i) == Event("tool.execution.started", i)
Accepting(i) == Event("tool.result.accepted", i)

\* The tools entered and accepted, up to the n-th, after the first response.
Invocations(n) == FlattenSeq([i \in 1..n |-> <<Entering(i), Accepting(i)>>])
Opening == <<Started>> \o <<Asking, Hearing(evidence.usages[1])>>
Cycle(n) == Opening \o (<<Checking>> \o Invocations(n))

Heard == {"provider.response.received"}
Outline == {"run.started", "provider.response.received", "run.failed"}

\* The evidence holds a usage for each request, but for the one under way.
Evident ==
    /\ evidence \in [requests : Nat, usages : Seq(Usages)]
    /\ evidence.requests = progress.requests
    /\ pc = "awaiting" => Len(evidence.usages) + 1 = progress.requests
    /\ pc \in {"start", "request", "reading", "closing", "tools", "invoking", "serializing"} =>
         Len(evidence.usages) = progress.requests

\* The events so far, where the turn is.
Told ==
    LET asked == progress.requests
        n     == Len(results)
    IN  /\ pc = "start" \/ (pc = "request" /\ asked = 0) => log = <<Started>>
        /\ pc = "awaiting" /\ asked = 1 => log = Append(<<Started>>, Asking)
        /\ pc = "reading" => log = Opening
        /\ pc = "tools" \/ (pc = "request" /\ asked = 1) => log = Cycle(n)
        /\ pc \in {"invoking", "serializing"} => log = Append(Cycle(n), Entering(n + 1))
        /\ pc = "awaiting" /\ asked = 2 => log = Append(Cycle(n), Asking)
        /\ pc = "closing" /\ asked = 1 => log = Opening /\ n = 0 /\ progress.tools = 0
        /\ pc = "closing" /\ asked = 2 =>
             log = Append(Append(Cycle(n), Asking), Hearing(evidence.usages[2]))

\* The events a failure is told by, and the acceptances, at any time.
Outlined ==
    /\ Happened(Heard) = Received(evidence.usages)
    /\ pc # "failed" => Happened(Outline) = <<Started>> \o Received(evidence.usages)
    /\ Times("tool.result.accepted") = Len(results)

\* What was published is right.
Shown == pc \in {"answered", "failed"} => ObservationIsTheRun /\ TotalsCoverTheRun

OInv == Evident /\ Told /\ Outlined /\ Shown

-----------------------------------------------------------------------------
(* What the told events come to *)

LEMMA EventsTold ==
    /\ Started \in Events /\ Asking \in Events /\ Checking \in Events
    /\ \A u \in Usages : Hearing(u) \in Events
    /\ \A i \in Nat : Entering(i) \in Events /\ Accepting(i) \in Events
    /\ Event("run.completed", None) \in Events
    /\ \A stage \in Stages : Event("run.failed", stage) \in Events
BY DEF Started, Asking, Checking, Hearing, Entering, Accepting, Event, Events, Kinds

LEMMA KindsTold ==
    /\ Started.kind = "run.started" /\ Asking.kind = "provider.request.started"
    /\ Checking.kind = "tool.calls.validation.started"
    /\ \A u : Hearing(u).kind = "provider.response.received" /\ Hearing(u).detail = u
    /\ \A i : /\ Entering(i).kind = "tool.execution.started"
              /\ Accepting(i).kind = "tool.result.accepted"
    /\ \A detail : /\ Event("run.completed", detail).kind = "run.completed"
                   /\ Event("run.failed", detail).kind = "run.failed"
BY DEF Started, Asking, Checking, Hearing, Entering, Accepting, Event

LEMMA Pair ==
    ASSUME NEW X, NEW e \in X, NEW f \in X
    PROVE  Append(<<e>>, f) = <<e, f>>
<1> DEFINE s == Append(<<e>>, f)
           t == <<e, f>>
<1>1. <<e>> \in Seq(X) /\ Len(<<e>>) = 1 /\ <<e>>[1] = e
  OBVIOUS
<1>2. s \in Seq(X) /\ Len(s) = 2 /\ s[1] = e /\ s[2] = f
  BY <1>1
<1>3. t \in Seq(X) /\ Len(t) = 2 /\ t[1] = e /\ t[2] = f
  OBVIOUS
<1> HIDE DEF s, t
<1>4. \A i \in 1..2 : i = 1 \/ i = 2
  OBVIOUS
<1>5. \A i \in 1..Len(s) : s[i] = t[i]
  BY <1>2, <1>3, <1>4
<1>6. s = t
  BY <1>2, <1>3, <1>5, SeqEqual
<1> QED BY <1>6 DEF s, t

\* Concatenation, named so that the provers do not take it apart.
Cat(s, t) == s \o t

LEMMA CatFacts ==
    /\ \A X : \A s, t, u \in Seq(X) : Cat(Cat(s, t), u) = Cat(s, Cat(t, u))
    /\ \A X : \A s, t \in Seq(X) : Cat(s, t) \in Seq(X)
    /\ \A X : \A s \in Seq(X) : Cat(s, <<>>) = s
BY DEF Cat

\* Two events more.
LEMMA AppendTwo ==
    ASSUME NEW X, NEW s \in Seq(X), NEW e \in X, NEW f \in X
    PROVE  Append(Append(s, e), f) = s \o <<e, f>>
<1>1. Append(Append(s, e), f) = (s \o <<e>>) \o <<f>>
  BY AppendIsConcat, AppendProperties
<1>2. <<e>> \in Seq(X) /\ <<f>> \in Seq(X)
  OBVIOUS
<1>3. <<e>> \o <<f>> = <<e, f>>
  <2>1. <<e>> \o <<f>> = Append(<<e>>, f)
    BY <1>2, AppendIsConcat
  <2>2. Append(<<e>>, f) = <<e, f>>
    BY Pair
  <2> QED BY <2>1, <2>2
<1>4. (s \o <<e>>) \o <<f>> = s \o (<<e>> \o <<f>>)
  BY <1>2
<1> QED BY <1>1, <1>3, <1>4

LEMMA InvocationsMore ==
    ASSUME NEW n \in Nat
    PROVE  Invocations(n + 1) = IF n = 0 THEN <<Entering(1), Accepting(1)>>
                                ELSE Invocations(n) \o <<Entering(n + 1), Accepting(n + 1)>>
<1> DEFINE s(m) == [i \in 1..m |-> <<Entering(i), Accepting(i)>>]
<1>1. \A m \in Nat : Len(s(m)) = m
  OBVIOUS
<1>2. \A i \in 1..n : s(n)[i] = s(n + 1)[i]
  OBVIOUS
<1>3. s(n + 1)[n + 1] = <<Entering(n + 1), Accepting(n + 1)>>
  OBVIOUS
<1>4. n + 1 \in Nat /\ (n = 0 => n + 1 = 1)
  OBVIOUS
<1>5. Invocations(n + 1) = FlattenSeq(s(n + 1)) /\ Invocations(n) = FlattenSeq(s(n))
  BY DEF Invocations
<1> DEFINE a == s(n)
           b == s(n + 1)
<1>6. Len(b) = n + 1 /\ Len(a) = n /\ \A i \in 1..n : a[i] = b[i]
  BY <1>1, <1>2, <1>4
<1> HIDE DEF s, a, b
<1>7. FlattenSeq(b) = IF n = 0 THEN b[1] ELSE FlattenSeq(a) \o b[n + 1]
  BY <1>6, FlattenMore
<1>8. b[n + 1] = <<Entering(n + 1), Accepting(n + 1)>>
  BY <1>3 DEF b
<1>9. Invocations(n + 1) = FlattenSeq(b) /\ Invocations(n) = FlattenSeq(a)
  BY <1>5 DEF a, b
<1> QED BY <1>4, <1>7, <1>8, <1>9

LEMMA NoInvocations == Invocations(0) = <<>>
<1>1. [i \in 1..0 |-> <<Entering(i), Accepting(i)>>] = <<>>
  OBVIOUS
<1> QED BY <1>1 DEF Invocations, FlattenSeq

LEMMA InvocationsTold ==
    ASSUME NEW n \in Nat
    PROVE  /\ Invocations(n) \in Seq(Events)
           /\ Invocations(n + 1) = Invocations(n) \o <<Entering(n + 1), Accepting(n + 1)>>
<1> DEFINE T == {m \in Nat : Invocations(m) \in Seq(Events)}
<1>1. 0 \in T
  <2>1. <<>> \in Seq(Events)
    OBVIOUS
  <2> QED BY <2>1, NoInvocations
<1>2. ASSUME NEW m \in Nat
      PROVE  <<Entering(m + 1), Accepting(m + 1)>> \in Seq(Events)
  BY EventsTold
<1>3. ASSUME NEW m \in T PROVE m + 1 \in T
  <2>1. m \in Nat /\ m + 1 \in Nat /\ (m = 0 => m + 1 = 1)
    BY <1>3
  <2>2. Invocations(m + 1) \in Seq(Events)
    <3> DEFINE more == <<Entering(m + 1), Accepting(m + 1)>>
    <3>1. more \in Seq(Events) /\ Invocations(m) \in Seq(Events)
      BY <1>2, <1>3
    <3>2. Invocations(m + 1) = IF m = 0 THEN more ELSE Invocations(m) \o more
      BY <2>1, InvocationsMore
    <3> HIDE DEF more
    <3>3. Cat(Invocations(m), more) \in Seq(Events)
      BY <3>1, CatFacts
    <3> QED BY <3>1, <3>2, <3>3 DEF Cat
  <2> QED BY <2>1, <2>2
<1>4. T = Nat
  <2>1. T \in SUBSET Nat
    OBVIOUS
  <2> HIDE DEF T
  <2> QED BY <1>1, <1>3, <2>1, AllNumbers
<1>5. Invocations(n) \in Seq(Events)
  BY <1>4
<1>6. CASE n = 0
  <2>1. <<>> \o <<Entering(1), Accepting(1)>> = <<Entering(1), Accepting(1)>>
    BY <1>2, <1>6, ConcatEmptySeq
  <2>2. n + 1 = 1
    BY <1>6
  <2> QED BY <1>5, <1>6, <2>1, <2>2, InvocationsMore, NoInvocations
<1> QED BY <1>5, <1>6, InvocationsMore

\* The cycle begins after the first response, and grows by each tool.
LEMMA CycleTold ==
    ASSUME evidence.usages[1] \in Usages, NEW n \in Nat
    PROVE  /\ Opening \in Seq(Events) /\ Cycle(n) \in Seq(Events)
           /\ Append(Opening, Checking) = Cycle(0)
           /\ Append(Append(Cycle(n), Entering(n + 1)), Accepting(n + 1)) = Cycle(n + 1)
<1> DEFINE s == <<Started>>
           h == <<Asking, Hearing(evidence.usages[1])>>
           c == <<Checking>>
           i == Invocations(n)
           more == <<Entering(n + 1), Accepting(n + 1)>>
<1>1. s \in Seq(Events) /\ h \in Seq(Events) /\ c \in Seq(Events) /\ more \in Seq(Events)
  BY EventsTold
<1>2. i \in Seq(Events) /\ Invocations(n + 1) = i \o more
  BY InvocationsTold
<1>3. Opening = s \o h /\ Cycle(n) = Opening \o (c \o i)
      /\ Cycle(n + 1) = Opening \o (c \o Invocations(n + 1))
  BY DEF Opening, Cycle
<1>4. Cycle(0) = Opening \o (c \o <<>>)
  BY NoInvocations DEF Cycle
<1>5. Append(Append(Cycle(n), Entering(n + 1)), Accepting(n + 1)) = Cycle(n) \o more
      /\ Cycle(n) \in Seq(Events) /\ Opening \in Seq(Events)
  <2> HIDE DEF s, h, c, i
  <2>1. Opening \in Seq(Events)
    BY <1>1, <1>3, ConcatProperties
  <2>2. c \o i \in Seq(Events)
    BY <1>1, <1>2, ConcatProperties
  <2>3. Cycle(n) \in Seq(Events)
    BY <1>3, <2>1, <2>2, ConcatProperties
  <2>4. Entering(n + 1) \in Events /\ Accepting(n + 1) \in Events
    BY EventsTold
  <2> QED BY <2>1, <2>3, <2>4, AppendTwo
<1>6. Append(Opening, Checking) = Opening \o c
  BY <1>5, EventsTold, AppendIsConcat
<1> HIDE DEF s, h, c, i, more
<1>7. c \o <<>> = c
  BY <1>1, ConcatEmptySeq
<1>8. (Opening \o (c \o i)) \o more = Opening \o ((c \o i) \o more)
  <2> DEFINE d == c \o i
  <2>1. d \in Seq(Events)
    BY <1>1, <1>2, ConcatProperties
  <2> HIDE DEF d
  <2>2. Cat(Cat(Opening, d), more) = Cat(Opening, Cat(d, more))
    BY <1>1, <1>5, <2>1, CatFacts
  <2> QED BY <2>2 DEF Cat, d
<1>9. (c \o i) \o more = c \o (i \o more)
  <2>1. Cat(Cat(c, i), more) = Cat(c, Cat(i, more))
    BY <1>1, <1>2, CatFacts
  <2> QED BY <2>1 DEF Cat
<1>10. Append(Append(Cycle(n), Entering(n + 1)), Accepting(n + 1)) = Cycle(n + 1)
  BY <1>2, <1>3, <1>5, <1>8, <1>9
<1> QED BY <1>4, <1>5, <1>6, <1>7, <1>10

\* Brackets of a run told in two exchanges.
LEMMA Rebracketed ==
    ASSUME NEW X, NEW s \in Seq(X), NEW a \in Seq(X), NEW h \in Seq(X), NEW k \in Seq(X),
           NEW g \in Seq(X)
    PROVE  Cat(s, Cat(Cat(a, Cat(h, k)), Cat(a, Cat(g, <<>>)))) =
           Cat(Cat(Cat(Cat(s, Cat(a, h)), k), a), g)
<1> DEFINE p == Cat(Cat(a, h), k)
           q == Cat(a, g)
           sah == Cat(s, Cat(a, h))
<1>1. /\ Cat(g, <<>>) = g /\ Cat(a, h) \in Seq(X) /\ p \in Seq(X) /\ q \in Seq(X)
      /\ sah \in Seq(X) /\ Cat(sah, k) \in Seq(X)
  BY CatFacts
<1>2. Cat(a, Cat(h, k)) = p
  BY CatFacts
<1>3. Cat(s, p) = Cat(sah, k)
  BY <1>1, CatFacts
<1>4. Cat(Cat(Cat(sah, k), a), g) = Cat(Cat(sah, k), q)
  BY <1>1, CatFacts
<1> HIDE DEF p, q, sah
<1>5. Cat(s, Cat(p, q)) = Cat(Cat(s, p), q)
  BY <1>1, CatFacts
<1>6. Cat(s, Cat(Cat(a, Cat(h, k)), Cat(a, Cat(g, <<>>)))) = Cat(Cat(Cat(sah, k), a), g)
  BY <1>1, <1>2, <1>3, <1>4, <1>5 DEF q
<1> QED BY <1>6 DEF sah

\* One exchange of a run that answered, as its success events tell it.
Exchange(r, usages, tools) ==
    <<Asking>> \o (IF r > Len(usages) THEN <<>> ELSE
        <<Received(usages)[r]>>
        \o (IF r = 1 /\ tools > 0 THEN <<Checking>> \o Invocations(tools) ELSE <<>>))

LEMMA SuccessTold ==
    ASSUME NEW requests, NEW usages, NEW tools
    PROVE  SuccessEvents(requests, usages, tools) =
           (<<Started>> \o FlattenSeq([r \in 1..requests |-> Exchange(r, usages, tools)]))
           \o <<Event("run.completed", None)>>
BY DEF SuccessEvents, Exchange, Started, Asking, Checking, Entering, Accepting, Invocations

\* One sequence, flattened.
LEMMA FlattenOne ==
    ASSUME NEW seqs, Len(seqs) = 1
    PROVE  FlattenSeq(seqs) = seqs[1]
<1> DEFINE front == <<>>
<1>1. PICK m \in Nat : m = 0
  OBVIOUS
<1>2. Len(seqs) = m + 1 /\ Len(front) = m
  BY <1>1
<1>3. \A i \in 1..m : front[i] = seqs[i]
  BY <1>1
<1> HIDE DEF front
<1>4. FlattenSeq(seqs) = IF m = 0 THEN seqs[1] ELSE FlattenSeq(front) \o seqs[m + 1]
  BY <1>2, <1>3, FlattenMore
<1> QED BY <1>1, <1>4

\* The success events are those of a run that answered at once.
LEMMA ToldAtOnce ==
    ASSUME evidence.usages \in Seq(Usages), Len(evidence.usages) = 1
    PROVE  SuccessEvents(1, evidence.usages, 0) =
           Append(Opening, Event("run.completed", None))
<1> DEFINE u == evidence.usages
           done == Event("run.completed", None)
           x == Exchange(1, u, 0)
           seqs == [r \in 1..1 |-> Exchange(r, u, 0)]
<1>1. u[1] \in Usages /\ DOMAIN u = 1..1
  OBVIOUS
<1>2. Received(u)[1] = Hearing(u[1])
  BY <1>1 DEF Received, Hearing
<1>3. x = <<Asking, Hearing(u[1])>>
  <2>1. Asking \in Events /\ Hearing(u[1]) \in Events
    BY <1>1, EventsTold
  <2>2. x = <<Asking>> \o (<<Hearing(u[1])>> \o <<>>)
    BY <1>2 DEF Exchange
  <2> DEFINE a == <<Asking>>
             h == <<Hearing(u[1])>>
  <2>3. a \in Seq(Events) /\ h \in Seq(Events)
    BY <2>1
  <2> HIDE DEF a, h
  <2>4. h \o <<>> = h
    BY <2>3, ConcatEmptySeq
  <2>5. x = a \o h
    BY <2>2, <2>4 DEF a, h
  <2>6. a \o h = Append(a, Hearing(u[1]))
    BY <2>1, <2>3, AppendIsConcat DEF h
  <2>7. Append(a, Hearing(u[1])) = <<Asking, Hearing(u[1])>>
    BY <2>1, Pair DEF a
  <2> QED BY <2>5, <2>6, <2>7
<1>4. FlattenSeq(seqs) = x
  <2>1. Len(seqs) = 1 /\ seqs[1] = x
    OBVIOUS
  <2> HIDE DEF seqs, x
  <2> QED BY <2>1, FlattenOne
<1>5. SuccessEvents(1, u, 0) = (<<Started>> \o FlattenSeq(seqs)) \o <<done>>
  BY SuccessTold
<1>6. Opening \in Seq(Events) /\ done \in Events
  BY <1>1, CycleTold, EventsTold
<1>7. Append(Opening, done) = Opening \o <<done>>
  BY <1>6, AppendIsConcat
<1> HIDE DEF x, seqs, done
<1> QED BY <1>3, <1>4, <1>5, <1>7 DEF Opening, done

\* The success events are those of a run that answered after its tools.
LEMMA ToldInTwo ==
    ASSUME evidence.usages \in Seq(Usages), Len(evidence.usages) = 2, NEW n \in Nat, n > 0
    PROVE  SuccessEvents(2, evidence.usages, n) =
           Append(Append(Append(Cycle(n), Asking), Hearing(evidence.usages[2])),
                  Event("run.completed", None))
<1> DEFINE u == evidence.usages
           done == Event("run.completed", None)
           one == [r \in 1..1 |-> Exchange(r, u, n)]
           two == [r \in 1..2 |-> Exchange(r, u, n)]
           s == <<Started>>
           a == <<Asking>>
           h == <<Hearing(u[1])>>
           k == <<Checking>> \o Invocations(n)
           g == <<Hearing(u[2])>>
<1>1. u[1] \in Usages /\ u[2] \in Usages /\ DOMAIN u = 1..2
  OBVIOUS
<1>2. Received(u)[1] = Hearing(u[1]) /\ Received(u)[2] = Hearing(u[2])
  BY <1>1 DEF Received, Hearing
<1>3. /\ Exchange(1, u, n) = a \o (h \o k)
      /\ Exchange(2, u, n) = a \o (g \o <<>>)
  BY <1>2 DEF Exchange
<1>4. FlattenSeq(two) = Exchange(1, u, n) \o Exchange(2, u, n)
  <2>1. /\ Len(two) = 1 + 1 /\ two[2] = Exchange(2, u, n)
        /\ Len(one) = 1 /\ one[1] = Exchange(1, u, n)
    OBVIOUS
  <2>2. \A i \in 1..1 : one[i] = two[i]
    OBVIOUS
  <2> HIDE DEF one, two
  <2>4. FlattenSeq(one) = one[1]
    BY <2>1, FlattenOne
  <2>5. FlattenSeq(two) = IF 1 = 0 THEN two[1] ELSE FlattenSeq(one) \o two[1 + 1]
    BY <2>1, <2>2, FlattenMore
  <2>6. 1 + 1 = 2 /\ 1 # 0
    OBVIOUS
  <2> QED BY <2>1, <2>4, <2>5, <2>6
<1>5. SuccessEvents(2, u, n) = (s \o FlattenSeq(two)) \o <<done>>
  BY SuccessTold
<1>6. /\ s \in Seq(Events) /\ a \in Seq(Events) /\ h \in Seq(Events) /\ g \in Seq(Events)
      /\ <<Checking>> \in Seq(Events) /\ Asking \in Events /\ Hearing(u[2]) \in Events
      /\ done \in Events /\ Started \in Events /\ Hearing(u[1]) \in Events
  BY <1>1, EventsTold
<1>7. Opening \in Seq(Events) /\ Cycle(n) \in Seq(Events)
  BY <1>1, CycleTold
<1>8. k \in Seq(Events)
  <2>1. Invocations(n) \in Seq(Events)
    BY InvocationsTold
  <2> QED BY <1>6, <2>1, ConcatProperties
<1>9. Cycle(n) = Opening \o k
  BY DEF Cycle
<1>10. Opening = s \o (a \o h)
  <2>1. a \o h = Append(a, Hearing(u[1]))
    BY <1>6, AppendIsConcat
  <2>2. Append(a, Hearing(u[1])) = <<Asking, Hearing(u[1])>>
    BY <1>6, Pair
  <2> QED BY <2>1, <2>2 DEF Opening
<1> HIDE DEF s, a, h, k, g, two, one, done
<1>11. s \o ((a \o (h \o k)) \o (a \o (g \o <<>>))) = (((s \o (a \o h)) \o k) \o a) \o g
  <2>1. s \in Seq(Events) /\ a \in Seq(Events) /\ h \in Seq(Events) /\ g \in Seq(Events)
    BY <1>6
  <2>2. Cat(s, Cat(Cat(a, Cat(h, k)), Cat(a, Cat(g, <<>>)))) =
        Cat(Cat(Cat(Cat(s, Cat(a, h)), k), a), g)
    BY <1>8, <2>1, Rebracketed
  <2> QED BY <2>2 DEF Cat
<1>12. /\ Append(Cycle(n), Asking) = Cycle(n) \o a
       /\ Append(Cycle(n), Asking) \in Seq(Events)
  BY <1>6, <1>7, AppendIsConcat, AppendProperties DEF a
<1>13. /\ Append(Append(Cycle(n), Asking), Hearing(u[2])) = (Cycle(n) \o a) \o g
       /\ Append(Append(Cycle(n), Asking), Hearing(u[2])) \in Seq(Events)
  BY <1>6, <1>12, AppendIsConcat, AppendProperties DEF g
<1>14. Append(Append(Append(Cycle(n), Asking), Hearing(u[2])), done)
         = ((Cycle(n) \o a) \o g) \o <<done>>
  BY <1>6, <1>13, AppendIsConcat
<1>15. SuccessEvents(2, u, n) = ((Cycle(n) \o a) \o g) \o <<done>>
  BY <1>3, <1>4, <1>5, <1>9, <1>10, <1>11
<1> QED BY <1>14, <1>15 DEF done

-----------------------------------------------------------------------------
(* What one more event changes *)

LEMMA HappenedMore ==
    ASSUME log \in Seq(Events), NEW e \in Events, log' = Append(log, e), NEW kinds
    PROVE  Happened(kinds)' = IF e.kind \in kinds THEN Append(Happened(kinds), e)
                              ELSE Happened(kinds)
<1>1. Happened(kinds) = Pick(log, kinds)
  BY HappenedIsPick
<1>2. Happened(kinds)' = Pick(log', kinds)
  BY DEF Happened, Pick, At, Before
<1> QED BY <1>1, <1>2, PickMore

\* As many responses are counted as there are.
LEMMA HeardCounted ==
    ASSUME log \in Seq(Events)
    PROVE  Len(Happened(Heard)) = Times("provider.response.received")
<1>1. Len(Pick(log, Heard)) = Cardinality(At(log, Heard))
  BY PickAt
<1>2. At(log, Heard) = {i \in DOMAIN log : log[i].kind = "provider.response.received"}
  BY DEF At, Heard
<1> QED BY <1>1, <1>2, HappenedIsPick DEF Times

LEMMA ReceivedMore ==
    ASSUME NEW usages \in Seq(Usages), NEW u \in Usages
    PROVE  /\ Received(usages) \in Seq(Events) /\ Len(Received(usages)) = Len(usages)
           /\ Received(Append(usages, u)) = Append(Received(usages), Hearing(u))
<1> DEFINE more == Append(usages, u)
           p == Received(usages)
           q == Received(more)
<1>1. PICK n \in Nat : n = Len(usages) /\ DOMAIN usages = 1..n
  BY LenProperties
<1>2. /\ more \in Seq(Usages) /\ DOMAIN more = 1..n + 1 /\ more[n + 1] = u
      /\ \A i \in 1..n : more[i] = usages[i]
  BY <1>1, AppendProperties, LenProperties
<1> HIDE DEF more
<1>3. p = [i \in 1..n |-> Hearing(usages[i])] /\ q = [i \in 1..(n + 1) |-> Hearing(more[i])]
  BY <1>1, <1>2 DEF Received, Hearing
<1>4. \A i \in 1..n : usages[i] \in Usages
  BY <1>1
<1>5. \A i \in 1..(n + 1) : more[i] \in Usages
  BY <1>2
<1>6. p \in Seq(Events) /\ Len(p) = n
  BY <1>3, <1>4, EventsTold
<1>7. q \in Seq(Events) /\ Len(q) = n + 1
  BY <1>3, <1>5, EventsTold
<1>8. \A i \in 1..n : q[i] = p[i]
  BY <1>1, <1>2, <1>3
<1>9. q[n + 1] = Hearing(u)
  BY <1>2, <1>3
<1> HIDE DEF p, q
<1>10. Hearing(u) \in Events
  BY EventsTold
<1>11. /\ Append(p, Hearing(u)) \in Seq(Events) /\ Len(Append(p, Hearing(u))) = n + 1
       /\ Append(p, Hearing(u))[n + 1] = Hearing(u)
       /\ \A i \in 1..n : Append(p, Hearing(u))[i] = p[i]
  BY <1>6, <1>10, AppendProperties
<1>12. \A i \in 1..(n + 1) : q[i] = Append(p, Hearing(u))[i]
  <2> SUFFICES ASSUME NEW i \in 1..(n + 1) PROVE q[i] = Append(p, Hearing(u))[i]
    OBVIOUS
  <2>1. i = n + 1 \/ i \in 1..n
    OBVIOUS
  <2> QED BY <1>8, <1>9, <1>11, <2>1
<1>13. q = Append(p, Hearing(u))
  BY <1>7, <1>11, <1>12, SeqEqual
<1> QED BY <1>1, <1>6, <1>13 DEF p, q, more

\* What is told of some usages: totals only when each request was answered.
Covers(usage, usages, requests, success) ==
    LET heard == Received(usages)
    IN  /\ usage.requests = requests /\ usage.responses = Len(usages)
        /\ \A f \in Fields : usage.totals[f] # None =>
             /\ Len(usages) = requests
             /\ \A i \in DOMAIN heard : heard[i].detail[f] # None
             /\ usage.totals[f] = SumFunction([i \in DOMAIN heard |-> heard[i].detail[f]])
        /\ usage.complete => success /\ \A f \in Fields : usage.totals[f] # None

LEMMA TotalsRight ==
    ASSUME NEW usages \in Seq(Usages), NEW requests, NEW success \in BOOLEAN
    PROVE  Covers(Aggregate(usages, requests, success), usages, requests, success)
<1> DEFINE heard == Received(usages)
           usage == Aggregate(usages, requests, success)
<1>1. DOMAIN heard = DOMAIN usages /\ \A i \in DOMAIN usages : heard[i].detail = usages[i]
  BY DEF Received, Event
<1>2. /\ usage.requests = requests /\ usage.responses = Len(usages)
      /\ usage.complete => success /\ \A f \in Fields : usage.totals[f] # None
  BY DEF Aggregate
<1>3. ASSUME NEW f \in Fields, usage.totals[f] # None
      PROVE  /\ Len(usages) = requests
             /\ \A i \in DOMAIN heard : heard[i].detail[f] # None
             /\ usage.totals[f] = SumFunction([i \in DOMAIN heard |-> heard[i].detail[f]])
  <2>1. usage.totals[f] =
          IF /\ requests > 0 /\ Len(usages) = requests
             /\ \A i \in DOMAIN usages : usages[i][f] # None
          THEN SumFunction([i \in DOMAIN usages |-> usages[i][f]]) ELSE None
    BY DEF Aggregate
  <2> HIDE DEF usage
  <2>2. /\ Len(usages) = requests /\ \A i \in DOMAIN usages : usages[i][f] # None
        /\ usage.totals[f] = SumFunction([i \in DOMAIN usages |-> usages[i][f]])
    BY <1>3, <2>1
  <2>3. [i \in DOMAIN heard |-> heard[i].detail[f]] = [i \in DOMAIN usages |-> usages[i][f]]
    BY <1>1
  <2> QED BY <1>1, <2>2, <2>3
<1> HIDE DEF usage
<1> QED BY <1>2, <1>3 DEF Covers, usage

-----------------------------------------------------------------------------
(* The turn keeps OInv *)

\* Steps that tell nothing an outline names, and accept nothing.
LEMMA OutlinedStays ==
    ASSUME TInv, Outlined, pc # "failed", results' = results,
           evidence'.usages = evidence.usages,
           \/ log' = log
           \/ \E e \in Events : /\ log' = Append(log, e)
                                /\ e.kind \notin Heard \cup Outline
                                /\ e.kind # "tool.result.accepted"
    PROVE  Outlined'
<1>1. log \in Seq(Events)
  BY DEF TInv, Typed
<1>2. /\ Happened(Heard)' = Happened(Heard) /\ Happened(Outline)' = Happened(Outline)
      /\ Times("tool.result.accepted")' = Times("tool.result.accepted")
  <2>1. CASE log' = log
    BY <2>1 DEF Happened, Times, Heard, Outline
  <2>2. CASE log' # log
    <3>1. PICK e \in Events : /\ log' = Append(log, e)
                              /\ e.kind \notin Heard \cup Outline
                              /\ e.kind # "tool.result.accepted"
      BY <2>2
    <3>2. Times("tool.result.accepted")' = Times("tool.result.accepted")
      BY <1>1, <3>1, OneMoreTime
    <3>3. Happened(Heard)' = Happened(Heard) /\ Happened(Outline)' = Happened(Outline)
      <4>1. \A kinds : Happened(kinds)' = IF e.kind \in kinds THEN Append(Happened(kinds), e)
                                          ELSE Happened(kinds)
        BY <1>1, <3>1, HappenedMore
      <4>2. Happened(Heard)' = Happened(Heard)
        BY <3>1, <4>1 DEF Heard
      <4>3. Happened(Outline)' = Happened(Outline)
        BY <3>1, <4>1 DEF Outline
      <4> QED BY <4>2, <4>3
    <3> QED BY <3>2, <3>3
  <2> QED BY <2>1, <2>2
<1>3. Received(evidence.usages)' = Received(evidence.usages) /\ Started' = Started
  BY DEF Received, Started
<1> QED BY <1>2, <1>3 DEF Outlined

\* A step that raises.
LEMMA FailKeeps ==
    ASSUME TInv, OInv, pc \notin {"failing", "answered", "failed"}, pc' = "failing",
           UNCHANGED <<evidence, results>>, progress'.requests = progress.requests,
           \/ log' = log
           \/ log' = Append(log, Checking)
    PROVE  OInv'
<1>1. Checking \in Events /\ Checking.kind \notin Heard \cup Outline
      /\ Checking.kind # "tool.result.accepted"
  BY EventsTold, KindsTold DEF Heard, Outline
<1>2. Outlined'
  BY <1>1, OutlinedStays DEF OInv
<1>3. Evident' /\ Told' /\ Shown'
  BY DEF OInv, Evident, Told, Shown
<1> QED BY <1>2, <1>3 DEF OInv

\* What is told of the first response stays.
LEMMA CycleStays ==
    ASSUME evidence'.usages[1] = evidence.usages[1]
    PROVE  Opening' = Opening /\ \A n : Cycle(n)' = Cycle(n)
BY DEF Opening, Cycle, Hearing, Asking, Started, Checking, Invocations, Entering, Accepting

\* A step that receives nothing.
LEMMA ToldStays ==
    ASSUME UNCHANGED evidence
    PROVE  Opening' = Opening /\ \A n : Cycle(n)' = Cycle(n)
BY CycleStays

LEMMA InitKeeps == Init => OInv
<1> SUFFICES ASSUME Init PROVE OInv
  OBVIOUS
<1>1. log = <<Started>> /\ Started \in Events /\ Started.kind = "run.started"
  BY EventsTold, KindsTold DEF Init, Started
<1>2. evidence.usages = <<>> /\ evidence.requests = 0 /\ results = <<>>
      /\ progress.requests = 0 /\ pc = "start"
  BY DEF Init
<1>3. <<>> \in Seq(Events) /\ log = Append(<<>>, Started)
  BY <1>1
<1>4. \A kinds : Pick(<<>>, kinds) = <<>>
  BY <1>3, FS_EmptySet DEF Pick, At
<1>5. \A kinds : Happened(kinds) = IF "run.started" \in kinds THEN <<Started>> ELSE <<>>
  <2> SUFFICES ASSUME NEW kinds
               PROVE Happened(kinds) = IF "run.started" \in kinds THEN <<Started>> ELSE <<>>
    OBVIOUS
  <2> DEFINE none == <<>>
  <2>1. Pick(Append(none, Started), kinds) =
          IF Started.kind \in kinds THEN Append(Pick(none, kinds), Started)
          ELSE Pick(none, kinds)
    <3>1. none \in Seq(Events) /\ Started \in Events
      BY <1>1, <1>3
    <3> HIDE DEF none
    <3> QED BY <3>1, PickMore
  <2> QED BY <1>1, <1>3, <1>4, <2>1, HappenedIsPick
<1>6. Received(<<>>) = <<>>
  BY DEF Received
<1>7. Times("tool.result.accepted") = 0
  <2>1. {i \in DOMAIN log : log[i].kind = "tool.result.accepted"} = {}
    BY <1>1
  <2> QED BY <2>1, FS_EmptySet DEF Times
<1>8. Outlined
  <2>1. <<Started>> \o <<>> = <<Started>>
    BY <1>1, ConcatEmptySeq
  <2>2. Happened(Heard) = <<>> /\ Happened(Outline) = <<Started>>
    BY <1>5 DEF Heard, Outline
  <2> QED BY <1>2, <1>6, <1>7, <2>1, <2>2 DEF Outlined
<1>9. Evident
  BY DEF Init, Evident
<1>10. Told /\ Shown
  BY <1>1, <1>2 DEF Told, Shown
<1> QED BY <1>8, <1>9, <1>10 DEF OInv

LEMMA StartKeeps == ASSUME TInv, OInv, Start PROVE OInv'
<1>1. CASE Fail("invalid")
  BY <1>1, FailKeeps DEF Start, Fail
<1>2. CASE pc' = "request"
  <2>1. pc = "start" /\ progress.requests = 0
        /\ UNCHANGED <<progress, evidence, results, log, published>>
    BY DEF Start, TInv, Requested
  <2>2. Evident' /\ Shown'
    BY <1>2, <2>1 DEF OInv, Evident, Shown
  <2>3. Told'
    BY <1>2, <2>1 DEF OInv, Told, Started
  <2>4. Outlined'
    BY <2>1, OutlinedStays DEF OInv
  <2> QED BY <2>2, <2>3, <2>4 DEF OInv
<1> QED BY <1>1, <1>2 DEF Start

LEMMA RequestKeeps == ASSUME TInv, OInv, Request PROVE OInv'
<1>1. CASE (Fail("invalid") \/ Fail("timeout")) /\ UNCHANGED <<progress, evidence, log>>
  BY <1>1, FailKeeps DEF Request, Fail
<1>2. CASE pc' = "awaiting"
  <2>1. /\ pc = "request" /\ progress.requests \in {0, 1}
        /\ log' = Append(log, Asking) /\ results' = results
        /\ evidence' = [evidence EXCEPT !.requests = @ + 1]
        /\ progress'.requests = progress.requests + 1
    <3>1. progress \in [stage : Stages, requests : Nat, tools : Nat]
          /\ progress.requests <= 1 /\ pc = "request"
      BY DEF Request, TInv, Typed, Requested
    <3>2. /\ progress' = [progress EXCEPT
                 !.requests = @ + 1,
                 !.stage = IF progress.requests = 0 THEN "first_provider_request"
                           ELSE "second_provider_request"]
          /\ log' = Append(log, Asking) /\ results' = results
          /\ evidence' = [evidence EXCEPT !.requests = @ + 1]
      BY <1>2 DEF Request, Happens, Fail, Asking
    <3>3. progress'.requests = progress.requests + 1
      BY <3>1, <3>2
    <3> QED BY <3>1, <3>2, <3>3
  <2>2. evidence \in [requests : Nat, usages : Seq(Usages)]
        /\ evidence.requests = progress.requests
        /\ Len(evidence.usages) = progress.requests
    BY <2>1 DEF OInv, Evident
  <2>3. /\ evidence' \in [requests : Nat, usages : Seq(Usages)]
        /\ evidence'.usages = evidence.usages /\ evidence'.requests = evidence.requests + 1
    BY <2>1, <2>2
  <2>4. Evident'
    BY <1>2, <2>1, <2>2, <2>3 DEF Evident
  <2>5. Told'
    <3>1. \A n : Cycle(n)' = Cycle(n)
      BY <2>3, CycleStays
    <3>2. CASE progress.requests = 0
      <4>1. log = <<Started>> /\ progress'.requests = 1
        BY <2>1, <3>2 DEF OInv, Told
      <4> QED BY <1>2, <2>1, <4>1 DEF Told, Started, Asking
    <3>3. CASE progress.requests = 1
      <4>1. log = Cycle(Len(results)) /\ progress'.requests = 2
        BY <2>1, <3>3 DEF OInv, Told
      <4>2. log' = Append(Cycle(Len(results))', Asking)
        BY <2>1, <3>1, <4>1
      <4> QED BY <1>2, <2>1, <4>1, <4>2 DEF Told, Asking
    <3> QED BY <2>1, <3>2, <3>3
  <2>6. Outlined'
    <3>1. Asking \in Events /\ Asking.kind \notin Heard \cup Outline
          /\ Asking.kind # "tool.result.accepted"
      BY EventsTold, KindsTold DEF Heard, Outline
    <3> QED BY <2>1, <2>3, <3>1, OutlinedStays DEF OInv
  <2>7. Shown'
    BY <1>2 DEF Shown
  <2> QED BY <2>4, <2>5, <2>6, <2>7 DEF OInv
<1> QED BY <1>1, <1>2 DEF Request

-----------------------------------------------------------------------------

\* A response is evidence, in time or late.
LEMMA RespondKeeps == ASSUME TInv, OInv, Respond PROVE OInv'
<1>1. PICK u \in Usages : /\ evidence' = [evidence EXCEPT !.usages = Append(@, u)]
                          /\ log' = Append(log, Hearing(u))
  BY DEF Respond, Happens, Hearing
<1>2. /\ pc = "awaiting" /\ progress.requests \in {1, 2}
      /\ results' = results
      /\ pc' \in {"failing", IF progress.requests = 1 THEN "reading" ELSE "closing"}
      /\ log \in Seq(Events)
  BY DEF Respond, Checked, Fail, TInv, Typed, Requested
<1>3. progress'.requests = progress.requests
  <2>1. progress \in [stage : Stages, requests : Nat, tools : Nat]
    BY DEF TInv, Typed
  <2> QED BY <2>1 DEF Respond, Reach
<1>4. /\ evidence \in [requests : Nat, usages : Seq(Usages)]
      /\ evidence.requests = progress.requests
      /\ Len(evidence.usages) + 1 = progress.requests
  BY <1>2 DEF OInv, Evident
<1> DEFINE usages == evidence.usages
<1>5. PICK n \in Nat : n = Len(usages)
  BY <1>4
<1>6. /\ evidence' \in [requests : Nat, usages : Seq(Usages)]
      /\ evidence'.usages = Append(usages, u) /\ evidence'.requests = evidence.requests
  <2>1. usages \in Seq(Usages) /\ Append(usages, u) \in Seq(Usages)
    BY <1>4, AppendProperties
  <2>2. evidence' = [evidence EXCEPT !.usages = Append(usages, u)]
    BY <1>1
  <2> QED BY <1>4, <2>1, <2>2
<1>7. /\ Len(evidence'.usages) = n + 1 /\ evidence'.usages[n + 1] = u
      /\ \A i \in 1..n : evidence'.usages[i] = usages[i]
  BY <1>4, <1>5, <1>6, AppendProperties
<1>8. Evident'
  BY <1>2, <1>3, <1>4, <1>5, <1>6, <1>7 DEF Evident
<1>9. Told'
  <2>1. CASE progress.requests = 1
    <3>1. n = 0 /\ evidence'.usages[1] = u
      BY <1>4, <1>5, <1>7, <2>1
    <3>2. log = Append(<<Started>>, Asking)
      BY <1>2, <2>1 DEF OInv, Told
    <3>3. log' = <<Started>> \o <<Asking, Hearing(u)>>
      <4>1. <<Started>> \in Seq(Events) /\ Asking \in Events /\ Hearing(u) \in Events
        BY EventsTold
      <4> QED BY <1>1, <3>2, <4>1, AppendTwo
    <3>4. Opening' = <<Started>> \o <<Asking, Hearing(u)>>
      BY <3>1 DEF Opening, Started, Asking, Hearing
    <3>5. pc' \in {"failing", "reading"}
      BY <1>2, <2>1
    <3> QED BY <3>3, <3>4, <3>5 DEF Told
  <2>2. CASE progress.requests = 2
    <3>1. n = 1 /\ evidence'.usages[2] = u /\ evidence'.usages[1] = usages[1]
      <4>1. n + 1 = 2
        BY <1>4, <1>5, <2>2
      <4>2. n = 1
        BY <4>1
      <4>3. 1 \in 1..1 /\ 1 + 1 = 2
        OBVIOUS
      <4> QED BY <1>7, <4>2, <4>3
    <3>2. log = Append(Cycle(Len(results)), Asking)
      BY <1>2, <2>2 DEF OInv, Told
    <3>3. \A m : Cycle(m)' = Cycle(m)
      BY <3>1, CycleStays
    <3>4. log' = Append(Append(Cycle(Len(results))', Asking), Hearing(u))
      BY <1>1, <1>2, <3>2, <3>3
    <3>5. pc' \in {"failing", "closing"} /\ progress'.requests = 2 /\ 2 # 1
      BY <1>2, <1>3, <2>2
    <3> QED BY <1>2, <3>1, <3>4, <3>5 DEF Told, Asking, Hearing
  <2> QED BY <1>2, <2>1, <2>2
<1>10. Outlined'
  <2>1. Hearing(u) \in Events /\ Hearing(u).kind = "provider.response.received"
    BY EventsTold, KindsTold
  <2>2. /\ Received(usages) \in Seq(Events)
        /\ Received(evidence'.usages) = Append(Received(usages), Hearing(u))
    BY <1>4, <1>6, ReceivedMore
  <2>3. Happened(Heard)' = Append(Happened(Heard), Hearing(u))
    BY <1>1, <1>2, <2>1, HappenedMore DEF Heard
  <2>4. Happened(Outline)' = Append(Happened(Outline), Hearing(u))
    BY <1>1, <1>2, <2>1, HappenedMore DEF Outline
  <2>5. Times("tool.result.accepted")' = Times("tool.result.accepted")
    BY <1>1, <1>2, <2>1, OneMoreTime
  <2>6. /\ Happened(Heard) = Received(usages)
        /\ Happened(Outline) = <<Started>> \o Received(usages)
        /\ Times("tool.result.accepted") = Len(results)
    BY <1>2 DEF OInv, Outlined
  <2>7. Append(<<Started>> \o Received(usages), Hearing(u))
          = <<Started>> \o Append(Received(usages), Hearing(u))
    <3> DEFINE s == <<Started>>
               r == Received(usages)
               h == <<Hearing(u)>>
    <3>1. s \in Seq(Events) /\ r \in Seq(Events) /\ h \in Seq(Events)
      BY <2>1, <2>2, EventsTold
    <3>2. s \o r \in Seq(Events)
      BY <3>1, ConcatProperties
    <3>3. Append(s \o r, Hearing(u)) = (s \o r) \o h
      BY <2>1, <3>2, AppendIsConcat
    <3>4. Append(r, Hearing(u)) = r \o h
      BY <2>1, <3>1, AppendIsConcat
    <3> HIDE DEF s, r, h
    <3>5. Cat(Cat(s, r), h) = Cat(s, Cat(r, h))
      BY <3>1, CatFacts
    <3>6. (s \o r) \o h = s \o (r \o h)
      BY <3>5 DEF Cat
    <3> QED BY <3>3, <3>4, <3>6 DEF s, r
  <2>8. /\ Happened(Heard)' = Received(evidence'.usages)
        /\ Happened(Outline)' = <<Started>> \o Received(evidence'.usages)
    BY <2>2, <2>3, <2>4, <2>6, <2>7
  <2> QED BY <1>2, <2>5, <2>6, <2>8 DEF Outlined, Started, Received
<1>11. Shown'
  BY <1>2 DEF Shown
<1> QED BY <1>8, <1>9, <1>10, <1>11 DEF OInv

LEMMA ReadFirstKeeps == ASSUME TInv, OInv, ReadFirst PROVE OInv'
<1>1. /\ pc = "reading" /\ progress.requests = 1 /\ progress.tools = 0 /\ results = <<>>
      /\ progress \in [stage : Stages, requests : Nat, tools : Nat]
      /\ evidence' = evidence /\ results' = results
  BY DEF ReadFirst, TInv, Typed, Requested, Cycled
<1>2. log = Opening /\ Len(results) = 0
  BY <1>1 DEF OInv, Told
<1>3. CASE Fail("invalid") /\ UNCHANGED <<progress, calls, log>>
  BY <1>1, <1>3, FailKeeps DEF Fail
<1>4. \A n : Cycle(n)' = Cycle(n) /\ Opening' = Opening
  BY <1>1, ToldStays
<1>5. CASE pc' = "closing" /\ UNCHANGED <<progress, calls, log>>
  <2>1. Evident' /\ Shown'
    BY <1>1, <1>5 DEF OInv, Evident, Shown
  <2>2. Told'
    BY <1>1, <1>2, <1>4, <1>5 DEF Told
  <2>3. Outlined'
    BY <1>1, <1>5, OutlinedStays DEF OInv
  <2> QED BY <2>1, <2>2, <2>3 DEF OInv
<1>6. CASE /\ Reach("tool_call_validation")
           /\ Happens("tool.calls.validation.started", None)
           /\ \/ pc' = "failing" /\ UNCHANGED calls
              \/ pc' = "tools" /\ calls' = response.calls /\ response.calls > 0
  <2>1. log' = Append(log, Checking) /\ progress'.requests = 1
    BY <1>1, <1>6 DEF Happens, Reach, Checking
  <2>2. CASE pc' = "failing"
    BY <1>1, <2>1, <2>2, FailKeeps
  <2>3. CASE pc' = "tools"
    <3>1. Evident' /\ Shown'
      BY <1>1, <2>1, <2>3 DEF OInv, Evident, Shown
    <3>2. Told'
      <4>1. evidence.usages[1] \in Usages
        <5>1. evidence.usages \in Seq(Usages) /\ Len(evidence.usages) = 1
          BY <1>1 DEF OInv, Evident
        <5> QED BY <5>1
      <4>2. Append(Opening, Checking) = Cycle(0)
        BY <4>1, CycleTold
      <4>3. log' = Cycle(0)'
        BY <1>2, <1>4, <2>1, <4>2
      <4>4. Len(results') = 0
        BY <1>1, <1>2
      <4> QED BY <2>3, <4>3, <4>4 DEF Told
    <3>3. Outlined'
      <4>1. Checking \in Events /\ Checking.kind \notin Heard \cup Outline
            /\ Checking.kind # "tool.result.accepted"
        BY EventsTold, KindsTold DEF Heard, Outline
      <4> QED BY <1>1, <2>1, <4>1, OutlinedStays DEF OInv
    <3> QED BY <3>1, <3>2, <3>3 DEF OInv
  <2> QED BY <1>6, <2>2, <2>3
<1> QED BY <1>3, <1>5, <1>6 DEF ReadFirst, Fail

LEMMA CallToolKeeps == ASSUME TInv, OInv, CallTool PROVE OInv'
<1>1. /\ pc = "tools" /\ progress.requests = 1
      /\ progress \in [stage : Stages, requests : Nat, tools : Nat]
      /\ evidence' = evidence /\ results' = results
  BY DEF CallTool, TInv, Typed, Requested
<1>2. log = Cycle(Len(results)) /\ Len(results) \in Nat
  BY <1>1 DEF OInv, Told, TInv, Typed
<1>3. CASE Fail("timeout") /\ UNCHANGED <<progress, log>>
  BY <1>1, <1>3, FailKeeps DEF Fail
<1>4. CASE /\ pc' = "invoking"
           /\ progress' = [progress EXCEPT !.stage = "tool_execution", !.tools = @ + 1]
           /\ Happens("tool.execution.started", Len(results) + 1)
  <2> DEFINE e == Entering(Len(results) + 1)
  <2>1. log' = Append(log, e) /\ progress'.requests = 1
    BY <1>1, <1>4 DEF Happens, Entering
  <2>2. e \in Events /\ e.kind = "tool.execution.started"
    BY <1>2, EventsTold, KindsTold
  <2>3. Evident' /\ Shown'
    BY <1>1, <1>4, <2>1 DEF OInv, Evident, Shown
  <2>4. Told'
    <3>1. \A n : Cycle(n)' = Cycle(n)
      BY <1>1, ToldStays
    <3>2. log' = Append(Cycle(Len(results))', e)
      BY <1>1, <1>2, <2>1, <3>1
    <3> QED BY <1>1, <1>4, <3>2 DEF Told, Entering
  <2>5. Outlined'
    <3>1. e.kind \notin Heard \cup Outline /\ e.kind # "tool.result.accepted"
      BY <2>2 DEF Heard, Outline
    <3> HIDE DEF e
    <3> QED BY <1>1, <2>1, <2>2, <3>1, OutlinedStays DEF OInv
  <2> QED BY <2>3, <2>4, <2>5 DEF OInv
<1> QED BY <1>3, <1>4 DEF CallTool, Checked, Fail

LEMMA ToolReturnsKeeps == ASSUME TInv, OInv, ToolReturns PROVE OInv'
<1>1. /\ pc = "invoking" /\ progress.requests = 1
      /\ progress \in [stage : Stages, requests : Nat, tools : Nat]
      /\ UNCHANGED <<evidence, results, log>>
  BY DEF ToolReturns, TInv, Typed, Requested
<1>2. CASE Fail("timeout") /\ UNCHANGED <<progress, result>>
  BY <1>1, <1>2, FailKeeps DEF Fail
<1>3. CASE pc' = "serializing" /\ Reach("tool_result_serialization")
  <2>1. progress'.requests = 1
    BY <1>1, <1>3 DEF Reach
  <2>2. Evident' /\ Shown'
    BY <1>1, <1>3, <2>1 DEF OInv, Evident, Shown
  <2>3. Told'
    <3>1. \A n : Cycle(n)' = Cycle(n)
      BY <1>1, ToldStays
    <3>2. log = Append(Cycle(Len(results)), Entering(Len(results) + 1))
      BY <1>1 DEF OInv, Told
    <3>3. log' = Append(Cycle(Len(results))', Entering(Len(results) + 1))
      BY <1>1, <3>1, <3>2
    <3> QED BY <1>1, <1>3, <3>3 DEF Told, Entering
  <2>4. Outlined'
    BY <1>1, OutlinedStays DEF OInv
  <2> QED BY <2>2, <2>3, <2>4 DEF OInv
<1> QED BY <1>2, <1>3 DEF ToolReturns, Checked, Fail

LEMMA AcceptKeeps == ASSUME TInv, OInv, Accept PROVE OInv'
<1>1. /\ pc = "serializing" /\ progress.requests = 1
      /\ UNCHANGED <<progress, evidence>> /\ results \in Seq(Nat)
      /\ log \in Seq(Events)
  BY DEF Accept, TInv, Typed, Requested
<1>2. CASE Fail("invalid") /\ UNCHANGED <<results, bytes, log>>
  BY <1>1, <1>2, FailKeeps DEF Fail
<1>3. CASE Fail("timeout") /\ UNCHANGED <<results, log>>
  BY <1>1, <1>3, FailKeeps DEF Fail
<1>4. CASE /\ pc' = IF Len(results) + 1 = calls THEN "request" ELSE "tools"
           /\ result \in Nat
           /\ results' = Append(results, result)
           /\ Happens("tool.result.accepted", Len(results) + 1)
  <2>1. PICK n \in Nat : n = Len(results)
    BY <1>1
  <2>2. Len(results') = n + 1
    BY <1>1, <1>4, <2>1
  <2>3. /\ log = Append(Cycle(n), Entering(n + 1))
        /\ evidence.usages[1] \in Usages
    <3>1. evidence.usages \in Seq(Usages) /\ Len(evidence.usages) = 1
      BY <1>1 DEF OInv, Evident
    <3> QED BY <1>1, <2>1, <3>1 DEF OInv, Told
  <2>4. log' = Append(log, Accepting(n + 1)) /\ Accepting(n + 1) \in Events
        /\ Accepting(n + 1).kind = "tool.result.accepted"
    BY <1>4, <2>1, EventsTold, KindsTold DEF Happens, Accepting
  <2>5. log' = Cycle(n + 1)'
    <3>1. log' = Cycle(n + 1)
      BY <2>3, <2>4, CycleTold
    <3> QED BY <1>1, <3>1, ToldStays
  <2>6. pc' \in {"request", "tools"}
    BY <1>4
  <2>7. Evident' /\ Shown'
    BY <1>1, <2>6 DEF OInv, Evident, Shown
  <2>8. Told'
    BY <1>1, <2>2, <2>5, <2>6 DEF Told
  <2>9. Outlined'
    <3>1. /\ Happened(Heard)' = Happened(Heard)
          /\ Happened(Outline)' = Happened(Outline)
          /\ Times("tool.result.accepted")' = Times("tool.result.accepted") + 1
      <4>1. Happened(Heard)' = Happened(Heard)
        BY <1>1, <2>4, HappenedMore DEF Heard
      <4>2. Happened(Outline)' = Happened(Outline)
        BY <1>1, <2>4, HappenedMore DEF Outline
      <4>3. Times("tool.result.accepted")' = Times("tool.result.accepted") + 1
        BY <1>1, <2>4, OneMoreTime
      <4> QED BY <4>1, <4>2, <4>3
    <3>2. Received(evidence.usages)' = Received(evidence.usages)
      BY <1>1 DEF Received
    <3>3. /\ Happened(Heard) = Received(evidence.usages)
          /\ Happened(Outline) = <<Started>> \o Received(evidence.usages)
          /\ Times("tool.result.accepted") = n
      BY <1>1, <2>1 DEF OInv, Outlined
    <3> QED BY <2>2, <3>1, <3>2, <3>3 DEF Outlined, Started
  <2> QED BY <2>7, <2>8, <2>9 DEF OInv
<1> QED BY <1>2, <1>3, <1>4 DEF Accept, Checked, Fail, WithinLimits, TInv, Typed

-----------------------------------------------------------------------------
LEMMA FinishKeeps == ASSUME TInv, OInv, Finish PROVE OInv'
<1> DEFINE done == Event("run.completed", None)
           usages == evidence.usages
           n == Len(results)
           asked == progress.requests
<1>1. /\ pc = "closing" /\ UNCHANGED <<progress, evidence, results>>
      /\ asked \in {1, 2} /\ log \in Seq(Events) /\ results \in Seq(Nat)
      /\ Asked = asked /\ Entered = progress.tools
  BY DEF Finish, TInv, Typed, Requested, Counted
<1>2. CASE pc' = "failing" /\ UNCHANGED <<published, log>>
  BY <1>1, <1>2, FailKeeps
<1>3. CASE pc' = "answered" /\ published' = Observed /\ Happens("run.completed", None)
  <2>1. log' = Append(log, done) /\ done \in Events /\ done.kind = "run.completed"
    BY <1>3, EventsTold, KindsTold DEF Happens
  <2>2. usages \in Seq(Usages) /\ Len(usages) = asked /\ evidence.requests = asked
    BY <1>1 DEF OInv, Evident
  <2>3. Evident' /\ Told'
    BY <1>1, <1>3 DEF OInv, Evident, Told
  <2>4. /\ done.kind \notin Heard \cup Outline
        /\ done.kind \notin {"tool.result.accepted", "tool.execution.started",
                             "provider.request.started", "provider.response.received"}
    BY <2>1 DEF Heard, Outline
  <2>5. Outlined'
    BY <1>1, <2>1, <2>4, OutlinedStays DEF OInv
  <2>6. ASSUME NEW kind \in {"tool.result.accepted", "tool.execution.started",
                             "provider.request.started", "provider.response.received"}
        PROVE  Times(kind)' = Times(kind)
    BY <1>1, <2>1, <2>4, OneMoreTime
  <2>7. /\ Times("provider.request.started")' = asked
        /\ Times("tool.execution.started")' = progress.tools
        /\ Times("tool.result.accepted")' = n
    <3>1. Times("tool.result.accepted") = n
      BY DEF OInv, Outlined
    <3> QED BY <1>1, <2>6, <3>1 DEF Asked, Entered
  <2>8. Happened(Heard)' = Received(usages)
    BY <1>1, <2>5 DEF Outlined, Received
  <2>9. Times("provider.response.received")' = Len(usages)
    <3>1. Len(Happened(Heard)) = Times("provider.response.received")
      BY <1>1, HeardCounted
    <3>2. Happened(Heard) = Received(usages) /\ Len(Received(usages)) = Len(usages)
      <4>1. Len(Received(usages)) = Len(usages)
        BY <2>2 DEF Received
      <4> QED BY <4>1 DEF OInv, Outlined
    <3> QED BY <2>6, <3>1, <3>2
  <2>10. /\ progress.tools = n
         /\ asked = IF n = 0 THEN 1 ELSE 2
         /\ SuccessEvents(asked, usages, n) = Append(log, done)
    <3>1. CASE asked = 1
      <4>1. log = Opening /\ n = 0 /\ progress.tools = 0
        BY <1>1, <3>1 DEF OInv, Told
      <4> QED BY <2>2, <3>1, <4>1, ToldAtOnce
    <3>2. CASE asked = 2
      <4>1. log = Append(Append(Cycle(n), Asking), Hearing(usages[2]))
        BY <1>1, <3>2 DEF OInv, Told
      <4>2. n \in Nat /\ n > 0 /\ progress.tools = n
        <5>1. calls > 0 /\ progress.tools = calls /\ n = calls /\ calls \in Nat
          BY <3>2 DEF TInv, Cycled, Typed
        <5> QED BY <5>1
      <4> HIDE DEF n
      <4>3. SuccessEvents(2, usages, n)
              = Append(Append(Append(Cycle(n), Asking), Hearing(usages[2])), done)
        BY <2>2, <3>2, <4>2, ToldInTwo
      <4> QED BY <3>2, <4>1, <4>2, <4>3
    <3> QED BY <1>1, <3>1, <3>2
  <2>11. /\ published'.kind = "answer" /\ published'.requests = asked
         /\ published'.tools = n
         /\ published'.usage = Aggregate(usages, asked, TRUE)
         /\ published'.events = log'
    BY <1>3, <2>1, <2>2, <2>10 DEF Observed
  <2>12. /\ published'.usage.requests = asked /\ published'.usage.responses = Len(usages)
    BY <2>11 DEF Aggregate
  <2>13. ObservationIsTheRun'
    BY <2>7, <2>9, <2>10, <2>11, <2>12 DEF ObservationIsTheRun
  <2>14. TotalsCoverTheRun'
    <3> DEFINE heard == Received(usages)
               usage == Aggregate(usages, asked, TRUE)
    <3>0. Covers(usage, usages, asked, TRUE)
      BY <2>2, TotalsRight
    <3>1. /\ \A f \in Fields : usage.totals[f] # None =>
               /\ Len(usages) = asked
               /\ \A i \in DOMAIN heard : heard[i].detail[f] # None
               /\ usage.totals[f] = SumFunction([i \in DOMAIN heard |-> heard[i].detail[f]])
          /\ usage.complete => TRUE /\ \A f \in Fields : usage.totals[f] # None
      <4> HIDE DEF usage
      <4> QED BY <3>0 DEF Covers
    <3>2. Len(heard) = Len(usages)
      BY <2>2 DEF Received
    <3>3. Happened({"provider.response.received"})' = heard
      BY <2>8 DEF Heard
    <3> HIDE DEF heard, usage
    <3>4. published'.usage = usage
      BY <2>11 DEF usage
    <3> QED BY <2>2, <2>7, <2>11, <3>1, <3>2, <3>3, <3>4 DEF TotalsCoverTheRun
  <2> QED BY <2>3, <2>5, <2>13, <2>14 DEF OInv, Shown
<1> QED BY <1>2, <1>3 DEF Finish, Checked, Fail

LEMMA NotifyKeeps == ASSUME TInv, OInv, Notify PROVE OInv'
<1> DEFINE failed == Event("run.failed", progress.stage)
           usages == evidence.usages
           asked == progress.requests
<1>1. /\ pc = "failing" /\ pc' = "failed" /\ published' = Failure
      /\ UNCHANGED <<progress, evidence, results>>
      /\ log \in Seq(Events) /\ progress.stage \in Stages
      /\ Asked = asked /\ Entered = progress.tools
  BY DEF Notify, TInv, Typed, Counted
<1>2. log' = Append(log, failed) /\ failed \in Events /\ failed.kind = "run.failed"
  BY <1>1, EventsTold, KindsTold DEF Notify, Happens
<1>3. usages \in Seq(Usages) /\ evidence.requests = asked
  BY DEF OInv, Evident
<1>4. Evident' /\ Told'
  BY <1>1 DEF OInv, Evident, Told
<1> HIDE DEF failed
<1>5. /\ Happened(Heard)' = Happened(Heard)
      /\ Happened(Outline)' = Append(Happened(Outline), failed)
  <2>1. Happened(Heard)' = Happened(Heard)
    BY <1>1, <1>2, HappenedMore DEF Heard
  <2>2. Happened(Outline)' = Append(Happened(Outline), failed)
    BY <1>1, <1>2, HappenedMore DEF Outline
  <2> QED BY <2>1, <2>2
<1>6. ASSUME NEW kind \in {"tool.result.accepted", "tool.execution.started",
                           "provider.request.started", "provider.response.received"}
      PROVE  Times(kind)' = Times(kind)
  BY <1>1, <1>2, OneMoreTime
<1>7. /\ Happened(Heard) = Received(usages)
      /\ Happened(Outline) = <<Started>> \o Received(usages)
      /\ Times("tool.result.accepted") = Len(results)
  BY <1>1 DEF OInv, Outlined
<1>8. Received(usages)' = Received(usages) /\ Len(Received(usages)) = Len(usages)
  BY <1>1, <1>3 DEF Received
<1>9. Outlined'
  BY <1>1, <1>5, <1>6, <1>7, <1>8 DEF Outlined
<1>10. /\ Times("provider.request.started")' = asked
       /\ Times("tool.execution.started")' = progress.tools
       /\ Times("provider.response.received")' = Len(usages)
  <2>1. Len(Happened(Heard)) = Times("provider.response.received")
    BY <1>1, HeardCounted
  <2> QED BY <1>1, <1>6, <1>7, <1>8, <2>1 DEF Asked, Entered
<1>11. /\ published'.kind = "failure" /\ published'.requests = asked
       /\ published'.tools = progress.tools
       /\ published'.usage = Aggregate(usages, asked, FALSE)
       /\ published'.events = FailureEvents(usages, progress.stage)
  BY <1>1, <1>3 DEF Failure
<1>12. FailureEvents(usages, progress.stage) = Happened(Outline)'
  <2> DEFINE before == <<Started>> \o Received(usages)
  <2>1. FailureEvents(usages, progress.stage) = before \o <<failed>>
    BY DEF FailureEvents, Started, failed
  <2>2. before \in Seq(Events)
    <3>1. <<Started>> \in Seq(Events)
      BY EventsTold
    <3>2. Received(usages) \in Seq(Events)
      <4>1. \A u \in Usages : Hearing(u) \in Events
        BY EventsTold
      <4>2. \A i \in DOMAIN usages : usages[i] \in Usages
        BY <1>3
      <4>3. Received(usages) = [i \in 1..Len(usages) |-> Hearing(usages[i])]
        BY <1>3 DEF Received, Hearing
      <4> QED BY <1>3, <4>1, <4>2, <4>3
    <3> QED BY <3>1, <3>2, ConcatProperties
  <2> HIDE DEF before
  <2>3. before \o <<failed>> = Append(before, failed)
    BY <1>2, <2>2, AppendIsConcat
  <2> QED BY <1>5, <1>7, <2>1, <2>3 DEF before
<1>13. published'.usage.requests = asked /\ published'.usage.responses = Len(usages)
  BY <1>11 DEF Aggregate
<1>14. ObservationIsTheRun'
  BY <1>10, <1>11, <1>12, <1>13 DEF ObservationIsTheRun, Outline
<1>15. TotalsCoverTheRun'
  <2> DEFINE heard == Received(usages)
             usage == Aggregate(usages, asked, FALSE)
  <2>0. Covers(usage, usages, asked, FALSE)
    BY <1>3, TotalsRight
  <2>1. /\ \A f \in Fields : usage.totals[f] # None =>
             /\ Len(usages) = asked
             /\ \A i \in DOMAIN heard : heard[i].detail[f] # None
             /\ usage.totals[f] = SumFunction([i \in DOMAIN heard |-> heard[i].detail[f]])
        /\ usage.complete => FALSE
    <3> HIDE DEF usage
    <3> QED BY <2>0 DEF Covers
  <2>2. Happened({"provider.response.received"})' = heard
    BY <1>5, <1>7 DEF Heard
  <2> HIDE DEF heard, usage
  <2>3. published'.usage = usage
    BY <1>11 DEF usage
  <2>4. Len(heard) = Len(usages)
    BY <1>8 DEF heard
  <2> QED BY <1>10, <1>11, <2>1, <2>2, <2>3, <2>4 DEF TotalsCoverTheRun
<1> QED BY <1>1, <1>4, <1>9, <1>14, <1>15 DEF OInv, Shown

LEMMA ToldStep == TInv /\ OInv /\ [Next]_vars => OInv'
<1> SUFFICES ASSUME TInv, OInv, [Next]_vars PROVE OInv'
  OBVIOUS
<1>1. CASE UNCHANGED <<pc, progress, evidence, results, log, published>>
  <2>1. Evident' /\ Told'
    <3>1. \A n : Cycle(n)' = Cycle(n) /\ Opening' = Opening
      BY <1>1, ToldStays
    <3>2. /\ Evident'
          /\ \A i : Entering(i)' = Entering(i) /\ Hearing(i)' = Hearing(i)
          /\ Asking' = Asking /\ Started' = Started
      BY <1>1 DEF OInv, Evident, Entering, Hearing, Asking, Started
    <3>3. Cycle(Len(results))' = Cycle(Len(results))
      BY <1>1, <3>1
    <3> QED BY <1>1, <3>1, <3>2, <3>3 DEF OInv, Told
  <2>2. /\ \A kinds : Happened(kinds)' = Happened(kinds)
        /\ \A kind : Times(kind)' = Times(kind)
    BY <1>1 DEF Happened, Times
  <2>3. Outlined'
    <3>1. Received(evidence.usages)' = Received(evidence.usages)
      BY <1>1 DEF Received
    <3> QED BY <1>1, <2>2, <3>1 DEF OInv, Outlined, Heard, Outline, Started
  <2>4. Shown'
    <3>1. ObservationIsTheRun => ObservationIsTheRun'
      BY <1>1, <2>2 DEF ObservationIsTheRun
    <3>2. TotalsCoverTheRun => TotalsCoverTheRun'
      BY <1>1, <2>2 DEF TotalsCoverTheRun
    <3> QED BY <1>1, <3>1, <3>2 DEF OInv, Shown
  <2> QED BY <2>1, <2>3, <2>4 DEF OInv
<1>2. CASE Expire \/ Over \/ UNCHANGED vars
  BY <1>1, <1>2 DEF Expire, Over, vars
<1>3. CASE ProviderRaises \/ ToolRaises
  BY <1>3, FailKeeps DEF ProviderRaises, ToolRaises, Fail
<1> QED BY <1>2, <1>3, StartKeeps, RequestKeeps, RespondKeeps, ReadFirstKeeps, CallToolKeeps,
           ToolReturnsKeeps, AcceptKeeps, FinishKeeps, NotifyKeeps DEF Next, Step, Host

\* What the turn keeps while it runs - the usages as evidence, the events where it
\* stands, their outline and the acceptances - is enough to tell the run of it.
THEOREM ToldInvariant == Spec => []OInv
<1>1. OInv /\ TInv /\ [Next]_vars => OInv'
  BY ToldStep
<1> QED BY <1>1, InitKeeps, TurnInvariant, PTL DEF Spec

\* What build_success_events, the metrics and _notify_failure publish of a turn is
\* what happened in it, for every number of tool calls.
THEOREM ToldAsItWas == Spec => []ObservationIsTheRun
<1>1. TInv /\ OInv => ObservationIsTheRun
  <2> SUFFICES ASSUME TInv, OInv, published # None PROVE ObservationIsTheRun
    BY DEF ObservationIsTheRun
  <2>1. pc \in {"answered", "failed"}
    BY DEF TInv, Staged
  <2> QED BY <2>1 DEF OInv, Shown
<1> QED BY <1>1, TurnInvariant, ToldInvariant, PTL

\* The totals of _aggregate_run_usage cover every request of the run, and only an
\* answered turn is called complete, for any usages.
THEOREM TotalsCover == Spec => []TotalsCoverTheRun
<1>1. TInv /\ OInv => TotalsCoverTheRun
  <2> SUFFICES ASSUME TInv, OInv, published # None PROVE TotalsCoverTheRun
    BY DEF TotalsCoverTheRun
  <2>1. pc \in {"answered", "failed"}
    BY DEF TInv, Staged
  <2> QED BY <2>1 DEF OInv, Shown
<1> QED BY <1>1, TurnInvariant, ToldInvariant, PTL
=============================================================================
