----------------------------- MODULE CopilotTurn -----------------------------
(***************************************************************************)
(* One bounded Copilot turn: a provider request, at most one cycle of tool *)
(* calls, a follow-up request when there were any, and the observation     *)
(* that is published of a turn that answered or failed.                    *)
(*                                                                         *)
(* The control is that of _run_tool_call_cycle_with_trace and the runtime  *)
(* around it, with every deadline checkpoint where the code has it.  The   *)
(* payloads are abstracted to what the code decides on: how many tools a   *)
(* response calls and what is wrong with it, how many bytes a serialized   *)
(* result takes, which token counts a response reports.  The provider and  *)
(* the tools are external: each call may return anything or raise.         *)
(***************************************************************************)
EXTENDS Integers, Sequences, FiniteSets, SequencesExt

CONSTANTS
    MaxCalls,        \* bound: tool calls in one response
    ResultSizes,     \* bytes a serialized tool result may take
    MaxResultBytes,  \* MAX_TOOL_RESULT_BYTES
    MaxCycleBytes,   \* MAX_TOOL_RESULTS_PER_CYCLE_BYTES
    Usages,          \* usage reports of a response: token counts by field
    None             \* absence of a value

Fields == {"input_tokens", "output_tokens", "total_tokens"}

ASSUME TurnAssumption ==
    /\ MaxCalls \in Nat
    /\ ResultSizes \subseteq Nat
    /\ MaxResultBytes \in Nat
    /\ MaxCycleBytes \in Nat
    /\ None \notin Nat
    /\ Usages \subseteq [Fields -> Nat \cup {None}]

\* A provider response: how many tools it calls, and its first flaw.  "message"
\* stands for choices, message, role or content of a wrong shape, "calls" for a
\* malformed tool call, "text" for content that is absent or blank.
Responses ==
    {r \in [calls : 0..MaxCalls, flaw : {"none", "message", "calls", "text"}] :
        r.flaw = "calls" => r.calls > 0}

Stages == {"input_validation", "first_provider_request",
           "first_provider_response_validation", "tool_call_validation",
           "tool_execution", "tool_result_serialization",
           "second_provider_request", "final_response_validation"}

VARIABLES
    pc,         \* where the turn is
    deadline,   \* _TURN_DEADLINE: none, running, or past
    progress,   \* the _ProgressState of the turn
    evidence,   \* the _ProviderEvidence of the turn
    response,   \* the last provider response
    calls,      \* len(validated_calls) of the cycle
    result,     \* bytes of the tool result being serialized, None: not JSON
    results,    \* bytes of each tool message, in order
    bytes,      \* cumulative_result_bytes
    error,      \* what the turn raised
    log,        \* history: the events of the run as they happened
    published   \* the observation handed to the caller or to on_failure

vars == <<pc, deadline, progress, evidence, response, calls, result, results,
          bytes, error, log, published>>

Event(kind, detail) == [kind |-> kind, detail |-> detail]
Happens(kind, detail) == log' = Append(log, Event(kind, detail))

Init ==
    /\ pc = "start"
    /\ deadline \in {"none", "running"}
    /\ progress = [stage |-> "input_validation", requests |-> 0, tools |-> 0]
    /\ evidence = [requests |-> 0, usages |-> <<>>]
    /\ response = None
    /\ calls = 0
    /\ result = None
    /\ results = <<>>
    /\ bytes = 0
    /\ error = None
    /\ log = <<Event("run.started", None)>>
    /\ published = None

-----------------------------------------------------------------------------
(* What the observation of a turn says                                     *)

\* Mutant of Aggregate: requests nobody answered do not void the totals.
AggregateAnswers(usages, requests, success) ==
    LET reported(f) == usages # <<>> /\ \A i \in DOMAIN usages : usages[i][f] # None
        total(f) == IF reported(f)
                    THEN SumFunction([i \in DOMAIN usages |-> usages[i][f]])
                    ELSE None
        totals == [f \in Fields |-> total(f)]
    IN [totals |-> totals,
        requests |-> requests,
        responses |-> Len(usages),
        reports |-> Cardinality({i \in DOMAIN usages : \E f \in Fields : usages[i][f] # None}),
        complete |-> success /\ \A f \in Fields : totals[f] # None]

\* _aggregate_run_usage: a total only when every request was answered and every
\* answer reported the field.
Aggregate(usages, requests, success) ==
    LET answered == requests > 0 /\ Len(usages) = requests
        reported(f) == \A i \in DOMAIN usages : usages[i][f] # None
        total(f) == IF answered /\ reported(f)
                    THEN SumFunction([i \in DOMAIN usages |-> usages[i][f]])
                    ELSE None
        totals == [f \in Fields |-> total(f)]
    IN [totals |-> totals,
        requests |-> requests,
        responses |-> Len(usages),
        reports |-> Cardinality({i \in DOMAIN usages : \E f \in Fields : usages[i][f] # None}),
        complete |-> success /\ \A f \in Fields : totals[f] # None]

Received(usages) ==
    [i \in DOMAIN usages |-> Event("provider.response.received", usages[i])]

\* Mutant of SuccessEvents: the tool cycle is told after every response.
CycleInEveryExchange(requests, usages, tools) ==
    LET invocation(i) == <<Event("tool.execution.started", i),
                           Event("tool.result.accepted", i)>>
        cycle == <<Event("tool.calls.validation.started", None)>>
                 \o FlattenSeq([i \in 1..tools |-> invocation(i)])
        exchange(r) ==
            <<Event("provider.request.started", None), Received(usages)[r]>>
            \o (IF tools > 0 THEN cycle ELSE <<>>)
    IN <<Event("run.started", None)>>
       \o FlattenSeq([r \in 1..requests |-> exchange(r)])
       \o <<Event("run.completed", None)>>

\* _build_success_events: the run told from its counts once it is over.
SuccessEvents(requests, usages, tools) ==
    LET invocation(i) == <<Event("tool.execution.started", i),
                           Event("tool.result.accepted", i)>>
        cycle == <<Event("tool.calls.validation.started", None)>>
                 \o FlattenSeq([i \in 1..tools |-> invocation(i)])
        exchange(r) ==
            <<Event("provider.request.started", None)>>
            \o (IF r > Len(usages) THEN <<>> ELSE
                <<Received(usages)[r]>>
                \o (IF r = 1 /\ tools > 0 THEN cycle ELSE <<>>))
    IN <<Event("run.started", None)>>
       \o FlattenSeq([r \in 1..requests |-> exchange(r)])
       \o <<Event("run.completed", None)>>

\* The run as _notify_failure tells it.
FailureEvents(usages, stage) ==
    <<Event("run.started", None)>> \o Received(usages)
    \o <<Event("run.failed", stage)>>

\* The CopilotObservedResult of a turn that answered: the metrics infer the
\* number of requests from the number of tools.
Observed ==
    LET tools == Len(results)
    IN [kind |-> "answer", stage |-> None,
        requests |-> IF tools = 0 THEN 1 ELSE 2,
        tools |-> tools,
        usage |-> Aggregate(evidence.usages, evidence.requests, TRUE),
        events |-> SuccessEvents(evidence.requests, evidence.usages, tools)]

\* The CopilotFailureObservation of a turn that raised.
Failure ==
    [kind |-> "failure", stage |-> progress.stage,
     requests |-> progress.requests,
     tools |-> progress.tools,
     usage |-> Aggregate(evidence.usages, evidence.requests, FALSE),
     events |-> FailureEvents(evidence.usages, progress.stage)]

-----------------------------------------------------------------------------
(* The turn                                                                *)

OnTime == deadline # "past"

\* The turn raises: what is left is to tell on_failure.
Fail(what) == pc' = "failing" /\ error' = what

\* A _check_turn_deadline on the way to the rest of the step.
Checked(rest) ==
    \/ OnTime /\ rest /\ UNCHANGED error
    \/ ~OnTime /\ Fail("timeout")

Reach(stage) == progress' = [progress EXCEPT !.stage = stage]

\* The time of the turn runs out, at any moment of it.
Expire ==
    /\ deadline = "running"
    /\ pc \notin {"start", "failing", "answered", "failed"}
    /\ deadline' = "past"
    /\ UNCHANGED <<pc, progress, evidence, response, calls, result, results,
                   bytes, error, log, published>>

\* Question, context, options and timeout are validated and the messages built,
\* before the deadline starts to count.
Start ==
    /\ pc = "start"
    /\ \/ pc' = "request" /\ UNCHANGED error
       \/ Fail("invalid")
    /\ UNCHANGED <<deadline, progress, evidence, response, calls, result,
                   results, bytes, log, published>>

\* Mutant of Request: the follow-up is sent without a look at the deadline.
RequestUnchecked ==
    /\ pc = "request"
    /\ progress' = [progress EXCEPT
           !.requests = @ + 1,
           !.stage = IF progress.requests = 0 THEN "first_provider_request"
                     ELSE "second_provider_request"]
    /\ evidence' = [evidence EXCEPT !.requests = @ + 1]
    /\ Happens("provider.request.started", None)
    /\ pc' = "awaiting"
    /\ UNCHANGED <<deadline, response, calls, result, results, bytes, error,
                   published>>

\* Mutant of Request: a late turn has reached the stage of the next request.
StageBeforeCheck ==
    /\ pc = "request"
    /\ Reach(IF progress.requests = 0 THEN "first_provider_request"
             ELSE "second_provider_request")
    /\ Checked(pc' = "awaiting")
    /\ IF OnTime
       THEN /\ evidence' = [evidence EXCEPT !.requests = @ + 1]
            /\ Happens("provider.request.started", None)
       ELSE UNCHANGED <<evidence, log>>
    /\ UNCHANGED <<deadline, response, calls, result, results, bytes, published>>

\* _create_tool_call_response up to the provider call: a late turn leaves
\* before the request is counted, and so does one whose model name is refused or
\* whose tools cannot be listed, in time or not.
Request ==
    /\ pc = "request"
    /\ \/ /\ OnTime
          /\ progress' = [progress EXCEPT
                 !.requests = @ + 1,
                 !.stage = IF progress.requests = 0 THEN "first_provider_request"
                           ELSE "second_provider_request"]
          /\ evidence' = [evidence EXCEPT !.requests = @ + 1]
          /\ Happens("provider.request.started", None)
          /\ pc' = "awaiting"
          /\ UNCHANGED error
       \/ /\ Fail("invalid") \/ (~OnTime /\ Fail("timeout"))
          /\ UNCHANGED <<progress, evidence, log>>
    /\ UNCHANGED <<deadline, response, calls, result, results, bytes, published>>

\* The provider answers: the response is evidence even when it comes too late.
Respond ==
    /\ pc = "awaiting"
    /\ \E r \in Responses, u \in Usages :
        /\ response' = r
        /\ evidence' = [evidence EXCEPT !.usages = Append(@, u)]
        /\ Happens("provider.response.received", u)
    /\ Reach(IF progress.requests = 1 THEN "first_provider_response_validation"
             ELSE "final_response_validation")
    /\ Checked(pc' = IF progress.requests = 1 THEN "reading" ELSE "closing")
    /\ UNCHANGED <<deadline, calls, result, results, bytes, published>>

\* The provider call raises, or is interrupted.
ProviderRaises ==
    /\ pc = "awaiting"
    /\ Fail("provider")
    /\ UNCHANGED <<deadline, progress, evidence, response, calls, result,
                   results, bytes, log, published>>

\* _build_assistant_tool_call_message on the first response, and the second
\* validation of the same calls at the head of _execute_tool_calls.
ReadFirst ==
    /\ pc = "reading"
    /\ \/ /\ response.flaw = "message"
          /\ Fail("invalid")
          /\ UNCHANGED <<progress, calls, log>>
       \/ /\ response.flaw # "message"
          /\ response.calls = 0
          /\ pc' = "closing"
          /\ UNCHANGED <<progress, calls, error, log>>
       \/ /\ response.flaw # "message"
          /\ response.calls > 0
          /\ Reach("tool_call_validation")
          /\ Happens("tool.calls.validation.started", None)
          /\ \/ /\ response.flaw = "calls"
                /\ Fail("invalid")
                /\ UNCHANGED calls
             \/ /\ response.flaw # "calls"
                /\ calls' = response.calls
                /\ pc' = "tools"
                /\ UNCHANGED error
    /\ UNCHANGED <<deadline, evidence, response, result, results, bytes, published>>

\* The head of the loop over the validated calls.
CallTool ==
    /\ pc = "tools"
    /\ Checked(pc' = "invoking")
    /\ IF OnTime
       THEN /\ progress' = [progress EXCEPT !.stage = "tool_execution",
                                            !.tools = @ + 1]
            /\ Happens("tool.execution.started", Len(results) + 1)
       ELSE UNCHANGED <<progress, log>>
    /\ UNCHANGED <<deadline, evidence, response, calls, result, results, bytes,
                   published>>

\* The path policy and the tool return a result, JSON or not.
ToolReturns ==
    /\ pc = "invoking"
    /\ Checked(pc' = "serializing")
    /\ IF OnTime
       THEN /\ Reach("tool_result_serialization")
            /\ result' \in ResultSizes \cup {None}
       ELSE UNCHANGED <<progress, result>>
    /\ UNCHANGED <<deadline, evidence, response, calls, results, bytes, log,
                   published>>

\* The path policy refuses the arguments, or the tool raises.
ToolRaises ==
    /\ pc = "invoking"
    /\ Fail("tool")
    /\ UNCHANGED <<deadline, progress, evidence, response, calls, result,
                   results, bytes, log, published>>

\* Mutant of WithinLimits: each result is measured, their sum is not.
EachWithinLimit == result # None /\ result <= MaxResultBytes

\* _validate_tool_result_bytes.
WithinLimits ==
    /\ result # None
    /\ result <= MaxResultBytes
    /\ bytes + result <= MaxCycleBytes

\* The rest of the loop body; after the last call the follow-up is asked.
Accept ==
    /\ pc = "serializing"
    /\ \/ /\ WithinLimits
          /\ Checked(pc' = IF Len(results) + 1 = calls THEN "request" ELSE "tools")
          /\ bytes' = bytes + result
          /\ IF OnTime
             THEN /\ results' = Append(results, result)
                  /\ Happens("tool.result.accepted", Len(results) + 1)
             ELSE UNCHANGED <<results, log>>
       \/ /\ ~WithinLimits
          /\ Fail("invalid")
          /\ UNCHANGED <<results, bytes, log>>
    /\ UNCHANGED <<deadline, progress, evidence, response, calls, result,
                   published>>

\* _extract_final_content.
IsAnswer == response.flaw = "none" /\ response.calls = 0

\* The tail of _run_copilot_turn_with_result, and the observed result.
Finish ==
    /\ pc = "closing"
    /\ \/ /\ IsAnswer
          /\ Checked(pc' = "answered")
          /\ IF OnTime
             THEN published' = Observed /\ Happens("run.completed", None)
             ELSE UNCHANGED <<published, log>>
       \/ /\ ~IsAnswer
          /\ Fail("invalid")
          /\ UNCHANGED <<published, log>>
    /\ UNCHANGED <<deadline, progress, evidence, response, calls, result,
                   results, bytes>>

\* Mutant of Notify: the exception leaves before on_failure is told.
NotifyNobody ==
    /\ pc = "failing"
    /\ Happens("run.failed", progress.stage)
    /\ pc' = "failed"
    /\ UNCHANGED <<deadline, progress, evidence, response, calls, result,
                   results, bytes, error, published>>

\* _notify_failure: whatever on_failure does, the turn raises what it raised.
Notify ==
    /\ pc = "failing"
    /\ published' = Failure
    /\ Happens("run.failed", progress.stage)
    /\ pc' = "failed"
    /\ UNCHANGED <<deadline, progress, evidence, response, calls, result,
                   results, bytes, error>>

Step == \/ Start \/ Request \/ ReadFirst \/ CallTool \/ Accept \/ Finish \/ Notify
Host == \/ Respond \/ ProviderRaises \/ ToolReturns \/ ToolRaises

\* The turn is over; its outcome stays.
Over == pc \in {"answered", "failed"} /\ UNCHANGED vars

Next == Step \/ Host \/ Expire \/ Over

Spec == Init /\ [][Next]_vars

\* The turn's own code runs on, and the provider and the tools come back with a
\* value or an exception.  The deadline need never pass.
FairSpec == Spec /\ WF_vars(Step) /\ WF_vars(Host)

-----------------------------------------------------------------------------
(* What must hold                                                          *)

\* The events of these kinds, in their order.
Happened(kinds) ==
    LET at == {i \in DOMAIN log : log[i].kind \in kinds}
    IN [n \in 1..Cardinality(at) |->
           log[CHOOSE i \in at : Cardinality({j \in at : j < i}) = n - 1]]

Times(kind) == Cardinality({i \in DOMAIN log : log[i].kind = kind})

\* What is published of a turn is what happened.  The events of an answered turn,
\* rebuilt from counts after the fact (_build_success_events), are those that
\* happened in their order; those of a failed turn are its start, its responses
\* and its end.  So are the counts of the metrics (one request or two, told from
\* the number of tools) and of the usage evidence: a failed turn counts the tools
\* it entered, an answered one those it accepted.
ObservationIsTheRun ==
    published # None =>
        /\ published.events =
               IF published.kind = "answer" THEN log
               ELSE Happened({"run.started", "provider.response.received", "run.failed"})
        /\ published.requests = Times("provider.request.started")
        /\ published.usage.requests = published.requests
        /\ published.usage.responses = Times("provider.response.received")
        /\ published.tools = Times("tool.execution.started")
        /\ published.kind = "answer" =>
               published.tools = Times("tool.result.accepted")

\* Token totals never cover less than the run: a total is there only when every
\* request that was started got a response that reported the field, and it is
\* their sum; only an answered turn is called complete.
TotalsCoverTheRun ==
    LET heard == Happened({"provider.response.received"})
    IN published # None =>
        /\ \A f \in Fields : published.usage.totals[f] # None =>
            /\ Len(heard) = Times("provider.request.started")
            /\ \A i \in DOMAIN heard : heard[i].detail[f] # None
            /\ published.usage.totals[f] =
                   SumFunction([i \in DOMAIN heard |-> heard[i].detail[f]])
        /\ published.usage.complete =>
            /\ published.kind = "answer"
            /\ \A f \in Fields : published.usage.totals[f] # None

\* The stages a run may be in after an event of this kind, when it has sent this
\* many requests.
StagesAfter(kind, asked) ==
    CASE kind = "run.started" -> {"input_validation"}
      [] kind = "provider.request.started" ->
           {IF asked = 1 THEN "first_provider_request" ELSE "second_provider_request"}
      [] kind = "provider.response.received" ->
           {IF asked = 1 THEN "first_provider_response_validation"
            ELSE "final_response_validation"}
      [] kind = "tool.calls.validation.started" -> {"tool_call_validation"}
      [] kind = "tool.execution.started" -> {"tool_execution", "tool_result_serialization"}
      [] kind = "tool.result.accepted" -> {"tool_result_serialization"}

\* The stage a failure names is where the run stopped: it agrees with the last
\* thing that happened, over every checkpoint a deadline can fail at.
StageIsWhereItFailed ==
    published # None /\ published.kind = "failure" =>
        published.stage \in
            StagesAfter(log[Len(log) - 1].kind, Times("provider.request.started"))

\* Sizes whose partial sums stay within a limit.
AddUpWithin(sizes, limit) ==
    \E sums \in [0..Len(sizes) -> 0..limit] :
        sums[0] = 0 /\ \A i \in DOMAIN sizes : sums[i] = sums[i - 1] + sizes[i]

\* The follow-up request is asked at most once, and only when every call of the
\* first response ran and every result was accepted within the byte limits.
FollowUpCarriesEveryResult ==
    /\ Times("provider.request.started") <= 2
    /\ Times("provider.request.started") = 2 =>
        /\ calls > 0
        /\ Times("tool.execution.started") = calls
        /\ Len(results) = calls
        /\ \A i \in DOMAIN results : results[i] <= MaxResultBytes
        /\ AddUpWithin(results, MaxCycleBytes)

\* Once the deadline has passed no request is sent, no tool is entered, no
\* result is accepted and no answer is given; a response may still arrive.
NothingStartsLate ==
    [][log' # log /\ deadline = "past" =>
           Last(log').kind \in {"provider.response.received", "run.failed",
                                "tool.calls.validation.started"}]_vars

\* A turn ends, with an answer or an exception, and one observation is published
\* of it: the provider and the tools come back, and the cycle is bounded.
TurnEnds == <>(pc \in {"answered", "failed"} /\ published # None)

=============================================================================
