---------------------------- MODULE WorkflowTools ----------------------------
(***************************************************************************)
(* The three model tools of tool_layer/workflow_tools.py over a borrowed   *)
(* WorkflowController.  A call of a tool is one controller operation, or,  *)
(* for simulate_approved_action, a lookup, a question to the host's        *)
(* approval provider and an execute, each on its own: other calls and the  *)
(* host's decisions fall in between.  Only a projection of the record, or  *)
(* an error code, reaches the model.                                       *)
(*                                                                         *)
(* The schema checks of arguments are one refusal of malformed ones; the   *)
(* identity provider may hand out any identifier with any key, the         *)
(* approval provider anything the host holds, and both may raise.          *)
(***************************************************************************)
EXTENDS WorkflowController

CONSTANT Models  \* the threads in which a model calls tools

ASSUME ModelsAssumption == Models \subseteq Threads

VARIABLES
    scope,  \* the principal of the tools' scope, fixed when they are made
    turn,   \* the tool call in each thread: the action looked up, the grant
    told    \* what a tool call that ends in this step answers, None otherwise

tools == <<scope, turn, told>>
toolVars == <<vars, tools>>

Tools == {"propose", "get", "simulate"}
Bad   == {"failed", "stale", "rejected", "uncertain"}

ToolsInit == /\ Init
             /\ scope \in Callers
             /\ turn = [t \in Models |-> None]
             /\ told = None

----------------------------------------------------------------------------
(* What reaches the model *)

\* record["result"]["code"], None while there is no result.
Code(s) == IF s \in Terminal THEN s ELSE None

\* _project
Project(tool, a, s) ==
    [tool |-> tool, ok |-> s \notin Bad, action |-> a, state |-> s, code |-> Code(s)]

\* _error
Refused(tool, code) ==
    [tool |-> tool, ok |-> FALSE, action |-> None, state |-> None, code |-> code]

\* What a call that the controller answered, or refused, tells; any other
\* exception goes through to the caller of the tool.
Tell(t, tool) ==
    /\ turn' = [turn EXCEPT ![t] = None]
    /\ told' = IF reply'.told = "raised" THEN None
               ELSE IF reply'.told \in Errors THEN Refused(tool, reply'.told)
               ELSE Project(tool, reply'.action, reply'.told)

Free(t) == turn[t] = None /\ pc[t] = "idle"

----------------------------------------------------------------------------
(* The tools *)

\* Malformed arguments are told before anything is looked at.
Malformed(t) ==
    /\ Free(t)
    /\ \E tool \in Tools, code \in {"invalid_arguments", "unsupported_option"} :
          told' = Refused(tool, code)
    /\ UNCHANGED <<vars, scope, turn>>

\* The identity provider, or the making of the spec, raises.
IdentityRaises(t) ==
    /\ Free(t) /\ told' = None
    /\ UNCHANGED <<vars, scope, turn>>

ProposeTool(t) ==
    /\ Free(t)
    /\ \E s \in Specs, a \in ActionIds, k \in Keys : Propose(t, scope, s, a, k)
    /\ Tell(t, "propose")
    /\ UNCHANGED scope

GetTool(t) ==
    /\ Free(t)
    /\ \E a \in ActionIds : Get(t, scope, a)
    /\ Tell(t, "get")
    /\ UNCHANGED scope

\* Mutant of Look: the provider is asked without a look at the ledger.
LookNowhere(t) ==
    /\ Free(t)
    /\ \E a \in ActionIds : turn' = [turn EXCEPT ![t] =
          [stage |-> "looked", action |-> a, state |-> state[a], grant |-> None]]
    /\ told' = None
    /\ UNCHANGED <<vars, scope>>

\* The lookup that authorizes a simulation.
Look(t) ==
    /\ Free(t)
    /\ \E a \in ActionIds :
         /\ Get(t, scope, a)
         /\ \/ /\ reply'.action = a
               /\ turn' = [turn EXCEPT ![t] =
                     [stage |-> "looked", action |-> a, state |-> state[a], grant |-> None]]
               /\ told' = None
            \/ /\ reply'.action = None
               /\ Tell(t, "simulate")
    /\ UNCHANGED scope

\* The approval provider, outside the controller's lock.
AskProvider(t) ==
    /\ turn[t] # None /\ turn[t].stage = "looked"
    /\ \/ \E grant \in Held :
             turn' = [turn EXCEPT ![t].stage = "granted", ![t].grant = grant]
       \/ turn' = [turn EXCEPT ![t] = None]
    /\ told' = None
    /\ UNCHANGED <<vars, scope>>

\* Mutant of Settled: the answer projects the record that was looked up.
SettledAsLooked(t) ==
    IF pc'[t] = "idle"
    THEN /\ turn' = [turn EXCEPT ![t] = None]
         /\ told' = Project("simulate", turn[t].action, turn[t].state)
    ELSE turn' = [turn EXCEPT ![t].stage = "executing"] /\ told' = None

\* execute is over when its thread is out of it.
Settled(t) ==
    IF pc'[t] = "idle" THEN Tell(t, "simulate")
    ELSE turn' = [turn EXCEPT ![t].stage = "executing"] /\ told' = None

ExecuteTool(t) ==
    /\ turn[t] # None /\ turn[t].stage = "granted"
    /\ \E now \in Readings : Execute(t, scope, turn[t].action, turn[t].grant, now)
    /\ Settled(t)
    /\ UNCHANGED scope

\* The steps of execute itself.
Executing(t, Steps) ==
    /\ turn[t] # None /\ turn[t].stage = "executing"
    /\ Steps /\ Settled(t)
    /\ UNCHANGED scope

\* The host decides, and may execute on its own, with the controller's scope.
Decision(t) == \E a \in ActionIds, now \in Readings :
    \/ \E id \in ApprovalIds, expires \in Expiries :
          Approve(t, "principal", a, id, expires, now)
    \/ Reject(t, "principal", a, now)
    \/ \E grant \in Held : Execute(t, "principal", a, grant, now)

\* The host calls the controller itself, from its own threads.
Host(t, Steps) == Steps /\ told' = None /\ UNCHANGED <<scope, turn>>

----------------------------------------------------------------------------

Call(t) == ProposeTool(t) \/ GetTool(t) \/ Look(t) \/ Malformed(t) \/ IdentityRaises(t)

Tool(t) ==
    \/ Call(t) \/ AskProvider(t) \/ ExecuteTool(t)
    \/ Executing(t, UnderLock(t)) \/ Executing(t, Run(t)) \/ Executing(t, Settle(t))

Threaded(t) == Decision(t) \/ UnderLock(t) \/ Run(t) \/ Settle(t)

ToolsNext ==
    \/ \E t \in Models : Tool(t)
    \/ \E t \in Threads \ Models : Host(t, Threaded(t))

\* The providers, the target and the simulator return, and a thread waiting
\* for the lock gets it in the end although others keep taking it.
ToolsFairness ==
    /\ \A t \in Models :
        /\ WF_toolVars(AskProvider(t)) /\ SF_toolVars(ExecuteTool(t))
        /\ WF_toolVars(Executing(t, UnderLock(t))) /\ WF_toolVars(Executing(t, Run(t)))
        /\ SF_toolVars(Executing(t, Settle(t)))
    /\ \A t \in Threads \ Models :
        /\ WF_toolVars(Host(t, UnderLock(t))) /\ WF_toolVars(Host(t, Run(t)))
        /\ SF_toolVars(Host(t, Settle(t)))

SafeToolsSpec == ToolsInit /\ [][ToolsNext]_toolVars
ToolsSpec == SafeToolsSpec /\ ToolsFairness

----------------------------------------------------------------------------

\* The provider is asked for approvals of stored actions only, by tools of the
\* controller's own scope.
ProviderAfterAuthority ==
    \A t \in Models : turn[t] # None =>
        scope = "principal" /\ turn[t].action \in Stored /\ spec[turn[t].action] \in AuthorizedSpecs

(* What a simulate call tells of an action was decided by the host and done  *)
(* by the controller, whatever was approved, rejected or executed since the  *)
(* call looked the action up: the host issued an approval of it; it is never *)
(* still proposed; a settled state is final; success stands for one run that *)
(* echoed; and a failure always names its code.  The approval provider is    *)
(* not consulted for callers and actions without authority (invoke_tool).    *)
ToolsTellDecisions ==
    /\ ProviderAfterAuthority
    /\ told # None /\ told.state # None =>
        LET a == told.action
            s == told.state
        IN  /\ state[a] = s
            /\ s = "succeeded" => runs[a] = <<"echo">>
            /\ ~told.ok => told.code # None
            /\ told.tool = "simulate" => s # "proposed" /\ approval[a] # None

(* Every tool call answers, however others hold the lock in between, and no  *)
(* action it reserved stays executing: whatever the target, the simulator    *)
(* and the clock do, it is settled and the lock is free again                *)
(* (invoke_tool, execute).                                                   *)
CallsReturn ==
    /\ \A t \in Models : turn[t] # None ~> turn[t] = None
    /\ \A a \in ActionIds : state[a] = "executing" ~> state[a] \in Terminal
=============================================================================
