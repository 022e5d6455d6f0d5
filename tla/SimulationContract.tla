------------------------- MODULE SimulationContract -------------------------
(***************************************************************************)
(* What the workflow controller promises about each action, with no        *)
(* threads, lock, clock or target: an action is proposed, may be granted   *)
(* once, is closed without a run or reserved against its grant, runs once  *)
(* and is settled after its run; settled and closed actions never change.  *)
(***************************************************************************)
EXTENDS Naturals

CONSTANT Actions

VARIABLES
    phase,   \* of each action
    grant,   \* "none", "available" or "consumed"
    ran      \* how often the simulator ran for it

vars == <<phase, grant, ran>>

Init ==
    /\ phase = [a \in Actions |-> "absent"]
    /\ grant = [a \in Actions |-> "none"]
    /\ ran = [a \in Actions |-> 0]

Open(a) ==
    /\ phase[a] = "absent"
    /\ phase' = [phase EXCEPT ![a] = "proposed"]
    /\ UNCHANGED <<grant, ran>>

Grant(a) ==
    /\ phase[a] = "proposed" /\ grant[a] = "none"
    /\ grant' = [grant EXCEPT ![a] = "available"]
    /\ UNCHANGED <<phase, ran>>

Close(a) ==
    /\ phase[a] = "proposed"
    /\ phase' = [phase EXCEPT ![a] = "closed"]
    /\ UNCHANGED <<grant, ran>>

Reserve(a) ==
    /\ phase[a] = "proposed" /\ grant[a] = "available"
    /\ phase' = [phase EXCEPT ![a] = "reserved"]
    /\ grant' = [grant EXCEPT ![a] = "consumed"]
    /\ UNCHANGED ran

Simulate(a) ==
    /\ phase[a] = "reserved" /\ ran[a] = 0
    /\ ran' = [ran EXCEPT ![a] = 1]
    /\ UNCHANGED <<phase, grant>>

Settle(a) ==
    /\ phase[a] = "reserved" /\ ran[a] = 1
    /\ phase' = [phase EXCEPT ![a] = "settled"]
    /\ UNCHANGED <<grant, ran>>

Next == \E a \in Actions :
    Open(a) \/ Grant(a) \/ Close(a) \/ Reserve(a) \/ Simulate(a) \/ Settle(a)

Spec == Init /\ [][Next]_vars
=============================================================================
