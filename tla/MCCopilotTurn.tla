---------------------------- MODULE MCCopilotTurn ----------------------------
(* Values for checking CopilotTurn: responses that report every token       *)
(* count, some or none, and results at, below and above the byte limits.    *)
EXTENDS CopilotTurn

FullUsage == [input_tokens |-> 2, output_tokens |-> 1, total_tokens |-> 3]
PartUsage == [input_tokens |-> 0, output_tokens |-> None, total_tokens |-> 4]
NoUsage   == [f \in Fields |-> None]

MCUsages == {FullUsage, PartUsage, NoUsage}
MCResultSizes == 1..3

=============================================================================
