---------------------------- MODULE MCBoundTools ----------------------------
(* Values for checking BoundTools: two artifacts; two groups of two          *)
(* executions, each with one metric, that agree in full, differ in their     *)
(* numbers, and are paired one to one.                                       *)
EXTENDS BoundTools

CONSTANTS ab, AB, cd, full, differing, silent

SomeDigests == {ab, AB, cd}
LowerCase   == [x \in SomeDigests |-> IF x = AB THEN ab ELSE x]

FourExecutions == 1..4
TwoExperiments == [e \in FourExecutions |-> IF e <= 2 THEN "base" ELSE "candidate"]
OneField       == {"dataset_version"}
TwoFields      == {"dataset_version", "direction"}
ThreeSnapshots == {full, differing, silent}
Declarations   == [s \in ThreeSnapshots |-> [f \in OneField |-> IF s = silent THEN None ELSE s]]

Group(x, roster, number) ==
    [experiment |-> x, protocol |-> "p",
     seeds      |-> [e \in roster |-> None],
     snapshots  |-> [e \in roster |->
         [declares |-> full, seed |-> 7, protocol |-> "p",
          evidence |-> [t \in Targets |-> [fault |-> "none", value |-> number[e]]]]],
     section    |-> [t \in Targets |-> "test"],
     selectors  |-> [t \in Targets |-> [e \in roster |->
         [f \in SelectorFields |-> "minimize"]]]]

Together ==
    [a       |-> Group("base", {1, 2}, <<0, 1>>),
     b       |-> Group("candidate", {3, 4}, <<0, 0, 2, 0>>),
     pairs   |-> {[a |-> 1, b |-> 3], [a |-> 2, b |-> 4]},
     mapping |-> {[a |-> t, b |-> t] : t \in Targets}]

\* A snapshot without the metric, and one pair only.
Apart == [Together EXCEPT
    !.a.snapshots[1].evidence = [t \in Targets |-> [fault |-> "metric_missing", value |-> 0]],
    !.pairs = {[a |-> 2, b |-> 3]}]

\* Little is declared on either side.
Silent == [Together EXCEPT
    !.a.snapshots[2].declares = silent, !.b.protocol = None]

MCFirstGroups == {Together, Apart, Silent}
MCNumbers == {-1, 0, 2}
=============================================================================
