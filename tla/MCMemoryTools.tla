--------------------------- MODULE MCMemoryTools ---------------------------
(* Values for checking MemoryTools: two executions of an experiment within  *)
(* the scope and one of another; snapshots that agree, that differ in a     *)
(* required field, and that lack a metric and a declaration.                *)
EXTENDS MemoryTools, TLC

CONSTANTS tools, host, full, differing, silent

BothClients  == {tools, host}
ThreeSnapshots == {full, differing, silent}
TwoExperiments == [e \in Executions |-> IF e <= 2 THEN "mine" ELSE "theirs"]
OneField     == {"dataset_version"}
Declarations == [s \in Snapshots |-> [f \in Fields |-> None]]

TwoFields   == {"split_id"}
Provenances == [s \in Snapshots |->
    [f \in FilterFields |-> IF s = silent THEN None ELSE "test"]]
NoneOrSplit == {<<>>, [f \in {"split_id"} |-> "test"]}

Required    == {"task", "direction"}
MetricSets  == [s \in Snapshots |-> [m \in MetricNames |->
    IF s = silent THEN IF m = "auc" THEN [f \in RequiredFields |-> None] ELSE None
    ELSE [f \in RequiredFields |->
             IF f = "direction" THEN IF s = full THEN "max" ELSE None
             ELSE IF s = full THEN "detect" ELSE "count"]]]
Sizes       == [s \in Snapshots |-> 1]

=============================================================================
