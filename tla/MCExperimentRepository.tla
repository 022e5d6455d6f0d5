----------------------- MODULE MCExperimentRepository -----------------------
(* Values for checking ExperimentRepository: snapshots that declare one     *)
(* definition, another, and none.                                           *)
EXTENDS ExperimentRepository

CONSTANTS c1, c2, known, other, silent

TwoConnections == {c1, c2}
OneExperiment  == [e \in Executions |-> "x"]
OneField       == {"dataset_version"}
Declarations   == [s \in Snapshots |->
    [f \in Fields |-> IF s = silent THEN None ELSE s]]

=============================================================================
