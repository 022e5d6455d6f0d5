SPECIFICATION FairSpec
CONSTANTS
    None = None
    c1 = c1
    c2 = c2
    known = known
    other = other
    silent = silent
    Connections <- TwoConnections
    Executions = {1, 2}
    Experiment <- OneExperiment
    Snapshots = {known, other, silent}
    Fields <- OneField
    Declared <- Declarations
    Reasons = {"withdrawn"}
INVARIANTS
    TypeOK
    SchemaWhole
    Compatible
PROPERTIES
    StoreSpec
    CallsEnd
