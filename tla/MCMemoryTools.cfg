SPECIFICATION Spec

CONSTANTS
    None = None
    tools = tools
    host = host
    full = full
    differing = differing
    silent = silent
    Executions = {1, 2, 3}
    Experiment <- TwoExperiments
    Snapshots <- ThreeSnapshots
    Fields <- OneField
    Declared <- Declarations
    Reasons = {"withdrawn"}
    Clients <- BothClients
    Tool = tools
    Allowed = {"mine"}
    AllowInvalidated = TRUE
    Limits = {1, 2}
    FilterFields <- TwoFields
    Provenance <- Provenances
    Filters <- NoneOrSplit
    MetricNames = {"auc", "f1"}
    RequiredFields <- Required
    Metrics <- MetricSets
    Size <- Sizes
    MaxResultBytes = 2

INVARIANTS
    NothingHidden
    FirstMatches
    SelfConsistent
