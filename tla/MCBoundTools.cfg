SPECIFICATION BoundSpec

CONSTANTS
    None = None
    ab = ab
    AB = AB
    cd = cd
    full = full
    differing = differing
    silent = silent
    Ids = {1, 2}
    Sizes = {}
    Digests <- SomeDigests
    Locators = {}
    Lower <- LowerCase
    Known = {"observed", "missing"}
    ForeignStatus = "verified"
    MaxEntries = 2
    Executions <- FourExecutions
    Experiment <- TwoExperiments
    Fields <- OneField
    RequiredFields <- TwoFields
    Snapshots <- ThreeSnapshots
    Declared <- Declarations
    Reasons = {}
    Targets = {"auc"}
    MaxRoster = 2
    MaxFloat = 2
    Seeds = {7, 8}
    ProtocolRefs = {"p", "q"}
    Numbers <- MCNumbers
    SomeFaults = {"none", "metric_missing", "invalid_numeric_observation", "evidence_kind_mismatch"}
    SelectorValues = {"maximize", "minimize"}
    FirstGroups <- MCFirstGroups
    MaxEdits = 2

INVARIANTS
    AgreementIsShown
    ConflictsNeverCounted
    ComparisonsAgree
