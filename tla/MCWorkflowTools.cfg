SPECIFICATION ToolsSpec
CONSTANTS
    t1 = t1  t2 = t2  a1 = a1  k1 = k1  k2 = k2  p1 = p1
    s1 = s1  s2 = s2  v1 = v1  v2 = v2
    None = None
    Threads = {t1, t2}
    Models = {t1}
    ActionIds = {a1}
    Keys = {k1, k2}
    Specs = {s1, s2}
    AuthorizedSpecs = {s1, s2}
    FittingSpecs = {s1, s2}
    Versions = {v1, v2}
    Precondition <- OnePrecondition
    ApprovalIds = {p1}
    Times = {0, 1}
    Expiries = {1}
    MaxActions = 2
INVARIANTS
    ToolsTellDecisions
PROPERTIES
    CallsReturn
    RecordsOnlyGrow
    ContractHeld
