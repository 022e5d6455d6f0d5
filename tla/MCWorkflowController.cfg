SPECIFICATION Spec
CONSTANTS
    t1 = t1  t2 = t2  a1 = a1  a2 = a2   k1 = k1  k2 = k2   p1 = p1  p2 = p2
    s1 = s1  v1 = v1  v2 = v2
    None = None
    Threads = {t1, t2}
    ActionIds = {a1, a2}
    Keys = {k1, k2}
    Specs = {s1}
    AuthorizedSpecs = {s1}
    FittingSpecs = {s1}
    Versions = {v1, v2}
    Precondition <- OnePrecondition
    ApprovalIds = {p1, p2}
    Times = {0, 1}
    Expiries = {1}
    MaxActions = 2
SYMMETRY Symmetry
INVARIANTS
    TypeOK
    AtMostOneSimulation
    SimulationIsGranted
    OutcomeIsTheSimulators
    KeysBindOneAction
