SPECIFICATION Spec

CONSTANTS
    None = None
    Scenarios <- FourScenarios
    Definitions = {"d"}
    Observations <- FourObservations
    FirstScenarios <- NoneOrOne
    MaxScenarios = 2
    MaxSessions = 2
    MaxSteps = 4

CHECK_DEADLOCK FALSE

INVARIANTS
    ReportTellsTheBatch
    PassedOnEqualGround
