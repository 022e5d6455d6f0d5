SPECIFICATION Spec

CONSTANTS
    None = None
    NaN = NaN
    Experiments = {1, 2}
    FirstNodes <- SomeNodes
    Calls <- SomeCalls
    Window = 3
    Samples <- ShortHistories
    MaxChanges = 2

CHECK_DEADLOCK FALSE

INVARIANTS
    Contained
    WholeAndRanked
