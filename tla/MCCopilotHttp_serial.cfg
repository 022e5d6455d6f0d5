SPECIFICATION Spec

CONSTANTS
    None = None
    r1 = r1
    r2 = r2
    r3 = r3
    r4 = r4
    i1 = i1
    i2 = i2
    i3 = i3
    s1 = s1
    s2 = s2
    s3 = s3
    Requests <- FourRequests
    SessionIds <- ThreeIds
    Sessions <- ThreeSessions
    MaxSessions = 2
    MaxTurns = 2
    Workers = 3

SYMMETRY Symmetry

INVARIANTS
    TurnOwnsItsSession
    SessionsApart

PROPERTIES
    SerialService

\* The requests that may arrive are spent: the server waits for more.
CHECK_DEADLOCK FALSE
