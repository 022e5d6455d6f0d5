SPECIFICATION Spec

CONSTANTS
    None = None
    c1 = c1
    c2 = c2
    c3 = c3
    Callers <- ThreeCallers
    MaxMaxTurns = 3
    MaxAsks = 5

SYMMETRY Symmetry

INVARIANTS
    Coherent
    AloneKeepsAll
