SPECIFICATION ObsSpec

CONSTANTS
    Null = Null
    home = home
    twin = twin
    link = link
    file = file
    alien = alien
    Dirs <- ThreeDirs
    Artifacts <- TwoFiles
    Trait <- Traits
    Volume <- Volumes
    MaxBytes = 2
    ChunkBytes = 2
    MaxSize = 3
    MaxWrites = 1
    MaxSwaps = 2

SYMMETRY Plain

INVARIANTS
    ObservedWhole
    DirectChild
    HandlesReleased
