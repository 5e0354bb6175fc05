SPECIFICATION TreeSpec
CONSTANTS
    Height = 3
    Values = {0, 1}
    Empty = 0
    Contents <- UpToSymmetry
    MaxSteps = 4
INVARIANTS
    RootInv
    LeavesInv
    OnlyTrueLeavesAreVerified
    KnownPathsAreUpdated
CHECK_DEADLOCK FALSE
