SPECIFICATION FairSpec
CONSTANTS
    Threshold = 2
    MaxRequests = 3
    MaxCrashes = 2
    CrashPoints <- Anywhere
    SubmitMayFail = TRUE
    FaucetMayFail = TRUE
    RefusalMayApply = TRUE
INVARIANTS
    TypeOK
    NumbersAreContiguous
    QuietIsDurable
    ReceiptsHonouredInStep
    ChainInv
PROPERTIES
    ReceiptsArePosted
CHECK_DEADLOCK FALSE
