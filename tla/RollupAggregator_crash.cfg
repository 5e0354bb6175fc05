SPECIFICATION Spec
CONSTANTS
    Threshold = 2
    MaxRequests = 3
    MaxCrashes = 1
    CrashPoints <- AfterQueueing
    SubmitMayFail = FALSE
    FaucetMayFail = FALSE
    RefusalMayApply = FALSE
INVARIANT ReceiptsHonoured
CHECK_DEADLOCK FALSE
