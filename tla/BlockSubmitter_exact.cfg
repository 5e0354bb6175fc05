SPECIFICATION FairSpec
CONSTANTS
    Main = main
    Handlers = {h1}
    MaxBlock = 6
    MaxTx = 8
    MaxCrashes = 3
    Serialized = TRUE
    CrashPoints <- NotWhileHandling
    RpcMayFail = FALSE
    ReplyMayBeLost = FALSE
INVARIANTS
    ChainFollowsQueue
PROPERTIES
    LedgerSafety
    LedgerFair
CHECK_DEADLOCK FALSE
