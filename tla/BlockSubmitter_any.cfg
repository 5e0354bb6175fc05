SPECIFICATION Spec
CONSTANTS
    Main = main
    Handlers = {h1, h2}
    MaxBlock = 3
    MaxTx = 5
    MaxCrashes = 3
    Serialized = FALSE
    CrashPoints <- Anywhere
    RpcMayFail = TRUE
    ReplyMayBeLost = TRUE
INVARIANT TypeOK
INVARIANT NeverEarly
INVARIANT RecoveryReadsStoredBlocks
INVARIANT SentIsDurable
PROPERTY DurableProgress
CHECK_DEADLOCK FALSE
