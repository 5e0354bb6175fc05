CONSTANTS
    Modified <- TheModified
    MaxPerBlock = 2
    MaxCrashes = 1
    MaxFailures = 1
SPECIFICATION Spec
INVARIANTS
    NumberingInv
    EachOnceInOrder
    QuietIsDurable
    RootCommitsToStorage
PROPERTIES
    EventuallyHanded
CHECK_DEADLOCK FALSE
