SPECIFICATION FairSpec
CONSTANTS
    Listeners = {l1}
    MaxBlock = 4
    MaxPerBlock = 2
    MaxCrashes = 1
    MaxEvents = 3
INVARIANTS
    DeliveryInv
PROPERTIES
    EveryEventIsHandled
CHECK_DEADLOCK FALSE
