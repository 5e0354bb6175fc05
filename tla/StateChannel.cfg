CONSTANTS
    A = A
    B = B
    Clients <- Two
    Preimages <- OneKnowsOne
    Balances <- ThreeMessages
    Bad = {4}
    MaxCalls = 2
    MaxExits = 1
SPECIFICATION Spec
INVARIANTS
    AgreementInv
    ExitsInv
    DecisionsAreSound
PROPERTIES
    EventuallyCountersigned
CHECK_DEADLOCK FALSE
