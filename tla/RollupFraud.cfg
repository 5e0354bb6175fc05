CONSTANTS
    Uniswap = Uniswap
    Aggregator = Aggregator
    a = a
    b = b
    Addresses = {Uniswap, Aggregator, a, b}
    TreeHeight = 3
    STATE_TREE_HEIGHT = 2
    SameLeaves = TRUE
    FeeBips = 5000
    Width = 32
    Genesis <- TheGenesis
    Transactions <- TheTransactions
    MaxBlocks = 2
    MaxTransitions = 2
    MaxRestarts = 1
SPECIFICATION Spec
INVARIANTS
    ValidatorInv
    HonestAreSafe
    PrunedOnlyForFraud
    AllAgree
CHECK_DEADLOCK FALSE
