CONSTANTS
    Uniswap = Uniswap
    Aggregator = Aggregator
    a = a
    b = b
    c = c
    Addresses = {Uniswap, Aggregator, a, b, c}
    TreeHeight = 3
    FeeBips = 5000
    Width = 8
    Genesis <- TheGenesis
    Transactions <- TheTransactions
    MaxTransactions = 4
    MaxCrashes = 2
SPECIFICATION Spec
INVARIANTS
    AccountsInv
    SupplyIsConserved
    QuietIsRecoverable
PROPERTIES
    PoolProductNeverDrops
CHECK_DEADLOCK FALSE
