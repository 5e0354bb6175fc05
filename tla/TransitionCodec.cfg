CONSTANTS
    Uniswap = Uniswap
    Clients = {a, b, 1}
    Root = Root
    Sibling = Sibling
    sigR = sigR
    sigS = sigS
    sigV = sigV
    Straddling = Straddling
    SlotIndices = {1, 2}
    SignatureWords <- TheSignatureWords
    Amounts = {1, 32, 33, 224, 512}
    Timeouts = {0, 600}
    Balances <- TheBalances
    Width = 512
SPECIFICATION CodecSpec
INVARIANTS
    TransitionInv
    ContractInv
    ReceiptIsProvable
CHECK_DEADLOCK FALSE
