SPECIFICATION Spec
CONSTANTS
    A = A
    R = R
    Q = Q
    a = a
    None = None
    Names <- MCNames
    Restricted <- MCRestricted
    Addrs <- MCAddrs
    Qualifiers <- MCQualifiers
    Coins <- MCCoins
    Funding <- MCFunding
    Txs <- MCTxs
    MTxs <- MCMTxs
    MaxMoney = 2
    MaxUnit = 0
    MaxBlocks = 3
    MaxBlockTxs = 2
INVARIANT TemplateValid
