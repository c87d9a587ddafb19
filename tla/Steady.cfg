SPECIFICATION FairSpec
CONSTANTS
    A = A
    R = R
    a = a
    None = None
    Names <- MCNames
    Restricted <- MCRestricted
    Addrs <- MCAddrs
    Txs <- AllTxs
    MaxMoney = 30
    MaxUnit = 1
    MAX_CACHE_ASSETS_SIZE = 1
    MaxChain = 6
    MaxBlock = 5
INVARIANTS ViewIsLedger MarkerSound SupplyWellFormed
PROPERTIES KeepsPromise ReissueMonotone RebuildEnds
