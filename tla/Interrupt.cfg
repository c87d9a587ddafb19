SPECIFICATION InterruptSpec
CONSTANTS
    A = A
    R = R
    a = a
    None = None
    Names <- MCNames
    Restricted <- MCRestricted
    Addrs <- MCAddrs
    Txs <- MetaTxs
    MaxMoney = 30
    MaxUnit = 1
    MAX_CACHE_ASSETS_SIZE = 1
    MaxChain = 5
    MaxBlock = 3
INVARIANTS MarkerSound
