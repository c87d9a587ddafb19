SPECIFICATION FairSpec
CONSTANTS
    Tx = {"cb1", "cb2", "t1", "t2", "t3"}
    Outpoint = {"a", "b", "c", "d"}
    Coinbase = {"cb1", "cb2"}
    In <- MCIn
    Out <- MCOut
    MaxHeight = 3
    MaxBlock = 2
INVARIANTS TypeOK FlagsSound CoinsOfChain NoFailure DiskRecoverable
PROPERTIES KeepsPromise ReplayEnds
