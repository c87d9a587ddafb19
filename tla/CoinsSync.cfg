SPECIFICATION FaultSpec
CONSTANTS
    Tx = {"cb1", "cb2", "t1", "t2", "t3"}
    Outpoint = {"a", "b", "c", "d"}
    Coinbase = {"cb1", "cb2"}
    In <- MCIn
    Out <- MCOut
    MaxHeight = 2
    MaxBlock = 3
INVARIANT DiskRecoverable
