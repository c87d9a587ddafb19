SPECIFICATION FairSpec
CONSTANTS
    Worker = {w1, w2}
    Master = master
    Check = {c1, c2, c3, c4}
    Bad = {c1, c2}
    None = None
    nBatchSize = 2
    MaxRounds = 2
INVARIANTS TypeOK TodoCounts RoundsIsolated VerdictSound
PROPERTIES Returns Joins
