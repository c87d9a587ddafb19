\* Four blocks with a fork, two changes of the tip, one restart.
SPECIFICATION FairSpec
CONSTANTS
    Label <- MCLabel
    Block <- MCBlock
    MaxQueue = 2
    MaxMoves = 2
    MaxStarts = 1
INVARIANTS TypeOK NoAbort CommitRecoverable ChainIndexed NoBlockMissed
PROPERTY CatchesUp
\* The moves and the starts are bounded, and the last stop is for good.
CHECK_DEADLOCK FALSE
