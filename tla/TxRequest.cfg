SPECIFICATION FairSpec
CONSTANTS
    Peer = {1, 2, 3}
    TxHash = {1, 2}
    Time = {0, 1}
    Announced <- MCAnnounced
    Preferred = {1}
    Low <- MCLow
    PreferredBit <- MCPreferredBit
INVARIANTS TypeOK CountsRight Sanity
PROPERTIES NeverTwice KeepsPromise CallsReturn
