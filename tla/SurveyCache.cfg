SPECIFICATION FairSpec
CONSTANTS
    Readers = {r1, r2}
    Writers = {w1}
    WriteKinds = {"update", "drop", "silent", "destroy"}
    MaxVersion = 2
    TTL = 1
    Timeout = 1
    NoEntry = NoEntry
    NoData = NoData
INVARIANTS TypeOK StaleEntryHasCause BoundedStaleness
PROPERTIES EventuallyFresh
