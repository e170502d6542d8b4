SPECIFICATION Spec
CONSTANTS
    Readers = {r1, r2}
    Writers = {w1}
    WriteKinds = {"update"}
    MaxVersion = 2
    TTL = 1
    Timeout = 1
    NoEntry = NoEntry
    NoData = NoData
INVARIANTS ReplyMatchesRole
