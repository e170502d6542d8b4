SPECIFICATION Spec
CONSTANTS
    Ops = {o1, o2}
    Users = {ann}
    Threads = {t1, t2}
    CeleryWorkers = {w1, w2}
    None = None
INVARIANTS TypeOK OneEntryEach OnlyRollbacksArePhantoms ActorSentIt
PROPERTIES EntriesArrive
CHECK_DEADLOCK FALSE
