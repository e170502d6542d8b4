SPECIFICATION SerialSpec
CONSTANTS
    root = root
    s1 = s1
    s2 = s2
    f11 = f11
    f12 = f12
    f21 = f21
    Root = root
    Workers = {w1, w2}
    Rows <- FiveRows
    Parent <- FiveParents
INVARIANTS TypeOK PublishedComplete
PROPERTIES ImplementsContract
