SPECIFICATION FairSpec
CONSTANTS
    root = root
    s1 = s1
    f1 = f1
    f2 = f2
    p1 = p1
    p2 = p2
    p3 = p3
    ann = ann
    bob = bob
    Root = root
    Rows <- MCRows
    Parent <- MCParent
    LateRows = {f2}
    Undoings = {"status", "deletion"}
    Users = {ann, bob}
    Posts = {p1, p2}
    UserOf <- MCUserOfTwo
INVARIANTS TypeOK OneResponsePerUser RepliesAreTrue ResponsesOnlyAfterPublication
    EncryptedUnlessLate
PROPERTIES ImplementsSubmissionContract EverySubmissionAnswered
