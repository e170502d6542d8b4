SPECIFICATION Spec
CONSTANTS
    Users = {u1, u2}
    joe = joe
    joeOdd = joeOdd
    w1 = w1
    w2 = w2
    Emails <- AllEmails
    Normal <- Lower
    Bodies <- Edits
    Workers = {w1, w2}
    None = None
SYMMETRY Symmetry
INVARIANTS TypeOK ServedAsDocumented OnlyNamedUnlessStale ManagerRemains
