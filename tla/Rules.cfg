SPECIFICATION SearchingSpec
CONSTANTS
    Fields = {f1, f2, f3}
    Sections = {s1, s2}
    FieldPositions = {1, 2}
    SectionPositions = {1, 2, 3}
    Ids = {i1, i2}
    Workers = {w1}
    None = None
    Absent = Absent
    Unused = Unused
    Gone = Gone
INVARIANTS TypeOK SingleTargetAcyclic SearchTrue
PROPERTY OnlyFormsTurnForward
SYMMETRY Symmetry
