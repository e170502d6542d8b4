SPECIFICATION Spec
CONSTANTS
    first = first  second = second  section = section
    rule = rule  dep = dep
    w1 = w1  w2 = w2
    Sections = {section}
    Fields = {first, second}
    SectionOf <- MCSectionOf
    None = None
    Absent = Absent
    Missing = Missing
    NaN = NaN
    NoNumber = NoNumber
    Texts <- MCTexts
    Number <- MCNumber
    Substrings = {}
    JsonNumbers = {"1"}
    Dates = {}
    Emails = {}
    RuleIds = {rule}
    DepIds = {dep}
    FieldBodies <- MCFieldBodies
    RowBodies <- MCRowBodies
    Workers = {w1, w2}
SYMMETRY Symmetry
INVARIANTS TypeOK StoredRowsFit FieldsCoherent HiddenOptionsUnasked
CHECK_DEADLOCK FALSE
