SPECIFICATION Spec
CONSTANTS
    s1 = s1  s2 = s2  x1 = x1  x2 = x2  f1 = f1  f2 = f2
    rule = rule
    Surveys = {s1, s2}
    Sections = {x1, x2}
    Fields = {f1, f2}
    Ids = {rule}
    Absent = Absent
    None = None
SYMMETRY Names
INVARIANTS TypeOK NamesStayWithin
PROPERTIES ClosedStaysPut
CHECK_DEADLOCK FALSE
