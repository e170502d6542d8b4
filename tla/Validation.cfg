SPECIFICATION ValidationSpec
CONSTANTS
    s1 = s1
    s2 = s2
    choice = choice
    number = number
    boxes = boxes
    survey = survey
    Root = survey
    Rows <- MCRows
    Parent <- MCParent
    Missing = Missing
    NaN = NaN
    NoNumber = NoNumber
    Required = {number, boxes}
    Blank = {""}
    Texts <- MCTexts
    Number <- MCNumber
    Substrings <- MCSubstrings
    Type <- MCType
    Options <- MCOptions
    MinOf <- MCMinOf
    MaxOf <- MCMaxOf
    Pattern <- MCPattern
    RuleSets <- MCRuleSets
    DependencySets <- MCDependencySets
    AnswerSets <- MCAnswerSets
INVARIANTS ValidationTypeOK VerdictMatchesScreen KeptWasOffered
CHECK_DEADLOCK FALSE
