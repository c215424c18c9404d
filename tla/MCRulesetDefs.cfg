CONSTANTS
    Requests = {q1, q2}
    q1 = q1
    q2 = q2
    Names <- MCNames
    Configs <- MCConfigs
SPECIFICATION Spec
INVARIANTS
    ExceptionsBuilt
    InitGuards
    RunsItsRulesets
    DiesOfItsOwn
PROPERTY DefsKept
CHECK_DEADLOCK FALSE
