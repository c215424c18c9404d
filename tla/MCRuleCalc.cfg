CONSTANTS
    MaxRules = 4
    Rulesets <- MCRulesets
SPECIFICATION CalcSpec
INVARIANTS
    CalculatesOffsets
    NoMatchReachesNextHead
