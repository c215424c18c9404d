CONSTANT Inputs <- MCInputs
SPECIFICATION Spec
INVARIANTS
    TypeOK
    UrlStartsRight
    DecodersUndoEscapes
PROPERTY TokensInOrder
CHECK_DEADLOCK FALSE
