CONSTANT Inputs <- MCInputs
SPECIFICATION Spec
INVARIANTS
    TypeOK
    TokensInOrder
    StringsCloseRight
PROPERTY Decided
CHECK_DEADLOCK FALSE
