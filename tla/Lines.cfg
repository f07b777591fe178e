CONSTANTS
    Width = 4
    TextTables <- MCTextTables
    IfTables <- MCIfTables
    Words <- MCWords
    Operands <- MCOperands
    Operators <- MCOperators
    Signs <- MCSigns
    MaxText = 6
    MaxIf = 6
SPECIFICATION Spec
INVARIANTS
    SameText
    SameCondition
CHECK_DEADLOCK FALSE
