SPECIFICATION Spec
CONSTANTS
    Names = {L}
    CaseSets <- MCCaseSets
    Values <- MCValues
    Kinds <- MCKinds
    MaxStmts <- MCMaxStmts
INVARIANTS
    TypeOK
    JumpsAreInnermost
    NothingOutlivesItsStatement
    SameBehaviour
    EveryGotoLands
