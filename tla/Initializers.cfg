SPECIFICATION Spec
CONSTANTS
    Types <- MCTypes
    KindOf <- MCKindOf
    Members <- MCMembers
    FieldNames <- MCFieldNames
    Inits <- MCInits
    Items <- MCItems
    Rest <- MCRest
    MaxFirst = 2
    MaxItems = 3
INVARIANTS
    CursorsTyped
    ValuesFit
    SameObject
