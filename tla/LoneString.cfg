SPECIFICATION Spec
CONSTANTS
    Types <- MCTypes
    KindOf <- MCKindOf
    Members <- MCMembers
    FieldNames <- MCFieldNames
    Inits <- MCInits
    Items <- MCItems
    Rest <- MCRest
    MaxFirst = 1
    MaxItems = 1
INVARIANT LoneStringAsC
