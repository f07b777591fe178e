SPECIFICATION Spec
CONSTANTS
    Names = {"m", "G"}
    Bodies = {"1", "F", "b"}
    Fun = "F"
    Texts <- MCTexts
    MainLines <- MCMainLines
    MaxMain = 3
    MaxDepth = 2
    Main = "main"
    Absent = "absent"
INVARIANTS
    TypeOK
    FirstGroupKept
    SkipsOnlyNothing
    SameOutput
