CONSTANTS
    Files <- MCFiles
    Weak <- MCWeak
    Parts = {"core", "alloc", "std", "unwind"}
    MaxInputs = 2
SPECIFICATION Spec
INVARIANTS
    LinkedIsAsked
    LinksWhatItCan
    StdOnlyIfNeeded
    DirectoriesRemoved
CHECK_DEADLOCK FALSE
