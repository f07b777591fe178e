SPECIFICATION MovesSpec
CONSTANTS
  NumBlocks = 4
  NumLocals = 7
  Pointers <- MCPointers
  Programs <- AllPrograms
INVARIANTS
  FactsTypeOK
  PathsExact
  StoresRecorded
  UnaliasedUsesReported
  OwnedLeaksReported
PROPERTY FactsTermination
CHECK_DEADLOCK FALSE
