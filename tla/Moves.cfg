SPECIFICATION RunSpec
CONSTANTS
  NumBlocks = 4
  NumLocals = 3
  Bodies <- LiveBodies
INVARIANTS
  MovedIsUninit
  KindsJustified
  BlameAssigns
  BlockEntryCovered
  UsesReported
  LeaksReported
PROPERTIES
  EntryGrows
  Termination
  ImplementsMoveCheck
CHECK_DEADLOCK FALSE
