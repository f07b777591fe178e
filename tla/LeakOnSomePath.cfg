SPECIFICATION RunSpec
CONSTANTS
  NumBlocks = 4
  NumLocals = 3
  Bodies <- DeadBodies
INVARIANT
  LeakOnSomePath
CHECK_DEADLOCK FALSE
