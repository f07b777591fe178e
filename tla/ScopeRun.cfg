CONSTANTS
  x = x  v = v  L = L
  Locals = {x, v}
  Vlas = {v}
  Labels = {L}
  Named = {L}
  Kinds = {"block", "use", "label", "goto", "indirect", "if"}
  Conditions = {"runtime"}
  MaxSize = 4
SPECIFICATION RunSpec
INVARIANTS StorageAlternates UsedWhileLive VlaDeclaredFirst RejectsOnlyEntering
CHECK_DEADLOCK FALSE
