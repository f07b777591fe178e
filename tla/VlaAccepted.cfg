CONSTANTS
  x = x  v = v  L = L
  Locals = {v}
  Vlas = {v}
  Labels = {L}
  Named = {L}
  Kinds = {"expr", "use", "label", "goto", "if"}
  Conditions = {"runtime"}
  MaxSize = 5
SPECIFICATION RunSpec
INVARIANT VlaDeclaredFirst
CHECK_DEADLOCK FALSE
