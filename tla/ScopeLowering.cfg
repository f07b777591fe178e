CONSTANTS
  x = x  v = v  L = L  M = M
  Locals = {x}
  Vlas = {}
  Labels = {L, M}
  Named = {L}
  Kinds = {"block", "use", "expr", "label", "goto", "indirect", "return", "call", "if"}
  Conditions = {"runtime", "true", "false"}
  MaxSize = 4
SPECIFICATION Spec
INVARIANTS JumpsLand EveryPatchOwed SnapshotsAgree
CHECK_DEADLOCK FALSE
