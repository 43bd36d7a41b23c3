SPECIFICATION Spec
CONSTANTS
  Labels = {L}
  Kinds = {"attribute"}
  MaxVars = 3
  MaxJumps = 2
  MaxScopes = 2
INVARIANTS
  CleanupsNest
  LiveAreThoseInScope
  JumpsArrive
CHECK_DEADLOCK FALSE
