SPECIFICATION Spec
CONSTANTS
  Tool = {t1}
  NoTool = NoTool
  Callers = {c1}
  MaxCalls = 2
  MaxNoteTurns = 0
CHECK_DEADLOCK FALSE
INVARIANTS
  PendingQueryAnnounced
