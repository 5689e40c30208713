SPECIFICATION Spec
CONSTANTS
  MaxGen = 2
  Lines = {}
  Slash = {FALSE}
  ErrorTurns = {"note"}
  Exits = {}
  MaxNoteTurns = 1
  StdoutCap = 2
  Callers = {c1}
  Ops = {"QueryCtx"}
  MaxCalls = 1
  MaxTicks = 0
  MayCancel = FALSE
  PumpCap = 1
  EventsCap = 1
  QueryMailboxCap = 2
  OrphanMailboxCap = 4
CHECK_DEADLOCK FALSE
INVARIANTS
  WaitingQueryIsTracked
