SPECIFICATION Spec
CONSTANTS
  MaxGen = 1
  Lines = {"init", "tool"}
  Slash = {FALSE, TRUE}
  ErrorTurns = {"caller"}
  Exits = {"exited", "crashed"}
  MaxNoteTurns = 0
  StdoutCap = 2
  Callers = {c1}
  Ops = {"Query", "QueryCtx", "SendMessage"}
  MaxCalls = 1
  MaxTicks = 1
  MayCancel = TRUE
  PumpCap = 1
  EventsCap = 1
  QueryMailboxCap = 2
  OrphanMailboxCap = 2
INVARIANTS
  TypeOK
  EndedSessionClosesHandles
