SPECIFICATION UnreadSpec
CONSTANTS
  MaxGen = 2
  Lines = {}
  Slash = {FALSE}
  ErrorTurns = {}
  Exits = {"crashed"}
  MaxNoteTurns = 0
  StdoutCap = 2
  Callers = {c1}
  Ops = {"Query", "QueryCtx"}
  MaxCalls = 2
  MaxTicks = 0
  MayCancel = FALSE
  PumpCap = 1
  EventsCap = 1
  QueryMailboxCap = 2
  OrphanMailboxCap = 1
PROPERTIES
  EveryWaitReturns
  ReaderNeverBlocks
  RefinesRouter
