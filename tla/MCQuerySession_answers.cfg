SPECIFICATION Spec
CONSTANTS
  MaxGen = 2
  Lines = {}
  Slash = {FALSE}
  ErrorTurns = {}
  Exits = {}
  MaxNoteTurns = 1
  StdoutCap = 2
  Callers = {c1, c2}
  Ops = {"QueryCtx"}
  MaxCalls = 2
  MaxTicks = 0
  MayCancel = FALSE
  PumpCap = 1
  EventsCap = 1
  QueryMailboxCap = 2
  OrphanMailboxCap = 4
SYMMETRY CallerSymmetry
CHECK_DEADLOCK FALSE
INVARIANTS
  AnswersOwnQuery
  WaitingQueryIsTracked
  LateResultKeepsGeneration
PROPERTIES
  ResultKeptOnce
