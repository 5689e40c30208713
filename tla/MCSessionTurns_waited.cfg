SPECIFICATION TurnsSpec
CONSTANTS
  TurnCaller = {c1, c2}
  MaxQueries = 2
  MaxSends = 0
  MaxWaits = 2
  MaxOwnTurns = 0
  LinesCap = 2
CHECK_DEADLOCK FALSE
INVARIANTS
  WaitIsForItsQuery
