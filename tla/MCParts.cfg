SPECIFICATION PartsSpec
CONSTANTS
  Event = {e1, e2}
  MaxGen = 2
  QueryMailboxCap = 2
  OrphanMailboxCap = 1
  Tool = {t1, t2}
  NoTool = NoTool
  Callers = {c1, c2}
  MaxCalls = 3
  MaxNoteTurns = 1
  TurnCaller = {c1}
  MaxQueries = 2
  MaxSends = 1
  MaxWaits = 1
  MaxOwnTurns = 1
  LinesCap = 2
  MaxChanges = 2
  MaxReloads = 0
  MaxDecodedTurns = 2
  MaxPieces = 2
  SurfaceReplays = FALSE
  BackgroundTask = {b1, b2}
  Writer = {w1, w2, w3}
  LineLen = 2
  StdinPipe = 1
  StdoutPipe = 1
  ParsedCap = 1
  EventsChan = 1
  TrackedCap = 1
  RunLines = {"note", "answer", "maxturns", "api"}
  MaxRunLines = 2
  PoolSession = {p1, p2}
  MaxAdds = 2
  MaxPoolEvents = 1
  SessionCap = 1
  PoolCap = 1
  MaxSubmits = 2
  MaxTranscriptLines = 3
  MaxVersion = 2
  SelfUpdates = TRUE
CHECK_DEADLOCK FALSE
INVARIANTS
  PartsTypeOK
  MailboxIsolation
  OnlyActiveOpen
  TrackerAgrees
  PairingBalanced
  TickerMirrorsState
  IdleBetweenTurns
  UnsolicitedIsTrue
  CommandsAreCurrent
  DecodersAgree
  ResultIsOfItsTurn
  TasksKeepTheirIdentity
  LinesStayWhole
  OutcomeTellsTheEnding
  ClosedAfterForwarders
  VerdictIsTrue
  PolledOnceInOrder
  UpdateIsEarned
  VerdictIsOfOwnStream
PROPERTIES
  ClosedIsFinal
  OldestFirst
  CloseGetsStdin
  CancelledRunEnds
  PoolCloses
  NoSubmissionHangs
