SPECIFICATION FairSpec
CONSTANTS
  Request = {q1, q2}
  Prompt = {p1}
  MayCancel = TRUE
  Parks = FALSE
INVARIANTS
  TypeOK
  WaiterIsReachable
  AnsweredOnce
PROPERTIES
  EveryCallReturns
  EveryPromptAnswered
  SessionEnds
