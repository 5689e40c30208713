SPECIFICATION FairSpec
CONSTANTS
  Request = {q1}
  Prompt = {p1}
  MayCancel = FALSE
  Parks = TRUE
PROPERTIES
  SessionEnds
CHECK_DEADLOCK FALSE
