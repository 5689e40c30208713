SPECIFICATION Spec
CONSTANTS
  Request = {q1}
  Prompt = {p1}
  MayCancel = FALSE
  Parks = FALSE
PROPERTIES
  WithdrawnNotAnswered
