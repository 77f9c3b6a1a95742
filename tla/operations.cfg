SPECIFICATION Spec
CONSTANTS
  Ops = {o1}
  MaxPrompts = 2
  MaxChanges = 2
  None = None
INVARIANTS TypeOK AnswersMatch NobodyWaitsUnseen
PROPERTY CancelEnds
CHECK_DEADLOCK FALSE
