SPECIFICATION Spec
CONSTANTS
  Ops = {o1}
  MaxPrompts = 2
  MaxChanges = 2
  None = None
INVARIANT PromptEndsWithRun
CHECK_DEADLOCK FALSE
