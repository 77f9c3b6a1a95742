SPECIFICATION Spec
CONSTANTS
  Uploads = {big}
  Downloads = {get}
  Large = {big}
  Path <- OwnPath
  Chunks = 2
  Workers = 1
  SpareBudget = 1
  SpareCap = 2
  Tablets = {A}
  MaxLinks = 2
  None = None
INVARIANTS TypeOK DoneIsWhole NothingLeft 
PROPERTIES EveryJobEnds ReplacesAtOnce
CHECK_DEADLOCK FALSE
