SPECIFICATION Spec
CONSTANTS
  Uploads = {first, second}
  Downloads = {}
  Large = {}
  Path <- OnePath
  Chunks = 2
  Workers = 2
  SpareBudget = 1
  SpareCap = 1
  Tablets = {A}
  MaxLinks = 1
  None = None
INVARIANT NothingShortPublished
CHECK_DEADLOCK FALSE
