SPECIFICATION Spec
CONSTANTS
  Users = {u1}
  Clients = {c1, c2}
  Tablets = {A}
  Noisy = {}
  MaxAttempts = 1
  MaxCalls = 2
  Nil = Nil
PROPERTIES ReconnectReports DisconnectSettles
CHECK_DEADLOCK FALSE
