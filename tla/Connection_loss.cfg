SPECIFICATION Spec
CONSTANTS
  Users = {u1}
  Clients = {c1, c2}
  Tablets = {A}
  Noisy = {}
  MaxAttempts = 1
  MaxCalls = 1
  Nil = Nil
PROPERTY LossIsResolved
CHECK_DEADLOCK FALSE
