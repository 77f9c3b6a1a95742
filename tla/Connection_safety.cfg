SPECIFICATION Spec
CONSTANTS
  Users = {u1, u2}
  Clients = {c1, c2}
  Tablets = {A, B}
  Noisy = {B}
  MaxAttempts = 2
  MaxCalls = 2
  Nil = Nil
SYMMETRY Symmetry
INVARIANTS TypeOK StaleClientIsEnding  NoDoubleClose 
CHECK_DEADLOCK FALSE
