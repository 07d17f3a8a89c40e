SPECIFICATION Spec
CONSTANTS
  Requests = {r1, r2, r3}
  MaxFailedAttempts = 2
  Ttl = 2
  MaxTime = 4
  MaxIssued = 3
  Nil = Nil
SYMMETRY Symmetry
INVARIANTS
  CodeOnce
  GuessesBounded
PROPERTIES
  BudgetRenewed
CHECK_DEADLOCK FALSE
