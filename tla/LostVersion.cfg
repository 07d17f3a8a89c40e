SPECIFICATION Spec
CONSTANTS
  Requests = {r1, r2}
  MaxAttempts = 1
  LockFor = 1
  MaxTime = 0
  MaxEpoch = 2
  Called = {"login", "change", "unlock"}
  Nil = Nil
SYMMETRY Symmetry
INVARIANTS
  RevocationHolds
