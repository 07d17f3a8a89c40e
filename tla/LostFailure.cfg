SPECIFICATION Spec
CONSTANTS
  Requests = {r1, r2}
  MaxAttempts = 2
  LockFor = 1
  MaxTime = 0
  MaxEpoch = 2
  Called = {"login"}
  Nil = Nil
SYMMETRY Symmetry
INVARIANTS
  LockedAfterMax
