SPECIFICATION Spec
CONSTANTS
  Requests = {r1, r2}
  MaxAttempts = 1
  LockFor = 1
  MaxTime = 1
  MaxEpoch = 2
  Called = {"login", "change", "reset", "reject", "unlock"}
  Nil = Nil
SYMMETRY Symmetry
INVARIANTS
  RevokedUnlessOverwritten
PROPERTIES
  LinkOnce
