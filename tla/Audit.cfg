SPECIFICATION Spec
CONSTANTS
  Workers = {w1, w2, w3}
  MaxRecords = 6
  FaultKinds = {"crash", "io"}
  MaxFaults = 3
  None = None
  Absent = Absent
SYMMETRY Symmetry
INVARIANTS
  ErrorsPaid
