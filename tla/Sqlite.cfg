SPECIFICATION Spec
CONSTANTS
  u1 = u1  u2 = u2  e1 = e1  e2 = e2  c1 = c1  c2 = c2
  g1 = g1  g2 = g2  p1 = p1  p2 = p2
  Nil = Nil  Gone = Gone  Manager = Manager  Keep = Keep
  Voters = {u1, u2, u3}
  Elections = {e1}
  Candidates = {c1}
  Regions = {g1}
  Positions = {p1}
  Nonces = {n1, n2}
  Requests = {r1, r2}
  RegionOf <- HomeRegion
  Receipts <- OldReceipt
  Quarantined = {}
  Schedules <- NoSchedule
  InitStatus <- AllDraft
  InitRow <- OneRow
  InitApproved = {u1, u2, u3}
  Reviewed = {}
  Scopes = {Manager}
  MaxTime = 0
  MaxLost = 1
  RowLocks = FALSE
  SnapshotReads = FALSE
SYMMETRY ReceiptSymmetry
INVARIANTS
  TypeOK
  AuditComplete
  BallotsBacked
  OneSignature
