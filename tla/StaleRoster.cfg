SPECIFICATION Spec
CONSTANTS
  u1 = u1  u2 = u2  e1 = e1  e2 = e2  c1 = c1  c2 = c2
  g1 = g1  g2 = g2  p1 = p1  p2 = p2
  Nil = Nil  Gone = Gone  Manager = Manager  Keep = Keep
  Voters = {u1}
  Elections = {e1}
  Candidates = {c1, c2}
  Regions = {g1, g2}
  Positions = {p1}
  Nonces = {n1}
  Requests = {r1, r2}
  RegionOf <- HomeRegion
  Receipts = {}
  Quarantined = {}
  Schedules <- NoSchedule
  InitStatus <- AllDraft
  InitRow <- OneRow
  InitApproved = {u1}
  Reviewed = {}
  Scopes = {Manager, g1}
  MaxTime = 0
  MaxLost = 0
  RowLocks = TRUE
  SnapshotReads = TRUE
SYMMETRY Symmetry
INVARIANTS
  AuthorizedInRegion
