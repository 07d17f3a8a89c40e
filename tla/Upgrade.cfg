SPECIFICATION UpgradeSpec
CONSTANTS
  t1 = t1  t2 = t2  t3 = t3  p1 = p1  p2 = p2
  Threads = {t1, t2, t3}
  Processes = {p1, p2}
  Home <- TwoAndOne
  Voters = {v1, v2}
  MaxKeys = 2
  MaxLosses = 1
  Nil = Nil
SYMMETRY Symmetry
INVARIANTS
  OneAuthority
  GenuineAccepted
  VotersOnRecord
PROPERTIES
  AnchorKept
  StampedWhole
  ImplementsKeyStore
