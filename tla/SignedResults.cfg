SPECIFICATION Spec
CONSTANTS
  r1 = r1  r2 = r2  p1 = p1  p2 = p2
  Elections = {e1, e2}
  Requests = {r1, r2}
  Processes = {p1, p2}
  Home <- OneEach
  Identities = {i1, i2}
  MaxKeys = 2
  MaxVersion = 2
  MaxSigned = 2
  Nil = Nil
SYMMETRY Symmetry
INVARIANTS
  GenuineNeverRefuted
  LocalAlwaysVerifies
  VaultVerifiesAgain
  OneOfficial
