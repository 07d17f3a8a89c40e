SPECIFICATION Spec
CONSTANTS
  abc = abc  Abc = Abc  xyz = xyz
  Requests = {r1, r2}
  Names = {n1, n2}
  Emails = {m1, m2}
  Spellings = {abc, Abc, xyz}
  Norm <- Capitals
  Sources = {chacha, fernet}
  MaxIds = 4
  Nil = Nil
SYMMETRY Symmetry
INVARIANTS
  OneAccountEach
  LicenceOnce
  WholeRegistration
  LinksFindAccount
PROPERTIES
  ConvertedTogether
