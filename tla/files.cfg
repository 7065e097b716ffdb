SPECIFICATION MCSpec
CONSTANTS
  k1 = k1 k2 = k2 k3 = k3 w1 = w1 w2 = w2
  Candidates = {k1, k2, k3}
  First = {k1, k2}
  Workers = {w1, w2}
  MaxAttempts = 2
  MaxMishaps = 1
  Nobody = Nobody
  c1 = c1 c2 = c2 c3 = c3
  Clients = {c1, c2, c3}
  MaxFileFaults = 1
  NoClient = NoClient
INVARIANTS RegistrationsAreExact UsedFilesSurvive
PROPERTIES DerivationsSettle FilesReconcile
CHECK_DEADLOCK FALSE
