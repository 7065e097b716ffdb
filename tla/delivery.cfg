SPECIFICATION MCSpec
CONSTANTS
  w1 = w1 w2 = w2
  NoWorker = NoWorker
  Workers = {w1, w2}
  MaxAttempts = 2
  MaxRows = 3
  MaxRaises = 1
  MaxCrashes = 1
  MaxVersions = 2
  MaxCandidates = 1
  MaxCycles = 2
  p1 = p1 p2 = p2
  Procs = {p1, p2}
  MaxMishaps = 3
  Free = Free
  Ghost = Ghost
INVARIANTS DeliverySafe ManifestTellsTheTruth LeadersLetGo
PROPERTIES DeliveriesTakeEffect LeadershipPasses
CHECK_DEADLOCK FALSE
