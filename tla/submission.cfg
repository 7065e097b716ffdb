SPECIFICATION FairSpec
CONSTANTS
  w1 = w1
  w2 = w2
  NoWorker = NoWorker
  Workers <- TwoWorkers
  MaxAttempts = 2
  MaxSubs = 3
  MaxFiles = 2
  MaxFaults = 1
  MaxVersions = 2
  MaxCandidates = 2
  MaxCycles = 2
INVARIANTS SubmissionSafe
PROPERTIES ConclusionsStand ImplementsLedger SubmissionSettles
CHECK_DEADLOCK FALSE
