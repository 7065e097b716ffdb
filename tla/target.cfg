SPECIFICATION FairSpec
CONSTANTS
  s1 = s1 s2 = s2 s3 = s3 c1 = c1 c2 = c2
  Shots = {s1, s2, s3}
  Names = {1, 2}
  Old <- OldShots
  Cleaners = {c1, c2}
  MaxTries = 2
  MaxRetries = 1
  MaxMishaps = 1
  Nobody = Nobody
INVARIANTS TargetSafe
PROPERTIES PurgeSettles
CHECK_DEADLOCK FALSE
