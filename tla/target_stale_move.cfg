SPECIFICATION Spec
CONSTANTS
  s1 = s1 s2 = s2 s3 = s3 c1 = c1 c2 = c2
  Shots = {s1, s2, s3}
  Names = {1, 2}
  Old <- OldShots
  Cleaners = {c1}
  MaxTries = 1
  MaxRetries = 0
  MaxMishaps = 0
  Nobody = Nobody
PROPERTY CleaningSparesTheLiving
CHECK_DEADLOCK FALSE
