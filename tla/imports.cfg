SPECIFICATION ImportSpec
CONSTANTS
  MaxBatches = 2
  MaxKeys = 2
  MaxRequests = 3
  MaxImportFaults = 1
INVARIANTS ImportsAreExact
PROPERTIES RequestsAreAnswered
CHECK_DEADLOCK FALSE
