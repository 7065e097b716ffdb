SPECIFICATION SideSpec
CONSTANTS
  s1 = s1 s2 = s2 s3 = s3 r1 = r1 r2 = r2
  Runs = {r1, r2}
  Items <- ItemOrder
  SourceDir <- OldNames
  TargetDir <- NewNames
  MaxRunFaults = 3
  MaxTries = 3
  NoIo = NoIo
  Lost = Lost
  Consumers = {g1, g2}
  Events = {1, 2}
  MaxMessages = 3
  EventOf <- EventOfMessage
  BatchSize = 2
  MaxLogFaults = 1
  Nobody = Nobody
  asset1 = asset1 tItem1 = tItem1 tItem2 = tItem2
  Workers = {w1}
  Clients = {client}
  Tasks = {tItem1, tItem2}
  Target <- ItemTarget
  Shots = {}
  Assets = {asset1}
  Episodes = {ep1}
  LegacyShots = {}
  LegacyAssets = {}
  MaxAttempts = 2
  MaxOps = 4
  MaxFaults = 0
  Project = Project Scene = Scene NoWorker = NoWorker Nothing = Nothing
INVARIANTS OperationsExplainStatuses RenameIsExact StoredExactlyOnce
PROPERTIES PreparingResolves RenumberEnds MessagesAreHandled
CHECK_DEADLOCK FALSE
