SPECIFICATION SideSpec
CONSTANTS
  w1 = w1 w2 = w2 c1 = c1 c2 = c2 shot1 = shot1 shot2 = shot2 asset1 = asset1 ep1 = ep1
  tShot = tShot tShot2 = tShot2 tItem1 = tItem1 tItem2 = tItem2
  Workers = {w1, w2}
  Clients = {c1, c2}
  Shots = {}
  Assets = {asset1}
  Episodes = {}
  Tasks <- ItemTasks
  Target <- ItemTarget
  LegacyShots = {}
  LegacyAssets = {asset1}
  MaxAttempts = 2
  MaxOps = 4
  MaxFaults = 1
  Project = Project Scene = Scene NoWorker = NoWorker Nothing = Nothing
  p1 = p1 p2 = p2 s1 = s1 s2 = s2 s3 = s3
  Slots = {s1, s2, s3}
  MaxShotNo = 4
  MaxMoves = 1
  Servers = {p1, p2}
  Jobs = {1}
  MaxEdits = 2
  MaxSetbacks = 1
  Nowhere = Nowhere
INVARIANTS ClaimsOwned OperationsExplainStatuses ScenesSafe SchedulerSafe
