SPECIFICATION SideSpec
CONSTANTS
  w1 = w1 w2 = w2 c1 = c1 c2 = c2 shot1 = shot1 shot2 = shot2 asset1 = asset1 ep1 = ep1
  tShot = tShot tShot2 = tShot2 tItem1 = tItem1 tItem2 = tItem2
  Workers = {w1}
  Clients = {c1, c2}
  Shots = {shot1, shot2}
  Assets = {}
  Episodes = {}
  Tasks <- SceneTasks
  Target <- SceneTarget
  LegacyShots = {shot1}
  LegacyAssets = {}
  MaxAttempts = 2
  MaxOps = 4
  MaxFaults = 1
  Project = Project Scene = Scene NoWorker = NoWorker Nothing = Nothing
  t1 = t1 t2 = t2 t3 = t3 o1 = o1 o2 = o2
  Txns = {t1, t2, t3}
  Ops = {o1, o2}
  NoTxn = NoTxn
INVARIANTS NamesAgree OnlyDeletionsDeadlock
PROPERTIES StartedShotKeepsName ImplementsQueue
