SPECIFICATION LockSpec
CONSTANTS
  Txns = {t1, t2}
  Ops = {o1}
  NoTxn = NoTxn
INVARIANT ForceDeleteNeverBlocksAWorker
