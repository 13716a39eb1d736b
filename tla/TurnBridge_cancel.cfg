\* A message and a cancel on a thread where another Codex process has a turn open.
SPECIFICATION FairSpec
CONSTANTS
  t1 = t1  t2 = t2  c1 = c1  c2 = c2
  k1 = k1  k2 = k2  k3 = k3  x1 = x1
  NoTurn = NoTurn
  Thread = {t1}
  Client = {c1}
  Call = {k1}
  Cancel = {x1}
  ThreadOf <- OneThread
  ClientOf <- SoloClientOf
  CancelThread <- OneCancel
  Slow = {k1, x1}
  ForeignThreads = {t1}
  MaxExits = 0
  MaxBridgeRestarts = 0
PROPERTIES EveryCallAnswered
CHECK_DEADLOCK FALSE
