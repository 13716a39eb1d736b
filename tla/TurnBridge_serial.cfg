\* Two messages for one thread and a cancel; no request times out, no process exits by itself.
SPECIFICATION Spec
CONSTANTS
  t1 = t1  t2 = t2  c1 = c1  c2 = c2
  k1 = k1  k2 = k2  k3 = k3  x1 = x1
  NoTurn = NoTurn
  Thread = {t1}
  Client = {c1, c2}
  Call = {k1, k3}
  Cancel = {x1}
  ThreadOf <- SameThread
  ClientOf <- ApartClientOf
  CancelThread <- OneCancel
  Slow = {}
  ForeignThreads = {}
  MaxExits = 0
  MaxBridgeRestarts = 0
INVARIANTS OneTurnPerThread QueueServes ActiveNotEnded
CHECK_DEADLOCK FALSE
