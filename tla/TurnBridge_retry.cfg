\* One message posted twice; one exit of the app-server, one crash of the bridge.
SPECIFICATION Spec
CONSTANTS
  t1 = t1  t2 = t2  c1 = c1  c2 = c2
  k1 = k1  k2 = k2  k3 = k3  x1 = x1
  NoTurn = NoTurn
  Thread = {t1}
  Client = {c1}
  Call = {k1, k2}
  Cancel = {}
  ThreadOf <- OneThread
  ClientOf <- PairClientOf
  CancelThread <- NoCancel
  Slow = {k1, k2}
  ForeignThreads = {}
  MaxExits = 1
  MaxBridgeRestarts = 1
INVARIANTS AtMostOnce ReleasedNeverRuns RecordedAnswersTrue
PROPERTIES DoneIsFinal KeepsMessageOnce
CHECK_DEADLOCK FALSE
