\* Two turns of every kind, told only to the store.
SPECIFICATION Spec
CONSTANTS
  Text = {p, q}
  By = {"bridge", "desktop"}
  Ends = {"completed", "interrupted", "failed"}
  Tools = {1}
  Client = FALSE
  StoreBase = 0
  MaxTurn = 2
  MaxNotes = 2
  MaxWire = 1
  MaxExit = 1
  MaxMiss = 0
SYMMETRY Prompts
INVARIANTS HistoryExact ActiveTrue
CHECK_DEADLOCK FALSE
