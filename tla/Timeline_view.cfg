\* One turn and a client that reads, projects and polls.
SPECIFICATION FairSpec
CONSTANTS
  Text = {p}
  By = {"bridge", "desktop"}
  Ends = {"completed"}
  Tools = {}
  Client = TRUE
  StoreBase = 0
  MaxTurn = 1
  MaxNotes = 2
  MaxWire = 1
  MaxExit = 0
  MaxMiss = 1
INVARIANTS ErasedHidden
PROPERTIES Settles
CHECK_DEADLOCK FALSE
