\* A list that repairs two threads, the creation of one of them, and changes in between.
SPECIFICATION FairSpec
CONSTANTS
  Thread = {1, 2}
  Project = {1, 2}
  RootsOf <- Roots
  Path <- Paths
  NoProject = 0
  NoPath <- Nowhere
  Caller = {"list", "create"}
  TodoOf <- Repairs
  ReadsOf <- Sources
  Repeats = {"list"}
  CwdOf <- Cwds
  Existing = {1}
  MaxEdit = 1
  MaxFail = 1
INVARIANTS UpdatesKept CacheFresh PlacedOnce
PROPERTIES RepairedAtLast
CHECK_DEADLOCK FALSE
