\* A list and a visitor of one session, one change of anything outside.
SPECIFICATION FairListSpec
CONSTANTS
  Thread = {1, 2}
  Project = {1}
  RootsOf <- Roots1
  Path <- Paths
  NoProject = 0
  NoPath <- Nowhere
  Rollout = {1}
  IdOf <- OneId
  Dir <- Paths
  Reader = {"list", "visit"}
  Nobody = "nobody"
  MaxTime = 1
  Lister = {"list"}
  Visitor = {"visit"}
  Subject = {1}
  Remote = {1}
  Announced <- FirstMoves
  Allowed = {}
  RowCwd <- InB
  States <- SomeStates
  Indexes <- NoneOrAll
  MaxChange = 1
INVARIANTS DeletedHidden OneRow ChecksEnd ForcedSees
PROPERTIES AccessSettles CatalogForward
CHECK_DEADLOCK FALSE
