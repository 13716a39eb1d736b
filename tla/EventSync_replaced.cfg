\* Two failures of any kind: up to three sockets, and a new database; pages of one event.
SPECIFICATION FairSpec
CONSTANTS
  Hidden <- SecondHidden
  PageSize = 1
  MaxSeq = 4
  MaxStream = 2
  MaxDrop = 2
INVARIANTS CursorCovers OneRunAtATime
PROPERTIES StoredInOrder CatchesUp Reconnects
CHECK_DEADLOCK FALSE
