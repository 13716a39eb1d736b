\* Two messages of one conversation; one of each thing that can come in between.
SPECIFICATION Spec
CONSTANTS
  Session = {1}
  SessionOf <- OneSession
  MaxRow = 2
  MaxLost = 1
  MaxPoll = 1
  MaxWait = 0
  MaxClick = 1
  MaxEdit = 1
  MaxReset = 1
  MaxReload = 1
INVARIANTS NothingLost
PROPERTIES PostedInOrder CancelledNotPosted
CHECK_DEADLOCK FALSE
