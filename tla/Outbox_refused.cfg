\* Two messages, and nothing that fails: one is refused while a turn runs.
SPECIFICATION FairSpec
CONSTANTS
  Session = {1}
  SessionOf <- OneSession
  MaxRow = 2
  MaxLost = 0
  MaxPoll = 0
  MaxWait = 1
  MaxClick = 0
  MaxEdit = 0
  MaxReset = 0
  MaxReload = 0
PROPERTIES EveryRowPosted
CHECK_DEADLOCK FALSE
