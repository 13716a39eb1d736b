\* The page, its tokens and its WebSocket: two pairings, two things asking for
\* a refresh at a time, one fault of any kind.
CONSTANTS
  MaxDevice = 2
  ByPassword <- FirstByPassword
  MaxBusy = 2
  MaxFault = 1
SPECIFICATION FairSpec
INVARIANTS KeepsPairing ReloadKeepsPairing
PROPERTIES StaysConnected
CHECK_DEADLOCK FALSE
