\* Two decisions; two children of the app-server, with two requests each.
SPECIFICATION Spec
CONSTANTS
  d1 = d1  d2 = d2
  Decider = {d1, d2}
  MaxChild = 2
  MaxAsk = 1
  MaxEpoch = 3
SYMMETRY DeciderSymmetry
INVARIANTS AnsweredOnce OneWinner AnswerReachesAsker PendingIsCurrent
PROPERTIES ResolvedIsFinal
CHECK_DEADLOCK FALSE
