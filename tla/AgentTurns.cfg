SPECIFICATION Spec
CONSTANTS
  Shapes <- MCShapes
  MaxRounds = 1
  MaxPrompts = 2
  MaxFailures = 2
  MaxCrashes = 1
INVARIANTS OneLiveDraft CallsAnswered ResultsHaveCalls
PROPERTIES HistoryIsKept CancelEndsTask
CHECK_DEADLOCK FALSE
