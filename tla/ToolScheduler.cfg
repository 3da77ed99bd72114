SPECIFICATION Spec
CONSTANTS
  N = 5
  ReadOnly = {1, 2, 4}
  MaxPanics = 1
INVARIANTS WritesRunAlone MixupsAreCounted
PROPERTIES QuietAfterReturn CancelEndsBatch
CHECK_DEADLOCK FALSE
