SPECIFICATION Spec
CONSTANTS
  Tabs = {t1, t2}
  Capacity = 2
  MaxEvents = 4
  MaxBreaks = 2
  MaxRestarts = 1
INVARIANTS WholeStream GapsExplained RepeatsExplained
PROPERTIES CatchesUp
CHECK_DEADLOCK FALSE
