SPECIFICATION ViewSpec
CONSTANTS
  Sessions = {s1, s2}
  MaxMessages = 2
  MaxSelects = 2
  MaxReverts = 2
  MaxMishaps = 1
  MaxCalls = 2
SYMMETRY Symmetry
INVARIANTS ViewIsStored
PROPERTIES ShownStays
CHECK_DEADLOCK FALSE
