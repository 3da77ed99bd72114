SPECIFICATION Spec
CONSTANTS
  Requests = {r1, r2}
  MaxTokens = 3
  MaxSaves = 1
INVARIANTS StaysLoggedIn OneRefreshForARefusal
PROPERTIES EveryRequestEnds
CHECK_DEADLOCK FALSE
