SPECIFICATION Spec
CONSTANTS
  N = 4
  Refused = {4}
  MaxPanics = 1
INVARIANTS ToldAsAnswered LinksLeadToChildren
CHECK_DEADLOCK FALSE
