SPECIFICATION McpSpec
CONSTANTS
  Tasks = {k1, k2}
  Callers = {c1, c2}
  MaxCommands = 3
  MaxCalls = 2
INVARIANTS ConnectedHasClient ClientsAreCurrent
PROPERTIES ConnectingEnds
CHECK_DEADLOCK FALSE
