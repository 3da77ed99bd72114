SPECIFICATION SpecAll
CONSTANTS
  r1 = r1
  r2 = r2
  r3 = r3
  r4 = r4
  s1 = s1
  s2 = s2
  Requests = {r1, r2, r3, r4}
  Sessions = {s1, s2}
  SessionOf <- MCSessionOf
  Nested = {r1}
  Unheard = {r4}
  Tabs = {t1, t2}
  Bridge = bridge
  Terminal = terminal
  MaxConnects = 2
  Asked <- MCAsked
  Paths <- MCPaths
  Tools <- MCTools
SYMMETRY Symmetry
INVARIANTS NothingMissed FirstResponseWins DecisionsFit WaitingIsShown
CHECK_DEADLOCK FALSE
