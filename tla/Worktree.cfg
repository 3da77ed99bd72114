SPECIFICATION FilesSpec
CONSTANTS
  Users = {u1, u2}
  Files = {f1, f2}
  Contents = {c1, big}
  Large = {big}
  Absent = Absent
  NoTree = NoTree
  MaxTurns = 2
  Budgets <- MCBudgets
INVARIANTS
  UndoRestores
PROPERTIES
  UserFilesAreKept
  RedoRestores
SYMMETRY Symmetry
CHECK_DEADLOCK FALSE
