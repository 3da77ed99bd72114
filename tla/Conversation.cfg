SPECIFICATION Spec
CONSTANTS
  MaxPrompts = 2
  MaxRounds = 1
  MaxCompactions = 2
  MaxCommands = 3
  MaxCrashes = 1
INVARIANTS
  
  
  UndoneStaysGone

  
CHECK_DEADLOCK FALSE
