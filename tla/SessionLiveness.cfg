SPECIFICATION Spec
CONSTANTS
  Prompts = {p1}
  Deliveries = {"queue", "steer"}
  MaxLoops = 2
  MaxToolRounds = 1
  MaxCancels = 1
  MaxFailures = 1
PROPERTIES EveryTaskEnds StoredIsAsked
CHECK_DEADLOCK FALSE
