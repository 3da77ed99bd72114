SPECIFICATION Spec
CONSTANTS
  Prompts = {p1, p2}
  Deliveries = {"queue", "steer"}
  MaxLoops = 2
  MaxToolRounds = 1
  MaxCancels = 1
  MaxFailures = 1
INVARIANTS OneLoop BufferFollowsStore SubmissionOrder
PROPERTIES LedgerSpec
CHECK_DEADLOCK FALSE
