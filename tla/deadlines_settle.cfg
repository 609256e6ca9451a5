SPECIFICATION TimedSpec
CONSTANTS
  None = None
  Nodes = {1, 2}
  Steps = 1
  MaxResponse = 1
  Timeout = 2
  Settle = 1
  CommandTimeout = 2
  VerifySlack = 1
  PlanSlack = 1
INVARIANTS RefusedOnlyAfterTimeout
CHECK_DEADLOCK FALSE
