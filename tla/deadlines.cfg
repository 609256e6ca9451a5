SPECIFICATION TimedSpec
CONSTANTS
  None = None
  Nodes = {1, 2}
  Steps = 2
  MaxResponse = 1
  Timeout = 2
  Settle = 1
  CommandTimeout = 4
  VerifySlack = 1
  PlanSlack = 1
INVARIANTS PromptEditorIsVerified OuterDeadlineIsLast EarlyRefusalHasCause
CHECK_DEADLOCK FALSE
