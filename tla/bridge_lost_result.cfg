SPECIFICATION BridgeSpec
CONSTANTS
  None = None
  Nodes = {1, 2}
  Steps = 2
  MaxResponse = 0
INVARIANTS LostResultIsUnknown
CHECK_DEADLOCK FALSE
