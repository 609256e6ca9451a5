SPECIFICATION FairBridgeSpec
CONSTANTS
  None = None
  Nodes = {1, 2}
  Steps = 3
  MaxResponse = 1
INVARIANTS BridgeTypeOK CompletedMeansWholePlan FailureIsKnown FilesOutliveClient
  OnlyVerifiedNodesRun InOrderAndOnce StatusIsTrue EveryCallbackClosed
PROPERTIES KeepsPromise KeepsInterface Returns
CHECK_DEADLOCK FALSE
