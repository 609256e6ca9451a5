SPECIFICATION FairSpec
CONSTANTS
  a = a  b = b  c = c  NoOne = NoOne
  Processes = {a, b, c}
  Timeouts = {0, 3}
  PollInterval = 2
  MaxTime = 7
INVARIANTS TypeOK NoWaitPastDeadline
PROPERTIES RefusedOnlyIfTakenAtDeadline KeepsPromise EveryPollEnds
CHECK_DEADLOCK FALSE
