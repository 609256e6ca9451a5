SPECIFICATION Spec
CONSTANTS
  c1 = c1  c2 = c2  p1 = p1  p2 = p2  f1 = f1  f2 = f2  x1 = x1  x2 = x2
  d1 = d1  d2 = d2  plain = plain  elevated = elevated
  NoOne = NoOne  None = None
  Coordinators = {c1, c2}
  Projects = {p1}
  Files = {f1}
  SessionChoices <- OwnFiles
  Directories = {d1, d2}
  DirOf <- OwnDirs
  Pids = {x1, x2}
  Commands = {"ensure", "run", "close"}
  Rights = {plain, elevated}
  MayRead <- Elevation
  Requesters = {plain, elevated}
  MaxRequests = 4
  MaxBirths = 2
  MaxCrashes = 1
SYMMETRY Symmetry
INVARIANTS LaunchedOnce NoCloseDuringScript ClosedMeansGone RefusalUntouchedUnlessRelaunch
CHECK_DEADLOCK FALSE
