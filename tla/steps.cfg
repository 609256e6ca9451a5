SPECIFICATION Spec
CONSTANTS
  Scripts = {s1}
  Names = {"main", "x", "y"}
  Sources <- MCSources
  VarChoices <- MCVars
  BadNames = {"__name__", "__file__", "__builtins__"}
  NoFile = no_file
  MaxSteps = 2
  MaxPlans = 2
  MaxEdits = 1
INVARIANTS TypeOK GlobalsClean OwnNamesOnly MainOnce LateCodeFindsNothing
  RunsWhatWasPrepared
CHECK_DEADLOCK FALSE
