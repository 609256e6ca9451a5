SPECIFICATION Spec
CONSTANTS
  Dirs = {"main", "copy"}
  Names = {"Game", "A=B"}
  Projects <- MCProjects
  EqualsSign = {"A=B"}
  Relative = relative
  Engines <- MCEngines
  Environments <- MCEnvironments
  Visible <- MCVisible
  Slots = {1, 2}
  MaxUsers = 1
  MaxRequests = 2
  None = None
INVARIANTS ClientMeetsItsLaunch
PROPERTIES FoundIsTheProject SecondEditorOnlyIfHidden
CHECK_DEADLOCK FALSE
