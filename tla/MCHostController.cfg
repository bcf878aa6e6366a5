SPECIFICATION Spec
CONSTANTS
  Name <- MCName
  Fold <- MCFold
  Trim <- MCTrim
  Listable <- MCListable
  Askable <- MCListable
  MaxProfiles = 2
  Fits <- MCFits
  FirstText <- MCText
  Commands <- MCCommands
  Controller = {"c1"}
  Plugin = "plugin"
  Pid = {1, 2}
  Requested = {"basic", "SETTINGS"}
  MaxBirths = 3
INVARIANTS
  ClosesTheRightHost
  AnswersAreTrue
  IniStaysUsable
CHECK_DEADLOCK FALSE
