\* Fair scheduling of the run loop; every stop succeeds.
CONSTANTS
  N = 2
  ModeModules <- MCTwoModes
  Initial = "normal"
  Critical <- MCCritical
  RestartLimit = 1
  StopMayFail = FALSE
SPECIFICATION FairSpec
INVARIANTS
  NothingLeftBehind
PROPERTIES
  ModeIsExclusive
  DeadModuleHandled
  CriticalFailureExits
CHECK_DEADLOCK FALSE
