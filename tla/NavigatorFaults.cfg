\* Children exit and stops or starts fail at any point of a command.
CONSTANTS
  N = 3
  ModeModules <- MCModeModules
  Initial = "normal"
  Critical <- MCCritical
  RestartLimit = 1
  StopMayFail = TRUE
SPECIFICATION Spec
INVARIANTS
  TypeOK
  RecordConsistent
  CriticalNotIgnored
PROPERTIES
  SwitchAllOrNothing
CHECK_DEADLOCK FALSE
