\* Power losses, process kills, write and sync failures at every step.
CONSTANTS
  MaxVersion = 2
  MaxKills = 1
  Faults = {"io", "sync", "power", "kill"}
SPECIFICATION Spec
INVARIANTS
  TypeOK
  Recoverable
  RetryPossible
  SuccessIsDurable
PROPERTIES
  FloorNeverLowered
