\* Power losses only, under fairness.
CONSTANTS
  MaxVersion = 2
  MaxKills = 0
  Faults = {"power"}
SPECIFICATION FairSpec
INVARIANTS
  NotBelowFloor
PROPERTIES
  InterruptedUpgradeResolved
