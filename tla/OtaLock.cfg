\* safe-ota may be killed while the upgrader it started is still installing.
CONSTANTS
  MaxVersion = 2
  MaxKills = 1
  Faults = {"kill", "orphan"}
SPECIFICATION Spec
INVARIANTS
  OneUpgradeAtATime
