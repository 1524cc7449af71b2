\* A second interrupt while the first one is still cleaning up.
CONSTANTS
  Capacity = 1
  MaxId = 2
  MaxRequests = 2
  MaxInterrupts = 2
  Uses = {}
SPECIFICATION Spec
PROPERTIES
  InterruptedActionNotSent
CHECK_DEADLOCK FALSE
