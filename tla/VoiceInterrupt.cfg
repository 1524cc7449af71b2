\* Two requests on two threads with an interrupt at any point.
CONSTANTS
  Capacity = 1
  MaxId = 2
  MaxRequests = 2
  MaxInterrupts = 1
  Uses = {"rpc"}
SPECIFICATION Spec
INVARIANTS
  TypeOK
  CompletedAtMostOnce
PROPERTIES
  InterruptedActionNotSent
CHECK_DEADLOCK FALSE
