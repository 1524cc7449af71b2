\* Interrupt at every point of one request, nothing else going on.
CONSTANTS
  Capacity = 1
  MaxId = 2
  MaxRequests = 1
  MaxInterrupts = 1
  Uses = {}
SPECIFICATION FairSpec
PROPERTIES
  InterruptedRequestEnds
CHECK_DEADLOCK FALSE
