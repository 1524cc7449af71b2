\* Every way a request, a wake prompt and shutdown can end, without interrupt.
CONSTANTS
  Capacity = 1
  MaxId = 2
  MaxRequests = 1
  MaxInterrupts = 0
  Uses = {"wake", "stop"}
SPECIFICATION FairSpec
PROPERTIES
  EveryOutputCompletes
  UninterruptedRequestEnds
  WakingEnds
  StopReturns
CHECK_DEADLOCK FALSE
