CONSTANTS
  Playbacks = {1, 2, 3}
  PromptIds = {3}
  QueueCapacity = 1
  ResultCapacity = 1
  MaxRequests = 1
  MaxSegments = 1
  MaxInterrupts = 1
  RingCapacity = 1
  QueueLimit = 1
  SocketFrames = 1
  MaxPeriods = 4
  FewPeriods = 2
  MaxSessions = 2
  MaxConnects = 2
  PreRoll = 1
  MaxSegment = 3
  SegmentRing = 1
  KeepResponses = 1
  MaxResponses = 3
  MaxAgentStarts = 2
  Scenes = {{"speak", "prompt"}, {"speak", "interrupt", "stop"}, {"speak", "interrupt", "driver"}, {"speak", "interrupt", "faults"}, {"sound", "reconnect"}, {"sound", "few", "restart", "device"}, {"sound", "few", "down"}, {"agent"}, {"agent", "subscribe"}, {"agent", "disabled"}}
SPECIFICATION AudioSpec
INVARIANTS NothingSpliced TableConsistent CancelIsSingleFlight InterruptSilences FocusCoversSpeech
PROPERTIES DriverKeepsContract AudioCallsReturn
CHECK_DEADLOCK FALSE
