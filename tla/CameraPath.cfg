CONSTANTS
    IspQueue = 1
    MaxGenerations = 1
    MaxPreviewCalls = 2
    Slots = {1, 2, 3}
    CaptureReserve = 1
    TransformCapacity = 1
    TuningClients = {1, 2}
    MaxNativeSessions = 1
    MaxRevisions = 3
    PhaseFrames = 2
    PhaseSlack = 1
    MaxCommands = 2
    MaxCycles = 2
    MaxRegions = 2
    MaxFrames = 3
    Scenes = {{"camera", "isp", "unplug"},
              {"camera", "isp", "down", "stall"},
              {"camera", "unplug", "stall", "down"},
              {"native", "lost"},
              {"native", "encode", "lost"},
              {"native", "tuning"},
              {"tool", "profile", "daemon"},
              {"tool", "again", "disk", "power out"},
              {"shared", "hmi", "driver dies"},
              {"shared", "hmi", "hmi dies"},
              {"shared", "hmi", "close"},
              {"shared", "photo", "driver dies"}}
SPECIFICATION Spec
INVARIANTS StoppedIsSilent NativeSessionSound NoTornFrame
PROPERTIES CameraCallsReturn HmiFollowsDriver
CHECK_DEADLOCK FALSE
