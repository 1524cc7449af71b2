CONSTANTS
    MaxSessions = 2
    MaxLines = 1
    MaxRuns = 3
    SessionBytes = 2
    TotalBytes = 2
    KeepSessions = 1
    MaxGoals = 2
    MaxTime = 4
    MaxBacklog = 2
    Window = 2
    CommandLife = 1
    SeqSpace = 8
    UptimeSpace = 8
    TopSpeed = 2
    Ramp = 1
    MaxWall = 2
    MaxVersion = 2
    MaxEvents = 2
    MaxLives = 2
    MaxPipe = 1
    IdleLimit = 2
    RingSize = 1
    MaxAttempts = 2
    QueueCapacity = 1
    MaxSpawns = 2
    RestartLimit = 1
    FailureThreshold = 2
    MaxChunks = 3
    PublishCapacity = 1
    MaxRequests = 3
    MaxFragments = 2
    MaxPackets = 2
    MaxOpens = 2
    MaxDatagrams = 1
    MaxViewers = 2
    Tracks = 2
    MaxClicks = 2
    MaxPosted = 2
    Apps = {"music", "phone"}
    NumChecked = 2
    HistoryLimit = 1
    MaxPresses = 2
    MaxChanges = 2
    MaxInbox = 2
    Navigators = {"old", "new"}
    Inodes = {1, 2}
    MaxBinds = 3
    Scenes = {{"record", "artifact"},
              {"record", "delete", "crash"},
              {"record", "line", "power"},
              {"record", "io"},
              {"goal", "slow"},
              {"goal", "expire"},
              {"chassis", "loop", "reboot"},
              {"chassis", "loop", "reboot", "wrap"},
              {"chassis", "loop", "motion"},
              {"chassis", "loop", "fault"},
              {"chassis", "loop", "control"},
              {"chassis", "node", "fault"},
              {"chassis", "node", "control"},
              {"vehicle", "frames", "gateway", "hmi", "restart"},
              {"vehicle", "frames", "gateway", "hmi", "gateway dies"},
              {"vehicle", "frames", "gateway", "hmi", "stop"},
              {"vehicle", "frames", "gateway", "ask"},
              {"vehicle", "frames", "gateway", "end"},
              {"vehicle", "frames", "recorder", "restart", "can"},
              {"vehicle", "frames", "recorder", "end", "can"},
              {"vehicle", "events", "sentinel", "arm"},
              {"vehicle", "events", "sentinel", "stop"},
              {"vehicle", "sentinel", "stop", "restart"},
              {"llm", "llmstop"},
              {"llm", "ask llm", "llmcancel"},
              {"publish"},
              {"video", "encoder", "viewer"},
              {"video", "viewer", "rtsp stop"},
              {"music", "quit", "eos"},
              {"music", "voice", "quit"},
              {"music", "gst", "error"},
              {"music", "slow", "quit"},
              {"apps", "panel quit"},
              {"cam panel", "panel quit"},
              {"voice panel", "panel quit"},
              {"sen panel", "panel quit"},
              {"health", "panel quit"},
              {"socket", "client", "kill"}}
SPECIFICATION Spec
INVARIANTS CompleteIsWhole OneAtATime
PROPERTIES InterruptedIsFound MotionIsSafe AllStreamsInOrder ServicesStop
CHECK_DEADLOCK FALSE
