# TLA+ models of cockpit-system

cockpit-system is the software of a vehicle cockpit computer. A process
manager, Navigator, starts every other module as a child process and groups
them into modes. A transactional over-the-air upgrade replaces the installed
release. A voice agent listens, decides, acts and speaks. The other modules
drive devices, record, publish to ROS 2, stream and show a user interface.

This directory holds TLA+ modules for the parts of it that are hardest to test,
configurations that check them with TLC, and proofs that TLAPS checks.
`PROJECT.json` maps every definition to the lines it models, and lists the
hazards, the runs, one mutant per checked property and the theorems.

## 1. Inventory

| Part | State | Operations | Interacts through | Hard behaviour | What makes it correct |
|---|---|---|---|---|---|
| upgrader, `upgrade_transaction.cc`, `install.sh` | transaction file, version floor, `current`, `releases/` | install, recover, roll back, confirm | files in the install root | power loss between a write and its sync, failed I/O | a complete release to return to; a retry is possible; the floor never goes down; success is durable |
| `tools/safe-ota`, `upgrader_runtime.cc` | lock, request file, result file | recover, standalone, online upgrade | commands to Navigator, files | kills, late replies, a second safe-ota | one upgrade at a time; interrupted upgrades are resolved |
| navigator, `process_manager.cc`, `navigator.cc` | a record per module, mode, critical flag | switch, start, stop, restart, reload, shutdown, reexec; reap and restart | child processes, a command socket | children that exit at any moment, a switch that fails half way | records agree with processes; a switch is all or nothing; critical failures are noticed |
| voice, `voice_interaction_service.cc`, `conversation_state_machine.cc` | conversation state, interrupt generation, active output, action call | request, interrupt, stop, output result, wake notifications | seven kinds of threads | everything interleaves; state read before a slow call and used after it | no stale action; the conversation always becomes usable again; stop returns |
| voice, `async_voice_response_sink.cc` | bounded queue, active output | submit, interrupt, stop, play | callbacks | completion from several threads | each accepted output completes exactly once |
| voice, `voice_input_gate.cc` | prompt thread, stopping flag | process frame, start prompt, stop | calls into the service | prompt against stop | waking ends |
| voice, `audio_playback_client.cc`; driver, `audio_playback.cc` | active playback, cancellation attempts; queue, result table | submit, wait, cancel, interrupt, stop | gRPC | timeout against a late result, cancel before submit, retries | one result per id; one cancellation at a time; silence after an interrupt |
| driver, `audio_capture_*.cc`; voice, `speech_pipeline.cc`, `voice_input_gate.cc` | rings, queues, segment, pre-roll | capture, publish, gate, segment, recognize | rings, a socket | losses at every buffer, reconnects | no utterance across a gap |
| voice, `agent_runtime.cc`, `voice_grpc_service.cc` | the parts and their threads, response history | start, stop, subscribe | callbacks | a start that fails half way, destruction against callbacks | no call into a part that is gone |
| driver, `camera_service.cc` and its sources | preview state, capture generation, device | start, stop, check health, deliver | threads, RPC | a device that is lost and reopened, concurrent calls | stopped is silent; calls return |
| driver, native Argus pipeline; `tools/camera-ctl` | buffer pool, broker, tuning revision, profile file | capture, share, convert, tune, save, load | a daemon, files | slow consumers, failed requests, power loss in a save | a reserve for capture; a profile is whole; a rollback is seen |
| driver, `shared_frame_buffer.cc`; hmi frame client; photos | two slots with robust mutexes | publish, read, take a photo | shared memory | a process dies with a mutex | no torn frame; readers follow a new driver |
| driver vehicle, transfer gateway and RTSP, hmi stream | latest state, event ring, stream positions, fragments | publish, subscribe, reconnect, reassemble | gRPC streams, datagrams | restarts, broken streams, lost datagrams, missed cancels | order and wholeness; stop ends |
| shield, `chassis_safety_adapter.cc` and its hosts | last command, last state, counters | request, evaluate, stop | CAN, ROS 2 | stale inputs, reboots, wrap of one byte counters | no motion without fresh, consistent inputs |
| ros, `ros2_nav2_provider.cc` | pending acknowledgement, goal handle, generation | send, cancel, status | ROS action callbacks | answers after the caller gave up | one goal at a time |
| vanguard, `sentinel_service.cc` | armed flag, event queue, cooldown | submit, arm, disarm, stop | three remote services | calls in flight at a disarm or stop | stop ends |
| agent, `llama_server_*.cc` | child process, restart count, request | start, monitor, stop, generate, cancel | a child process, HTTP | a server that exits or hangs, back-off | no child left behind; requests return |
| spider, recording | session directory, manifest, catalog | start, append, stop, recover, prune, delete | files, RPC | death or power loss between two file operations | complete means whole; interrupted ones are found |
| hmi, media and panels | player state, shown state, pending command | buttons, polls, quit | worker threads, RPC | answers after the deadline, quit against calls | the music ends; panels settle |
| navigator, `ipc_connector.cc` | socket file, lock | open, close, request | a Unix socket | a second Navigator, a killed one | one Navigator on the path |

The components that are not modelled are listed in `PROJECT.json` with the
reason.

## 2. Modules

    UpgradeStore            the install root and what a power loss leaves of it
      UpgradeTransaction    InstallUpgrade, RecoverInterruptedUpgrade, ConfirmUpgrade
        SafeOta             safe-ota, the upgrader module, Navigator as they use it
          OtaProofs         types, and floors that only rise
            OtaDiskProofs   the invariant of the disk and what follows from it
    ProcessManager          Navigator's process manager and run loop
      MCProcessManager      instances for TLC
      ProcessManagerProofs  proofs about it
    Conversation            the conversation state machine
    VoiceResponseSink       the asynchronous response sink
      VoiceInteraction      (with Conversation) every thread of the voice service
        VoiceProofs         proofs about both
    Scene                   which environment a behaviour has
    PlaybackContract        what the audio driver promises
      PlaybackDriver        the driver's playback, which implements it
        PlaybackClient      the voice agent's side of it
    AudioCapture            the driver's microphone path
      SpeechInput           gate, segmenter and recognizer thread
    VoiceAgent              the runtime around them
      AudioPath             (PlaybackClient, SpeechInput, VoiceAgent) composed
        AudioProofs         proofs about the driver's playback, its client and
                            the way from the microphone
    PreviewSource           where preview frames come from
      CameraPreview         CameraService over it
    NativeCamera            the native pipeline: buffers, broker, consumers
      TuningTool            camera-ctl tuning over a native session
    SharedFrame             frames in shared memory, photos
      CameraPath            (CameraPreview, TuningTool, SharedFrame) composed
        CameraProofs        proofs about the three
    VehicleStreams          vehicle data from the bus to the screen
      Sentinel              the sentinel on the same driver
    Recording, EventPublisher, NavBridge, Chassis, Llm, VideoStream, Media,
    HmiPanels, NavigatorSocket
      Services              (these and Sentinel) composed
        ServicesProofs      proofs about the recorder, the bridge, the socket
        VehicleProofs       proofs about the vehicle's streams, the camera's
                            video and chassis safety

### Over-the-air upgrade

`UpgradeStore` keeps two views of the install root. `fs` is what a process
reads. `may` is, for each object, the set of values its directory may hold
after a power loss. A write adds a value to `may`; `SyncPath` on a directory
and `sync -f` leave only the visible one; `LosePower` picks one value per
object. Releases are absent, partial or complete. Directories lose updates
independently of each other, which POSIX allows and a journalling file system
may restrict: what holds here holds there. Objects of one directory (two
releases) may also diverge, for the same reason. A file is written through a
synced temporary and a rename, so it is never seen half written; that is
`PutTxn` and `PutFloor`.

`UpgradeTransaction` is the library. It has one action per call that reads or
changes the root, so that a kill, a power loss or the other process can come
between any two. `pc[p]` says where process `p` is, and labels start with `i_`
(install, including `install.sh`), `r_` (recover and roll back) and `c_`
(confirm). `remove_all` can be seen half done. Package checks (signature,
manifest, checksums) are a disjunct of `InstallCheck` that may refuse at will.

`SafeOta` is `ExecuteSafeOta` (labels `o_`), the upgrader module
(`UpgraderPublish`, `StartUpgrader`) and what they use of Navigator: its mode,
the release its executable is from, and the restart of a dead upgrader. The
constant `Faults` says what the environment does: `io` and `sync` (calls that
fail), `power`, `kill`, and `orphan` (safe-ota and the upgrader it started lose
track of each other: the reply to `switch upgrade` comes too late, safe-ota is
killed at that point, or Navigator restores upgrade mode).

### Navigator

`ProcessManager` is one thread. A command is a sequence of `StartModule` and
`StopModule` calls; each may block for seconds, so each is an action, and a
child may exit before, between and after them (`ChildExits`). A child that
exited is a zombie until `waitpid`, and its record says running until then.
`phase` is the place in `Navigator::Run`; `op` holds the locals of `SwitchMode`
(target, previous modules, loop index) and its outcome. The restart window is a
choice of how many restarts are forgotten; the restart delay is a choice of
`RestartSkip` or `RestartDue`. A `StopModule` that fails on `kill` or `waitpid`
is there when `StopMayFail` is set. The failure injector, a test hook, is not.

### Voice

`Conversation` holds both tables of the state machine: the target an event
names and the pairs `IsTransitionAllowed` admits. `VoiceResponseSink` is the
queue in front of playback. `VoiceInteraction` has a program counter for each
thread that enters the service: the transcript worker, a gRPC request handler,
a gRPC interrupt handler, the sink's worker, the audio thread behind the gate,
the wake prompt thread, and the thread that stops the runtime. An action is
what a thread does between two points where another can be seen: one
`state_machine_.Handle`, one locked section, one atomic. A check and the event
that follows it are therefore two actions wherever the code does not hold a
lock over both (`ReturnToIdle`, `Interrupt`, `HandleOutputResult`,
`ExpireFollowUpIfNeeded`). Providers answer or fail as they please; a timeout
is a failure. What an empty transcript or a disabled service does (nothing) is
left out.

### Scenes

Many parts share no state. `AudioPath`, `CameraPath` and `Services` check
several of them in one run without multiplying their state spaces: a behaviour
picks one scene, a set of words, in its initial state, and the actions by which
a user, a device or a fault begins something name the word they need. Parts
whose words are missing stay in their initial state. Threads that interact are
always in the same scene; only the environment is chosen.

### Sound

`PlaybackDriver` has one action per operation under the driver's mutex; the
device plays between `PlayNext` and `PlayEnds`. `PlaybackContract` says what a
client may rely on: the life of an id, one id sounding at a time, results that
are forgotten but never rewritten. `DriverKeepsContract` is the refinement,
with `status` mapped to the result table and `sounding` to the active request.
`PlaybackClient` is the worker's `SubmitCancellable`, `Interrupt`, `Stop`, and
`RequestPlaybackCancellation`, in which three threads can be at once; RPCs can
fail or be answered late, and `PlayPcm` can be overtaken by a cancellation.
In `AudioCapture` and `SpeechInput` a frame is the period it was heard in, the
capture session and its discontinuity flag; every buffer on the way drops as
the code does. `VoiceAgent` has the parts and the threads of `AgentRuntime`,
every point at which Start gives up, and the order of Stop and destruction.

### Camera

`PreviewSource` has the capture and ISP threads of the software source (the
other sources use the ISP thread's place), with the recovery deadline as a
choice; `CameraPreview` is the caller inside `lifecycle_mutex_` and the frames
that arrive beside it. `NativeCamera` counts buffers: leased by the daemon,
wrapped by the broker, held by consumers. `TuningTool` tries settings on such a
session: `argus` is what the daemon runs and what frames report, and the
profile file has a name, a disk view and a promise. In `SharedFrame` the driver
and the HMI are processes that can die between any two steps with slot locks
held; the slot's header and payload are written in separate actions.

### The other services

`Recording` keeps, for each session, its name (hidden, final or interrupted),
lines written and synced, manifest, markers and artifacts, and `erased`, what a
removal has taken of it. `remove_all` takes a directory apart file by file
(`ErasesFile`) in any order, then takes the directory (`ErasesLast`); nothing of
it is synced, so that a power loss brings any of the files back. `erase` is who
holds the catalog's mutex for a removal: a prune at the start of the process,
at a Start or a Stop, the RPC Prune, or Delete. Refresh and prune are steps of
their own. A recovery is the marker, the rename and the sync of the directory
above, for one session after another; the process or the power may end at each
step of each of the process's lives but the last (`MaxRuns`). That a Stop of an
idle session refreshes and prunes too is left out: `Prune` does the same.
`NavBridge` has the provider's callbacks on their own thread; the two locked
sections before a goal is sent are one step, because nothing that can come
between them tells them apart. `Chassis` counts time in periods, sequences
modulo `SeqSpace` (a byte in the code), the uptime modulo `UptimeSpace` (32 bit,
with the half-range test for its wrap), and speeds in small integers. `LoopStep`
reads the whole socket (`MaxBacklog` is less than the 64 frames the code reads),
`LoopStepFails` is a receive or decoding error, which ends the step without a
command, once the other frames are read. A `Send` that fails and an error that
leaves frames behind are left out: the loop's only caller is its test.
`VehicleStreams` has the driver, the gateway, their servers and four clients; a
stream has a bounded pipe, and the sentinel's client gives up on a status that
is neither UNAVAILABLE nor CANCELLED (`GivesUp`), as when the driver stops in
good order, and its thread ends. `Llm` is
the supervisor and one request. `VideoStream` marks every fragment with the
packet and the opening it came from, which the code cannot see; a new media may
replace one that is not unprepared yet. `Media` and
`HmiPanels` have a worker thread and a GUI thread for each model. In
`NavigatorSocket` inodes come from a small set, so that they are reused.

## 3. Runs

Sizes are those of TLC's search of the complete state space.

| Run | States | Question |
|---|---|---|
| `OtaFaults` | 879,549 | Two versions, all faults but `orphan`, one kill between boots: `Recoverable`, `RetryPossible`, `SuccessIsDurable`, `FloorNeverLowered` |
| `OtaPower` | 9,251 | Power losses alone, under fairness: `NotBelowFloor`, `InterruptedUpgradeResolved` |
| `OtaLock` | violation | `OneUpgradeAtATime`, the documents' claim about `safe-ota.lock` |
| `NavigatorFaults` | 154,205 | Three modules, three modes, failing stops: `RecordConsistent`, `CriticalNotIgnored`, `SwitchAllOrNothing` |
| `NavigatorLive` | 4,741 | Two modules, stops that succeed, under fairness: `NothingLeftBehind`, `ModeIsExclusive`, `DeadModuleHandled`, `CriticalFailureExits` |
| `VoiceInterrupt` | 325,738 | Two requests on two threads, one interrupt: `CompletedAtMostOnce`, `InterruptedActionNotSent` |
| `VoiceLive` | 4,560 | One request, wake word and stop, under fairness: `EveryOutputCompletes`, `UninterruptedRequestEnds`, `WakingEnds`, `StopReturns` |
| `AudioPath` | 99,136 | Ten scenes: `NothingSpliced`, `TableConsistent`, `CancelIsSingleFlight`, `InterruptSilences`, `FocusCoversSpeech`, `DriverKeepsContract`, `AudioCallsReturn` |
| `CameraPath` | 124,950 | Twelve scenes: `StoppedIsSilent`, `NativeSessionSound`, `NoTornFrame`, `CameraCallsReturn`, `HmiFollowsDriver` |
| `Services` | 309,909 | Thirty-eight scenes: `CompleteIsWhole`, `InterruptedIsFound`, `OneAtATime`, `MotionIsSafe`, `AllStreamsInOrder`, `ServicesStop` |
| `VoiceStuck` | violation | `InterruptedRequestEnds`, the documents' claim that an interrupt recovers |
| `VoiceTwice` | violation | `InterruptedActionNotSent` with two interrupts |

### What the violations show

* `OtaLock`. The lock is held by safe-ota; the installation is done by the
  upgrader, Navigator's child, which takes no lock. When safe-ota ends first,
  the next one recovers beside the running upgrader.
* `VoiceStuck`. `Interrupt` raises the generation, and later decides from the
  state whether there is something to recover. A request that has not begun,
  or is already in error recovery, looks inactive; it then finds the new
  generation and leaves. The conversation stays in `recognizing` or
  `error_recovery`, where no wake word is taken and every request is refused.
* `VoiceTwice`. `Interrupt` ends with `ReturnToIdle`, which ends whichever
  request is active by then. A request that began meanwhile goes on with the
  conversation at `idle`; a second `Interrupt` finds nothing active and does
  not cancel its action, which is sent. `InterruptedActionNotSent` therefore
  holds with a single interrupt (`VoiceInterrupt`) and not with overlapping
  ones.

### What was found and is not a property

* After a `sync` failure, or a kill between the write of the floor and its
  sync followed by a power loss, `NotBelowFloor` does not hold: the retry finds
  the floor file equal, does not sync it again and removes the transaction.
  `NotBelowFloor` is checked with power losses alone for that reason.
* With `orphan`, `Recoverable` does not hold either: two processes work on the
  root.
* With `StopMayFail`, a module whose stop failed is no longer desired and goes
  on running; `ModeIsExclusive` and `NothingLeftBehind` need stops that
  succeed.
* A critical module whose first start fails (in a rollback or by `start`) does
  not set `critical_failure_`. `CriticalNotIgnored` speaks of modules that have
  been restarted.

* `NavBridge`. When the wait for Nav2's acknowledgement times out
  (`ros2_nav2_provider.cc:173`) and the acknowledgement is handled before the
  lock at 174, the accepted goal is marked disconnected and a second goal may
  be sent, against `docs/ROS2与Nav2使用说明.md:28`. `OneGoalAtATime` leaves out
  behaviours in which this happened (`nav.overtaken`), and fails without that.
* Stops that can be missed. `SoftwareIspPreviewSource::Stop` and
  `CameraControlModel::Stop` notify without the mutex, `GatewayClient::Stop`
  and `ChassisEventClient::Stop` can run just before the next context is
  published, and `RtspServer` can ask its main loop to quit before it runs. The
  join then waits. The windows are modelled, and `MissedStop`, `CamSettled`,
  `MissedCancel` and `MissedQuit` name them in the properties.
* `HmiControl::Stop` on the GUI thread waits for a call that waits for the GUI
  thread (`hmi_control.cc:35`): the HMI does not quit. Music goes on after quit
  when a media call or a state change ran into its limit
  (`gstreamer_media_player.cc:242`). `MusicEnded` names both.
* A frame that the ISP thread judged just before a device was lost is delivered
  during the recovery (`software_isp_preview_source.cc:297`), against
  `docs/变更记录.md:5`.
* RTSP frame ids begin at zero when the camera opens its publisher again:
  fragments of two openings can be put together, and with three openings two
  such mixtures may even share the packet their first fragment is from.
  `VideoInOrder` names them.
* After a power loss a complete recording may lack artifact files, as
  `artifacts/` is never synced.
* A removal that a death, a power loss or an error cuts short leaves part of a
  recording under its name. When a marker is left the catalog shows what is
  there, and its report may be healthy with lines missing; when none is left,
  no later start finds the rest. `CompleteIsWhole` and `InterruptedIsFound`
  speak of recordings of which no removal took a file.
* When the driver stops in good order it ends the sentinel's stream with OK, and
  the sentinel's client ends its thread with an error instead of waiting for
  the next driver (`chassis_event_client.cc:55`); Navigator has to restart it.
* The first frame of a new capture session carries no discontinuity flag.
* `recording_bridge.cc:19` forwards a frame when its number is 1 modulo the
  interval, which for an interval of 1 is never; found by reading.
* The chassis node sees no interlock that comes and goes between two ticks, and
  a reboot of the controller is not seen when the new uptime is not smaller
  (`c.missed` in `Chassis`).

### Bounds

* `MaxVersion = 2`: an installed release and a newer one, or two installs in
  sequence on an empty device. All comparisons in the code are between the
  candidate, the active release and the floor; with two versions each pair
  occurs in each order. Nothing bounds the number of attempts or power losses.
* `MaxKills = 1`: one process is killed between two boots; the counter starts
  again with each power loss. Navigator's death takes the upgrader with it at
  once (in the code by `PR_SET_PDEATHSIG`, and it may take a moment to leave).
* `N = 3` modules with modes `<<1, 2>>`, `<<1>>` and `<<3>>`: a shared module,
  a subset and a disjoint mode; `RestartLimit = 1`: both sides of the limit.
  The theorems drop these bounds.
* `Capacity = 1`, `MaxRequests` and `MaxInterrupts` up to 2: the queue fills
  with the second response (in `VoiceInterrupt`; in `VoiceLive`, with one
  request, it never fills), and a second request can meet the clean-up of the
  first. `MaxId` is the number of requests, as each publishes at most once.

* Sound: three ids of which one is a wake prompt, a queue and a result table of
  one, so that both overflow; rings and queues of one frame and four periods,
  so that a frame can be lost at each place and sound goes on behind the gap.
* Camera: one loss of the device after which the old and the new generation
  coexist, two calls beside the poll, three buffers with a reserve of one, two
  tuning clients, three revisions; three frames over two slots, so that a slot
  is rewritten under a reader; two lives of the driver.
* Services: two sessions with limits that hold one; `MaxRuns = 3` lives of the
  recorder, so that the recovery of a session can itself be cut short and a
  third start has to finish it; `MaxLines = 1`, with which a session is empty,
  cached or synced; two goals; `SeqSpace = 8` and `UptimeSpace = 8` with windows
  of 2, so that sequences wrap and, in a scene of its own, the uptime does, once
  by itself and once by a reboot that the half-range test cannot see; a reboot
  restarts the sequence of fault frames, of which the first are dropped as old
  until a heartbeat shows it; two lives of driver and gateway
  with pipes and rings of one, and two events, so that one falls out of the
  ring; two servers of the language model, after which a spawn can only fail;
  two packets and two openings of the encoder, two viewers; two buttons or presses per
  panel; two Navigators with two inodes.

`CHECK_DEADLOCK FALSE` is set for Navigator, which ends (`gone`), and for the
voice service, which stops or has no more requests; in the composed runs every
scene comes to an end.

### Fairness

* `SafeOta`: running processes take their steps, and an administrator runs
  `safe-ota --recover` again and again (strong fairness, because a power loss
  can interrupt it each time). The deployment guide asks for it before every
  start of the service.
* `ProcessManager`: the loop runs (`WaitForRequest` has a 100 ms timeout), and
  a restart that is found pending round after round is found due in the end
  (strong fairness of `RestartDue` per module: the delay passes).
* `VoiceInteraction`: every started thread is scheduled, and provider and
  playback calls return, which their deadlines and watchdogs ensure. A gRPC
  thread that waits for the mutex gets it in the end (strong fairness). Nothing
  is assumed about users: no transcript, interrupt, wake word or stop has to
  come.

* The composed runs: each started thread, each process and the GUI's event
  loop take their steps; an RPC is answered or its deadline passes; a process
  manager starts a dead recorder or camera driver again (`RuntimeBegins`,
  `WriterStarts`). No call, fault, device, user or datagram has to come. Where
  a call has no deadline in the code (a gRPC stream, `connect` of the language
  model client), the model says what ends it.

## 4. Proofs

Each theorem below is about the specification the runs check, for every value
of its constants that its module's `ASSUME` admits, and so without the bounds
of section 3. Every safety invariant that a run checks is the subject of one.
The pattern is always the same: an inductive invariant made of named parts,
one lemma for each operation, and a last step in temporal logic.

The composed specifications (`AudioSpec`, `CameraPath!Spec`, `Services!Spec`)
interleave parts that do not share variables. A part's lemmas speak of its own
next-state relation, and a step of another part leaves it alone.

### What is assumed about the constants

| Assumption | Why the code justifies it |
|---|---|
| `SizeAssumption`, `ModesAssumption`, `OptionsAssumption` | `RunConfig::Validate` |
| `VoiceAssumption`: `MaxRequests <= MaxId` | `MaxId` bounds the identifiers; a request publishes at most one response, so they suffice |
| `NativeAssumption`: `None \notin Slots` | 0 stands for no slot |
| `ToolAssumption`: `MaxCycles \in Nat`, `SocketAssumption`, `StreamsAssumption`, `ChassisAssumption` | counts and time limits are numbers; `SeqSpace >= 4` in the last, where the counter is a `uint8`, so that the next number counts as ahead (fewer than half of the values away) |
| `HostAssumption`: no scene has both `loop` and `node` | a `ChassisSafetyAdapter` belongs to one of its two hosts |

A hypothesis of a theorem that is not one of these is part of what is said:

* `~StopMayFail` (`NoModuleSurvives`, `SwitchIsExclusive`). A stop that fails
  has already cleared `desired`, and the process goes on running.
* `"orphan" \notin Faults` (the upgrade's disk). Otherwise two processes work on
  one root and `Recoverable` is false; types and `FloorOnlyRises` need it not.
* `Faults \subseteq {"io", "power"}` (`NeverBelowFloor`): see section 3.
* `~Faulty` inside `FocusCoversSpeech` and `InterruptSilences`: a call to the
  driver that fails leaves the client without knowledge of what plays.
* `NothingForgotten` (`InterruptIsHeeded`): the result table does not push out
  an id that a call still waits for. With a capacity of one TLC finds the way
  around: the cancelled id's tombstone is forgotten and the late `PlayPcm`
  plays. The code keeps 64 results and has at most a handful of ids under way,
  so that this takes 64 others within the delay of one call. The hypothesis is
  a condition on behaviours, and the run checks the same one.

### Navigator: `ProcessManagerProofs`

* `Consistent`: `Inv` is `Table` (types of the records and children, and
  `RecordConsistent`) and `Rest` (types of the other variables, and loop
  indices that are at least 1 in the loops that count up). The second part is
  needed so that the module a loop touches next is a configured one.
  `TypeCorrect` and `RecordsConsistent` follow.
* `CriticalFailureNoticed`: `CriticalNotIgnored` speaks of the command phase
  only. The strengthening is `CriticalNoted`: no critical module is spent
  (failed after a restart), or the flag is set and the loop is between the
  reaping and the end of `StopAll`.
* `SwitchIsAllOrNothing`: the strengthening is `Progress`. In the start loop,
  the desired modules lie within the target mode and the part of it that is
  already started is desired and running; in the rollback, those before the
  index that were desired are desired again, nothing else is, and they run
  unless the outcome is failed.
* `NoModuleSurvives`, `SwitchIsExclusive`: `Wanted` (a process of an undesired
  module is gone or being stopped) and `Swept` (the loops that stop modules
  have none left behind their index).

### Upgrade: `OtaProofs`, `OtaDiskProofs`

* `OtaTypes`, `OtaTypeOK`, `FloorOnlyRises` hold for any faults. What is visible
  may always be found after a power loss (`Visible`), so that the floor that is
  compared is one of those that may be found.
* `OtaInvariant`: `OtaInv` is the types, `Disk`, `Phase` of each process,
  `Turns` and `Places`. `Disk` says that the root is `Settled` (without a
  transaction in any image) or `Moving` (a transaction may be found, and then
  both releases it names are what its state says). `Phase(p)` says what process
  `p` knows at each label; this is what ties the order of writes and syncs to
  the images. `Turns` says that safe-ota waits while the upgrader works.
  `AlwaysRecoverable`, `AlwaysRetryable` and `ReportedSuccessIsDurable` are
  read off it.
* `NeverBelowFloor` adds `FloorInv`: no image has a floor above the release it
  would boot, unless its transaction is confirmed and names that release.

### Voice: `VoiceProofs`

`VoiceInv` has the shape of every thread's locals at each label (`Shape`), the
sink (`QueuedOK`, `PlayingOK`, `SinkOK`), the service (`ServiceOK`), the
generation (`StopYet`) and `Counted`: responses published plus those still owed
(`Debt`) by a thread are at most the requests begun. `Debt` is what keeps the
identifiers fresh, and with it `CallbackAtMostOnce`: outputs that are queued,
playing, taken out by a discard or being called back are distinct and accepted,
and none of them has been called back.

### Sound: `AudioProofs`

* `PlaybackInv` is `DriverInv` (the result list has exactly the ended ids, once;
  the pending ones are the queue and the active one) and `ClientInv` (one owner
  of a cancellation, ids that are fresh until they are registered, calls
  counted by attempts). `ResultTableConsistent`, `CancellationSingleFlight`, and
  `DriverImplementsContract`: initial states map to initial states, and each
  driver operation to one step of `PlaybackContract` or a stutter.
* `SpeechHasFocus`: `FocusInv` says where in its work the worker has the focus
  and that the driver knows no speech id that the worker has given up.
* `InterruptIsHeeded`: `InterruptInv` ties the generation the worker read to
  what `Interrupt` counted (`Generations`), says what each canceller has already
  reached (`CancelPlaces`, `AttemptsCount`), and that a call that returned left
  the response silenced (`CallsSilence`): ended, or active and cancelled, or a
  tombstone that refuses it.
* `SpeechIsWhole`: the way from the device to the agent is one chain (`Flows`):
  publisher queue, frame held by the controller, ring, next read; each frame
  follows the one before in its session or is flagged. The chain begins at
  `Known`, the last frame the publisher's present client got, or nothing when
  there is none or a gap is to be flagged. `SegmenterOK` says that what the
  segmenter holds is `Strict`: no gap inside.

### Camera: `CameraProofs`

* `FramesAreWhole`: `SharedInv`. The header and the payload of a slot agree
  unless a writer holds its lock or died with it (`SlotsAgree`, `WriterLocks`), a
  reader that copies holds the lock (`ReadersLock`), and a photo is linked only
  when its file is synced (`PhotoSynced`).
* `PreviewFallsSilent`: outside a call, a stopped service has both threads off
  and no callback (`Silent`), and frames are counted once.
* `NativeSessionsAreSound`: `NativeInv` counts leases, frames wrapped and frames
  held (`Counted`, `Leases`, `Places`); a frame that a place wraps is not wrapped
  in another. `ToolInv` says that a step that saves follows one that has seen
  the setting in frames (`SaveIsVerified`), what each image of the profile file
  is (`FileWhole`), and that the way back is known until a rollback was seen
  (`WayBack`).

### Services: `ServicesProofs`

`ServicesInv` has one part for each of three components.

* Recorder (`FinalRecordingsAreWhole`): `RecordInv` relates each session's lines
  to what is cached and synced (`InOrder`, `Indexed`), a final name to a synced
  manifest (`Durable`), and the place in `Stop` to what is already durable
  (`InStop`). A removal changes `erased` alone, so these hold of what a power
  loss brings back; the theorem speaks of every number of lives, and of deaths
  in every step of a recovery or a removal.
* Bridge (`OneGoalAndOneNavigator`): `ProviderInv` says that a goal only moves
  forward, what the awaited one is, and that one at most goes, but for the
  overtaken acknowledgement; `BridgeKnows` ties the bridge's step to it. Steps
  that end a goal or change none (`Calm`) keep it.
* Socket: `LockHeld` (who is past the lock holds it), `PathKept` (what it bound
  is on the path), `ExecutedOnce`. Inodes are used again, which is why the path
  is compared by the file and not by its number.

### Vehicle: `VehicleProofs`

`VehicleInv` has one part for each of three more.

* The vehicle's streams (`EverythingInOrder`): states and events are numbered as
  the bus brings them. `StreamInv` says of each stop on the way (the driver's
  latest state and its ring, the pipes, the gateway's copy, each client) that
  what it holds is of one life of the driver or gateway, ascends, and lies
  above what its consumer has already been given; the ring is a window of
  consecutive events, which is why a subscriber that is behind it sees a gap
  and not a repetition. `ScreenOK` compares what the screen shows with `Top`,
  the highest it has been given in the connection it is in.
* The camera's video (`EverythingInOrder`): within one opening of the publisher
  frame ids and serials keep step (`Span`), so that what a client was given
  (`Gone`), what is being put together (`Before`) and what can still arrive
  (`Coming`) follow each other. A packet put together from two openings is
  `Mixed`, and the property lets only such packets stand beside each other.
* Chassis safety (`MotionAlwaysSafe`), in both hosts: `MotionOK` says that a
  waiting request is newer than the last stop and the adapter's speed within
  the limit. Over CAN, `CanOK` ties what the client and the tracker know
  (`Heard`) to what is still in the socket (`Awaits`, `BusOK`). Its core is
  `Expects`: the sequences of fault frames follow each other through the
  socket to the one the controller sends next, so that as long as a report is
  fresh the next one is one ahead and cannot look old (`IsLatest`), whatever
  heartbeats, timeouts and lost baselines come between. A reboot starts the
  sequences again, but what is reported after it is a fault. `LoopStep` reads
  the whole socket in one step: `AllRead` shows by the least frame that could
  break it that each frame read keeps `KnownAfter`. The property excuses
  a reboot that the uptime does not show (`missed`), and `Heard` says that
  nothing else lets a report of the first boot outlive it.

### Model-checked only

* Liveness, with fairness: `InterruptedUpgradeResolved`, `DeadModuleHandled`,
  `CriticalFailureExits`, `EveryOutputCompletes`, `UninterruptedRequestEnds`,
  `WakingEnds`, `StopReturns`, `AudioCallsReturn`, `CameraCallsReturn`,
  `HmiFollowsDriver`, `InterruptedIsFound`, `ServicesStop`. The prover handles
  neither fairness nor ENABLED.
* `InterruptedActionNotSent`: it is false with two interrupts (`VoiceTwice`), and
  nothing but the bound of one makes it true.

## 5. Not modelled

Contents: packages, texts, audio samples, images, JSON and HTTP. Time, except
as a choice of whether a delay or timeout has passed, and as periods in
`Chassis`. Command parsing, status texts, metrics, crash reports, logs. The
manual `deploy/rollback.sh`, which moves `current` outside the lock, the
transaction and the floor. Image processing and camera calibration
(`eunomia`), projection mathematics, configuration parsing, the message bus,
codecs of CAN frames, QML. External programs (Nav2, llama-server, GStreamer,
the Argus daemon, sherpa models) are what the code sees of them. The
components listed as not modelled in `PROJECT.json`.

## 6. Plan

1. The camera's events for the recorder: message bus, bounded queue and bridge.
2. An abstract upgrade (a device has one good release; an upgrade switches it
   atomically) that `SafeOta` refines under power losses.
