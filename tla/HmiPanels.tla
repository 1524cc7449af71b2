----------------------------- MODULE HmiPanels ------------------------------
(***************************************************************************)
(* The HMI's panels for applications, camera, voice, sentinel and service  *)
(* health.  Each model has a worker thread that makes the remote calls and *)
(* posts the results to the GUI thread, a command slot or queue between    *)
(* the two, and a Stop that joins the worker.  The field `real' of a panel *)
(* is the state of the service it shows.                                   *)
(***************************************************************************)
EXTENDS Naturals, Sequences, Scene

CONSTANTS
    Apps,           \* rows of the launcher
    NumChecked,     \* services of the health panel
    HistoryLimit,   \* kHistoryLimit
    MaxPresses,     \* bound: buttons pressed
    MaxChanges,     \* bound: changes of the services
    MaxInbox        \* bound: results in the queue of the GUI thread

VARIABLES
    launcher,    \* AppLauncherModel
    camPanel,    \* CameraControlModel
    voicePanel,  \* VoiceStatusModel
    senPanel,    \* SentinelStatusModel
    health       \* ServiceHealthModel

panelVars == <<launcher, camPanel, voicePanel, senPanel, health>>
otherThanLauncher == <<camPanel, voicePanel, senPanel, health>>
otherThanCamPanel == <<launcher, voicePanel, senPanel, health>>
otherThanVoicePanel == <<launcher, camPanel, senPanel, health>>
otherThanSenPanel == <<launcher, camPanel, voicePanel, health>>
otherThanHealth == <<launcher, camPanel, voicePanel, senPanel>>

NoPress == << >>
Checked == 1..NumChecked

PanelsInit ==
    /\ launcher = [rows |-> [a \in Apps |-> [busy |-> FALSE, failed |-> FALSE, available |-> FALSE,
                                             running |-> FALSE, lost |-> FALSE]],
                   real |-> [a \in Apps |-> FALSE], pending |-> NoPress, work |-> NoPress,
                   pc |-> "wait", inbox |-> << >>, presses |-> 0, stop |-> "none"]
    /\ camPanel = [commands |-> << >>, work |-> "none", busy |-> FALSE, shown |-> "off",
                   real |-> "off", pc |-> "wait", inbox |-> << >>, presses |-> 0, stop |-> "none"]
    /\ voicePanel = [requested |-> FALSE, pending |-> FALSE, connected |-> FALSE, active |-> FALSE,
                     real |-> "active", pc |-> "top", inbox |-> << >>, changes |-> 0, stop |-> "none"]
    /\ senPanel = [command |-> "none", work |-> "none", busy |-> FALSE, shown |-> "unknown",
                   real |-> "off", up |-> TRUE, pc |-> "top", inbox |-> << >>, changes |-> 0,
                   stop |-> "none"]
    /\ health = [shown |-> [s \in Checked |-> "new"], real |-> [s \in Checked |-> "OK"],
                 samples |-> << >>, pc |-> "top", inbox |-> << >>, history |-> << >>,
                 changes |-> 0, stop |-> "none"]

Stopping(p) == p.stop # "none"

(* Stop of a model clears the running flag, wakes the worker and joins it.   *)
InboxRoom(p) == Stopping(p) \/ Len(p.inbox) < MaxInbox
PanelStops(p) == Use("panel quit") /\ p.stop = "none"
PanelJoined(p) == p.stop = "join" /\ p.pc = "ended"

-----------------------------------------------------------------------------
(* AppLauncherModel.                                                         *)

LauncherGoto(r) == launcher' = r /\ UNCHANGED otherThanLauncher

(* launch and stop.  There is one slot for the command of all rows: a second *)
(* command before the worker has taken the first replaces it.                *)
RowAllows(row, launch) ==
    ~row.busy /\ (IF launch THEN row.available /\ ~row.running ELSE row.running)
LauncherEnqueue(a, launch) ==
    /\ Use("apps") /\ ~Stopping(launcher) /\ launcher.presses < MaxPresses
    /\ RowAllows(launcher.rows[a], launch)
    /\ LauncherGoto([launcher EXCEPT
           !.presses = @ + 1, !.pending = <<a, launch>>,
           !.rows = [b \in Apps |->
               CASE b = a -> [@[b] EXCEPT !.busy = TRUE, !.failed = FALSE]
                 [] launcher.pending # NoPress /\ b = launcher.pending[1] /\ b # a ->
                       [@[b] EXCEPT !.lost = TRUE]
                 [] OTHER -> @[b]]])

LauncherTakes ==
    /\ Use("apps") /\ launcher.pc = "wait" /\ ~Stopping(launcher) /\ launcher.pending # NoPress
    /\ LauncherGoto([launcher EXCEPT !.pc = "work", !.work = launcher.pending, !.pending = NoPress])
LauncherActs(ok) ==
    /\ launcher.pc = "work"
    /\ LET a == launcher.work[1]
           runs == IF ok THEN launcher.work[2] ELSE launcher.real[a]
       IN  LauncherGoto([launcher EXCEPT
               !.pc = "wait", !.work = NoPress, !.real[a] = runs,
               !.inbox = Append(@, [kind |-> "operation", app |-> a, ok |-> ok, running |-> runs])])
LauncherPolls ==
    /\ Use("apps") /\ launcher.pc = "wait" /\ ~Stopping(launcher) /\ launcher.pending = NoPress
    /\ Len(launcher.inbox) < MaxInbox
    /\ LauncherGoto([launcher EXCEPT !.inbox = Append(@, [kind |-> "statuses", real |-> launcher.real])])

(* ApplyStatuses leaves busy rows alone and keeps a failure on the screen;   *)
(* ApplyOperation ends the row's operation.                                  *)
RowAfter(row, a, m) ==
    CASE m.kind = "statuses" /\ row.busy -> row
      [] m.kind = "statuses" /\ ~row.busy ->
            [row EXCEPT !.available = TRUE, !.running = m.real[a]]
      [] m.kind = "operation" /\ m.app = a ->
            [row EXCEPT !.busy = FALSE, !.failed = ~m.ok, !.running = m.running, !.lost = FALSE,
                        !.available = @ \/ m.ok]
      [] OTHER -> row
LauncherApplies ==
    /\ ~Stopping(launcher) /\ launcher.inbox # << >>
    /\ LauncherGoto([launcher EXCEPT
           !.inbox = Tail(@),
           !.rows = [a \in Apps |-> RowAfter(@[a], a, Head(launcher.inbox))]])

LauncherStop ==
    /\ Use("apps") /\ PanelStops(launcher)
    /\ LauncherGoto([launcher EXCEPT !.stop = "join", !.pending = NoPress])
(* At the end of Run the applications that run are stopped.                  *)
LauncherEnds ==
    /\ launcher.pc = "wait" /\ Stopping(launcher)
    /\ LauncherGoto([launcher EXCEPT !.pc = "ended", !.real = [a \in Apps |-> FALSE]])
LauncherJoins == PanelJoined(launcher) /\ LauncherGoto([launcher EXCEPT !.stop = "returned"])
AppEnds(a) ==
    launcher.real[a] /\ launcher.pc = "wait" /\ LauncherGoto([launcher EXCEPT !.real[a] = FALSE])

LauncherSteps ==
    \/ LauncherTakes \/ \E ok \in BOOLEAN : LauncherActs(ok)
    \/ LauncherPolls \/ LauncherApplies \/ LauncherEnds \/ LauncherJoins
LauncherNext ==
    \/ LauncherSteps \/ LauncherStop
    \/ \E a \in Apps : AppEnds(a) \/ \E launch \in BOOLEAN : LauncherEnqueue(a, launch)

(* Every row is usable again and shows the truth, except one whose command   *)
(* was replaced.                                                             *)
LauncherSettled ==
    IF Stopping(launcher) THEN launcher.stop = "returned"
    ELSE \A a \in Apps : LET row == launcher.rows[a]
                         IN  IF row.busy THEN row.lost ELSE row.running = launcher.real[a]

-----------------------------------------------------------------------------
(* CameraControlModel: a queue, and a wait without a time limit.  The worker *)
(* holds the mutex from the test of the condition to the wait; the commands  *)
(* are queued under the mutex, the running flag is not set under it.         *)

CamGoto(r) == camPanel' = r /\ UNCHANGED otherThanCamPanel
Woken(pc) == IF pc = "blocked" THEN "wait" ELSE pc

CamEnqueue(command) ==
    /\ Use("cam panel") /\ ~Stopping(camPanel) /\ camPanel.presses < MaxPresses
    /\ camPanel.pc # "blocking"
    /\ CamGoto([camPanel EXCEPT !.presses = @ + 1, !.busy = TRUE,
                                !.commands = Append(@, command), !.pc = Woken(@)])
CamWaits ==
    /\ Use("cam panel") /\ camPanel.pc = "wait"
    /\ CamGoto(CASE Stopping(camPanel) -> [camPanel EXCEPT !.pc = "ended"]
                 [] ~Stopping(camPanel) /\ camPanel.commands # << >> ->
                       [camPanel EXCEPT !.pc = "call", !.work = Head(camPanel.commands),
                                        !.commands = Tail(@)]
                 [] OTHER -> [camPanel EXCEPT !.pc = "blocking"])
CamBlocks == camPanel.pc = "blocking" /\ CamGoto([camPanel EXCEPT !.pc = "blocked"])

(* StartPreview, StopPreview, TakePhoto, or ListDevices and GetStatus: the   *)
(* service acts or not, and the answer comes in time or not; without one the *)
(* panel shows a camera that does not run.                                   *)
CamTruth(acts) ==
    CASE acts /\ camPanel.work = "start" -> "on"
      [] acts /\ camPanel.work = "stop" -> "off"
      [] OTHER -> camPanel.real
CamPosts(real, answered) ==
    CASE camPanel.work = "photo" -> <<"done">>
      [] camPanel.work = "refresh" -> <<"done", IF answered THEN real ELSE "off">>
      [] OTHER -> <<IF answered THEN real ELSE "off">>
CamCall(acts, answered) ==
    /\ camPanel.pc = "call"
    /\ LET real == CamTruth(acts)
       IN  CamGoto([camPanel EXCEPT !.pc = "wait", !.work = "none", !.real = real,
                                    !.inbox = @ \o CamPosts(real, answered)])
CamApplies ==
    /\ ~Stopping(camPanel) /\ camPanel.inbox # << >>
    /\ CamGoto([camPanel EXCEPT !.inbox = Tail(@), !.busy = FALSE,
                                !.shown = IF Head(camPanel.inbox) = "done" THEN @
                                          ELSE Head(camPanel.inbox)])
CamStop ==
    /\ Use("cam panel") /\ PanelStops(camPanel)
    /\ CamGoto([camPanel EXCEPT !.stop = "join", !.pc = Woken(@)])
CamJoins == PanelJoined(camPanel) /\ CamGoto([camPanel EXCEPT !.stop = "returned"])

CamSteps ==
    \/ CamWaits \/ CamBlocks \/ CamApplies \/ CamJoins
    \/ \E acts, answered \in BOOLEAN : CamCall(acts, answered)
CamNext ==
    \/ CamSteps \/ CamStop \/ \E c \in {"start", "stop", "photo", "refresh"} : CamEnqueue(c)

(* The panel is idle, or stopped unless the worker went to sleep as Stop     *)
(* woke it.                                                                  *)
CamSettled ==
    IF Stopping(camPanel) THEN camPanel.stop = "returned" \/ camPanel.pc = "blocked"
    ELSE ~camPanel.busy /\ camPanel.commands = << >>

-----------------------------------------------------------------------------
(* VoiceStatusModel: real is the conversation's state as MapState reads it,   *)
(* or down.                                                                  *)

VoiceGoto(r) == voicePanel' = r /\ UNCHANGED otherThanVoicePanel
VoiceChanges(real) ==
    /\ Use("voice panel") /\ voicePanel.changes < MaxChanges /\ real # voicePanel.real
    /\ VoiceGoto([voicePanel EXCEPT !.real = real, !.changes = @ + 1])

PressInterrupt ==
    /\ ~Stopping(voicePanel) /\ voicePanel.active /\ ~voicePanel.pending
    /\ VoiceGoto([voicePanel EXCEPT !.pending = TRUE, !.requested = TRUE])

VoiceLoop ==
    /\ Use("voice panel") /\ voicePanel.pc = "top" /\ InboxRoom(voicePanel)
    /\ VoiceGoto(CASE Stopping(voicePanel) -> [voicePanel EXCEPT !.pc = "ended"]
                   [] ~Stopping(voicePanel) /\ voicePanel.requested ->
                         [voicePanel EXCEPT !.pc = "interrupt", !.requested = FALSE]
                   [] OTHER -> [voicePanel EXCEPT !.pc = "status"])
VoiceInterrupts ==
    /\ voicePanel.pc = "interrupt"
    /\ VoiceGoto([voicePanel EXCEPT !.pc = "status", !.inbox = Append(@, "interrupted"),
                                    !.real = IF @ = "active" THEN "idle" ELSE @])
VoiceAsks ==
    /\ voicePanel.pc = "status"
    /\ VoiceGoto([voicePanel EXCEPT !.pc = "top", !.inbox = Append(@, voicePanel.real)])

(* ApplyInterruptResult, ApplyDisconnected and ApplyStatus.                  *)
VoiceShown(m) ==
    LET shown == [voicePanel EXCEPT !.inbox = Tail(@)]
    IN  CASE m = "interrupted" -> [shown EXCEPT !.pending = FALSE]
          [] m = "down" -> [shown EXCEPT !.pending = FALSE, !.connected = FALSE, !.active = FALSE]
          [] OTHER -> [shown EXCEPT !.connected = TRUE, !.active = (m = "active")]
VoiceApplies ==
    /\ ~Stopping(voicePanel) /\ voicePanel.inbox # << >>
    /\ VoiceGoto(VoiceShown(Head(voicePanel.inbox)))
VoiceStop ==
    /\ Use("voice panel") /\ PanelStops(voicePanel)
    /\ VoiceGoto([voicePanel EXCEPT !.stop = "join", !.inbox = << >>])
VoiceJoins == PanelJoined(voicePanel) /\ VoiceGoto([voicePanel EXCEPT !.stop = "returned"])

VoiceSteps == VoiceLoop \/ VoiceInterrupts \/ VoiceAsks \/ VoiceApplies \/ VoiceJoins
VoiceNext ==
    \/ VoiceSteps \/ PressInterrupt \/ VoiceStop
    \/ \E real \in {"active", "idle", "down"} : VoiceChanges(real)
VoiceSettled ==
    IF Stopping(voicePanel) THEN voicePanel.stop = "returned"
    ELSE /\ ~voicePanel.pending /\ voicePanel.connected = (voicePanel.real # "down")
         /\ voicePanel.active = (voicePanel.real = "active")

-----------------------------------------------------------------------------
(* SentinelStatusModel.                                                      *)

SenPanelGoto(r) == senPanel' = r /\ UNCHANGED otherThanSenPanel
SentinelChanges ==
    /\ Use("sen panel") /\ senPanel.changes < MaxChanges
    /\ SenPanelGoto([senPanel EXCEPT !.up = ~@, !.changes = @ + 1])

SetArmed(command) ==
    /\ Use("sen panel") /\ ~Stopping(senPanel) /\ ~senPanel.busy
    /\ senPanel.changes < MaxChanges
    /\ SenPanelGoto([senPanel EXCEPT !.busy = TRUE, !.command = command, !.changes = @ + 1])
SenPanelLoop ==
    /\ Use("sen panel") /\ senPanel.pc = "top" /\ InboxRoom(senPanel)
    /\ SenPanelGoto(IF Stopping(senPanel) THEN [senPanel EXCEPT !.pc = "ended"]
                    ELSE [senPanel EXCEPT !.pc = "call", !.work = senPanel.command,
                                          !.command = "none"])
(* Arm, Disarm or GetStatus.                                                 *)
SenPanelCalls ==
    /\ senPanel.pc = "call"
    /\ LET real == IF senPanel.up /\ senPanel.work # "none" THEN senPanel.work ELSE senPanel.real
       IN  SenPanelGoto([senPanel EXCEPT !.pc = "top", !.work = "none", !.real = real,
               !.inbox = Append(@, IF senPanel.up THEN real ELSE "down")])
(* ApplyStatus ends the operation, also when the answer is older than it.    *)
SenPanelApplies ==
    /\ ~Stopping(senPanel) /\ senPanel.inbox # << >>
    /\ SenPanelGoto([senPanel EXCEPT !.inbox = Tail(@), !.busy = FALSE,
                                     !.shown = Head(senPanel.inbox)])
SenPanelStop ==
    /\ Use("sen panel") /\ PanelStops(senPanel)
    /\ SenPanelGoto([senPanel EXCEPT !.stop = "join", !.inbox = << >>])
SenPanelJoins == PanelJoined(senPanel) /\ SenPanelGoto([senPanel EXCEPT !.stop = "returned"])

SenPanelSteps == SenPanelLoop \/ SenPanelCalls \/ SenPanelApplies \/ SenPanelJoins
SenPanelNext ==
    \/ SenPanelSteps \/ SentinelChanges \/ SenPanelStop
    \/ \E command \in {"on", "off"} : SetArmed(command)
SenPanelSettled ==
    IF Stopping(senPanel) THEN senPanel.stop = "returned"
    ELSE ~senPanel.busy /\ senPanel.shown = IF senPanel.up THEN senPanel.real ELSE "down"

-----------------------------------------------------------------------------
(* ServiceHealthModel: PollOnce asks one service after the other.            *)

HealthGoto(r) == health' = r /\ UNCHANGED otherThanHealth
ServiceChanges(s, state) ==
    /\ Use("health") /\ health.changes < MaxChanges /\ state # health.real[s]
    /\ HealthGoto([health EXCEPT !.real[s] = state, !.changes = @ + 1])
HealthLoop ==
    /\ Use("health") /\ health.pc = "top" /\ InboxRoom(health)
    /\ HealthGoto(IF Stopping(health) THEN [health EXCEPT !.pc = "ended"]
                  ELSE [health EXCEPT !.pc = "poll", !.samples = << >>])
AskService ==
    /\ health.pc = "poll" /\ Len(health.samples) < NumChecked
    /\ HealthGoto([health EXCEPT !.samples = Append(@, health.real[Len(@) + 1])])
PostSamples ==
    /\ health.pc = "poll" /\ Len(health.samples) = NumChecked
    /\ HealthGoto([health EXCEPT !.pc = "top", !.samples = << >>,
                                 !.inbox = Append(@, health.samples)])
(* The changes of one round, the last service first, before the older ones;  *)
(* the oldest fall off.  A first sample is no change.                        *)
Changes(samples) ==
    LET Change(s) == [service |-> s, from |-> health.shown[s], to |-> samples[s]]
        Real(t) == t.from \notin {"new", t.to}
    IN  SelectSeq([i \in Checked |-> Change(NumChecked + 1 - i)], Real)
Newest(h) == SubSeq(h, 1, IF Len(h) > HistoryLimit THEN HistoryLimit ELSE Len(h))
HealthApplies ==
    /\ ~Stopping(health) /\ health.inbox # << >>
    /\ LET samples == Head(health.inbox)
       IN  HealthGoto([health EXCEPT
               !.inbox = Tail(@), !.shown = [s \in Checked |-> samples[s]],
               !.history = Newest(Changes(samples) \o @)])
(* worstState, over the counts that RecountLocked makes of the items.         *)
WorstState ==
    LET bad == {s \in Checked : health.shown[s] # "OK"}
        Is(state) == \E s \in bad : health.shown[s] = state
    IN  CASE Is("FAULTED") -> "FAULTED"
          [] ~Is("FAULTED") /\ (Is("UNKNOWN") \/ Is("new")) -> "UNKNOWN"
          [] OTHER -> "OK"
HealthStop ==
    /\ Use("health") /\ PanelStops(health)
    /\ HealthGoto([health EXCEPT !.stop = "join", !.inbox = << >>])
HealthJoins == PanelJoined(health) /\ HealthGoto([health EXCEPT !.stop = "returned"])

HealthSteps == HealthLoop \/ AskService \/ PostSamples \/ HealthApplies \/ HealthJoins
HealthNext ==
    \/ HealthSteps \/ HealthStop
    \/ \E s \in Checked, state \in {"OK", "FAULTED", "UNKNOWN"} : ServiceChanges(s, state)

(* The panel shows the services as they are, and the newest transition it     *)
(* lists of a service leads to what it shows.                                *)
HealthSettled ==
    IF Stopping(health) THEN health.stop = "returned"
    ELSE /\ Use("health") => health.shown = health.real
         /\ Use("health") => (WorstState = "OK") = (\A s \in Checked : health.real[s] = "OK")
         /\ \A i \in 1..Len(health.history) :
               (\A j \in 1..(i - 1) : health.history[j].service # health.history[i].service) =>
                   health.history[i].to = health.shown[health.history[i].service]

-----------------------------------------------------------------------------
PanelsNext == LauncherNext \/ CamNext \/ VoiceNext \/ SenPanelNext \/ HealthNext
(* The threads of the one panel that a scene opens keep running.             *)
PanelsFairness ==
    WF_panelVars(LauncherSteps \/ CamSteps \/ VoiceSteps \/ SenPanelSteps \/ HealthSteps)

(* Each panel that is used is settled: stopped, or idle and up to date.      *)
PanelsSettled ==
    /\ LauncherSettled /\ CamSettled /\ HealthSettled
    /\ Use("voice panel") => VoiceSettled
    /\ Use("sen panel") => SenPanelSettled
=============================================================================
