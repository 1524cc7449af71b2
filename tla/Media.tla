------------------------------- MODULE Media --------------------------------
(***************************************************************************)
(* Music: GstreamerMediaPlayer behind MediaService's mutex and its gRPC    *)
(* handlers, the client whose calls give up after half a second while the  *)
(* handler goes on, and MediaControlModel in the HMI: a worker thread that *)
(* polls, takes one command at a time and posts what it learned to the GUI *)
(* thread.  HmiControl lets the voice agent press the same buttons, with a *)
(* call that waits for the GUI thread.                                     *)
(***************************************************************************)
EXTENDS Naturals, Sequences, Scene

CONSTANTS
    Tracks,        \* number of tracks of the manifest
    MaxClicks,     \* bound: buttons pressed
    MaxPosted      \* bound: results in the queue of the GUI thread

VARIABLES
    player,   \* status_, current_index_, paused_position_ms_ and the pipeline
    rpc,      \* the handler's call, and the one whose client has given up
    music,    \* MediaControlModel: worker, pending command, what the GUI shows
    panel     \* HmiControl: a call of the voice agent, and the HMI's shutdown

mediaVars == <<player, rpc, music, panel>>

NoCall == [op |-> "none", step |-> "none", ok |-> FALSE, state |-> "none"]

MediaInit ==
    /\ player = [state |-> "stopped", track |-> 0, index |-> 1, at |-> 0, paused |-> 0,
                 pipe |-> "null", uri |-> 0, bus |-> "none"]
    /\ rpc = [call |-> NoCall, old |-> NoCall]
    /\ music = [running |-> Use("music"), pc |-> "wait", pending |-> "none", busy |-> FALSE,
                state |-> "unavailable", available |-> FALSE, inbox |-> << >>, clicks |-> 0]
    /\ panel = [call |-> "none", quit |-> "none"]

-----------------------------------------------------------------------------
(* The player.  Every operation gives the set of its possible results.       *)

Done(p) == [ok |-> TRUE, p |-> p]
Failed(p) == [ok |-> FALSE, p |-> p]

(* SetStateAndWait.  A change to PLAYING that is not complete within a second *)
(* has failed for the caller and may still come about.                       *)
ToNull(p) ==
    {Done([p EXCEPT !.pipe = "null", !.at = 0, !.bus = "none"])}
        \cup {Failed(p) : gst \in scene \cap {"gst"}}
ToPlaying(p) ==
    {Done([p EXCEPT !.pipe = "playing"])}
        \cup {Failed([p EXCEPT !.pipe = pipe]) :
                 pipe \in IF Use("gst") THEN {"null", "starting"} ELSE {}}

PlayUnlocked(p, i, requested) ==
    LET Loaded(r) == [r.p EXCEPT !.uri = i]
        Started(r) == IF requested = "paused" THEN ToNull(Loaded(r)) ELSE ToPlaying(Loaded(r))
        Finish(s) == IF s.ok THEN Done([s.p EXCEPT !.index = i, !.state = requested,
                                                   !.paused = 0, !.track = i])
                     ELSE Failed([s.p EXCEPT !.state = "faulted"])
    IN  UNION {IF r.ok THEN {Finish(s) : s \in Started(r)} ELSE {r} : r \in ToNull(p)}

Play(p) == PlayUnlocked(p, 1, "playing")
Pause(p) ==
    IF p.state # "playing" THEN {Failed(p)}
    ELSE {IF r.ok THEN Done([r.p EXCEPT !.state = "paused"]) ELSE r :
             r \in ToNull([p EXCEPT !.paused = p.at])}

(* Resume plays the current track from its start and seeks to the position   *)
(* of the pause.                                                             *)
Seek(p, position) ==
    {Done([p EXCEPT !.at = position])}
        \cup IF position > 0 /\ Use("gst")
             THEN {Failed(r.p) : r \in ToNull([p EXCEPT !.state = "faulted"])} ELSE {}
Resume(p) ==
    IF p.state # "paused" THEN {Failed(p)}
    ELSE UNION {IF r.ok THEN Seek(r.p, p.paused) ELSE {r} :
                   r \in PlayUnlocked(p, p.index, "playing")}

Stop(p) ==
    {IF r.ok THEN Done([r.p EXCEPT !.state = "stopped", !.paused = 0]) ELSE r : r \in ToNull(p)}

(* Next moves the index before it knows whether the track can be played.     *)
NextTrack(p) ==
    LET i == (p.index % Tracks) + 1
    IN  IF p.state \notin {"playing", "paused"} THEN {Failed(p)}
        ELSE PlayUnlocked([p EXCEPT !.index = i], i, p.state)

(* status: DrainBusLocked applies what the pipeline has reported.            *)
Drained(p) ==
    IF p.bus = "none" THEN {p}
    ELSE {r.p : r \in ToNull(IF p.bus = "eos" THEN [p EXCEPT !.state = "stopped", !.paused = 0]
                             ELSE [p EXCEPT !.state = "faulted"])}

Results(op) ==
    CASE op = "play" -> Play(player) [] op = "pause" -> Pause(player)
      [] op = "resume" -> Resume(player) [] op = "stop" -> Stop(player)
      [] op = "next" -> NextTrack(player)

PipelineStarts ==
    /\ player.pipe = "starting" /\ player' = [player EXCEPT !.pipe = "playing"]
    /\ UNCHANGED <<rpc, music, panel>>
PipelinePlays ==
    /\ player.pipe = "playing" /\ player.at = 0 /\ player' = [player EXCEPT !.at = 1]
    /\ UNCHANGED <<rpc, music, panel>>
PipelineReports(message) ==
    /\ player.pipe = "playing" /\ player.bus = "none" /\ Use(message)
    /\ player' = [player EXCEPT !.bus = message]
    /\ UNCHANGED <<rpc, music, panel>>

-----------------------------------------------------------------------------
(* MediaGrpcService: the operation and the status that is sent back are two   *)
(* critical sections.  w is the call somebody waits for, or the old one.     *)

Handle(w) ==
    /\ rpc[w].step = "op"
    /\ \E r \in Results(rpc[w].op) :
           /\ player' = r.p
           /\ rpc' = [rpc EXCEPT ![w] = [@ EXCEPT !.step = "status", !.ok = r.ok]]
    /\ UNCHANGED <<music, panel>>
FillStatus(w) ==
    /\ rpc[w].step = "status"
    /\ player' \in Drained(player)
    /\ rpc' = [rpc EXCEPT ![w] = IF w = "old" THEN NoCall
                                 ELSE [@ EXCEPT !.step = "done", !.state = player'.state]]
    /\ UNCHANGED <<music, panel>>

(* GrpcMediaPlayerBackend: a call begins, is answered, or its deadline passes *)
(* whether or not it has reached the service.                                *)
Call(op, pc) ==
    /\ rpc' = [rpc EXCEPT !.call = [op |-> op, step |-> IF op = "query" THEN "status" ELSE "op",
                                    ok |-> op = "query", state |-> "none"]]
    /\ music' = [music EXCEPT !.pc = pc, !.pending = IF pc = "command" THEN "none" ELSE @]
    /\ UNCHANGED <<player, panel>>

ToResult(call) ==
    [kind |-> "result", ok |-> call.ok /\ call.state \notin {"none", "faulted"},
     state |-> IF call.state = "faulted" THEN "error" ELSE call.state]
ToStatus(call) ==
    [kind |-> "status", ok |-> call.state # "none",
     state |-> CASE call.state = "none" -> "unavailable"
                 [] call.state = "faulted" -> "error"
                 [] OTHER -> call.state]

-----------------------------------------------------------------------------
(* MediaControlModel::Run.                                                   *)

TakeCommand ==
    /\ music.pc = "wait" /\ music.running /\ music.pending # "none"
    /\ Call(music.pending, "command")
Poll ==
    /\ music.pc = "wait" /\ music.running /\ music.pending = "none"
    /\ Len(music.inbox) < MaxPosted
    /\ Call("query", "poll")

(* The answer, or no answer, is posted to the GUI thread; the last query      *)
(* decides whether the music is stopped before the HMI ends.                  *)
Learned(call) ==
    CASE music.pc = "command" ->
            [music EXCEPT !.pc = "wait", !.inbox = Append(@, ToResult(call))]
      [] music.pc = "poll" ->
            [music EXCEPT !.pc = "wait", !.inbox = Append(@, ToStatus(call))]
      [] music.pc = "last query" ->
            [music EXCEPT !.pc = IF call.state \in {"playing", "paused"} THEN "last stop" ELSE "ended"]
      [] music.pc = "last call" -> [music EXCEPT !.pc = "ended"]
Answered ==
    /\ rpc.call.step = "done"
    /\ music' = Learned(rpc.call) /\ rpc' = [rpc EXCEPT !.call = NoCall]
    /\ UNCHANGED <<player, panel>>
DeadlinePassed(reached) ==
    /\ Use("slow") /\ rpc.call.step \in {"op", "status"} /\ rpc.old = NoCall
    /\ music' = Learned(NoCall)
    /\ rpc' = [call |-> NoCall, old |-> IF reached THEN rpc.call ELSE NoCall]
    /\ UNCHANGED <<player, panel>>

LastQuery == music.pc = "wait" /\ ~music.running /\ Use("music") /\ Call("query", "last query")
LastStop == music.pc = "last stop" /\ Call("stop", "last call")

-----------------------------------------------------------------------------
(* The GUI thread, while it runs its event loop.                             *)

Gui == panel.quit = "none"
CanPlay == music.available /\ ~music.busy /\ music.state \in {"stopped", "error"}
CanPause == music.available /\ ~music.busy /\ music.state \in {"playing", "paused"}
Allowed(command) ==
    CASE command = "play" -> CanPlay
      [] command = "pause" -> music.state = "playing" /\ ~music.busy
      [] command = "resume" -> music.state = "paused" /\ ~music.busy
      [] command \in {"stop", "next"} -> CanPause
Requested(command) == [music EXCEPT !.busy = TRUE, !.pending = command, !.clicks = @ + 1]
Click(command) ==
    /\ Gui /\ music.running /\ music.clicks < MaxClicks
    /\ Allowed(command) /\ (command = "play" \/ CanPause)
    /\ music' = Requested(command) /\ UNCHANGED <<player, rpc, panel>>

(* ApplyResult and ApplyStatus: a status is ignored while a command is on its *)
(* way, and an error is shown until a command succeeds.                      *)
Applied(m) ==
    LET shown == [music EXCEPT !.inbox = Tail(@)]
    IN  CASE m.kind = "result" /\ m.ok ->
                [shown EXCEPT !.busy = FALSE, !.available = TRUE, !.state = m.state]
          [] m.kind = "result" /\ ~m.ok -> [shown EXCEPT !.busy = FALSE, !.state = "error"]
          [] m.kind = "status" /\ music.busy -> shown
          [] m.kind = "status" /\ ~music.busy ->
                [shown EXCEPT !.available = m.ok,
                              !.state = IF @ = "error" THEN @ ELSE m.state]
GuiApplies ==
    /\ Gui /\ music.inbox # << >>
    /\ music' = Applied(Head(music.inbox)) /\ UNCHANGED <<player, rpc, panel>>

(* HmiControl::Execute waits for the GUI thread (BlockingQueuedConnection).   *)
Execute ==
    /\ Use("voice") /\ Gui /\ panel.call = "none" /\ panel' = [panel EXCEPT !.call = "waiting"]
    /\ UNCHANGED <<player, rpc, music>>
GuiExecutes(command) ==
    /\ Gui /\ panel.call = "waiting"
    /\ panel' = [panel EXCEPT !.call = "answered"]
    /\ music' = IF music.running /\ Allowed(command) THEN Requested(command) ELSE music
    /\ UNCHANGED <<player, rpc>>

(* aboutToQuit, on the GUI thread: HmiControl::Stop waits for the calls of    *)
(* its server, MediaControlModel::Stop for the worker.                       *)
Quit ==
    /\ Use("quit") /\ Gui /\ panel' = [panel EXCEPT !.quit = "server"]
    /\ UNCHANGED <<player, rpc, music>>
ServerStops ==
    /\ panel.quit = "server" /\ panel.call # "waiting"
    /\ panel' = [panel EXCEPT !.quit = "join"]
    /\ music' = [music EXCEPT !.running = FALSE, !.pending = "none"]
    /\ UNCHANGED <<player, rpc>>
QuitJoins ==
    /\ panel.quit = "join" /\ music.pc = "ended"
    /\ panel' = [panel EXCEPT !.quit = "done"] /\ UNCHANGED <<player, rpc, music>>

ServiceSteps == \E w \in {"call", "old"} : Handle(w) \/ FillStatus(w)
WorkerSteps == TakeCommand \/ Poll \/ Answered \/ LastQuery \/ LastStop
GuiSteps ==
    \/ GuiApplies \/ ServerStops \/ QuitJoins
    \/ \E command \in {"play", "pause", "resume"} : GuiExecutes(command)
MediaNext ==
    \/ PipelineStarts \/ PipelinePlays \/ \E m \in {"eos", "error"} : PipelineReports(m)
    \/ ServiceSteps \/ WorkerSteps \/ GuiSteps
    \/ \E reached \in BOOLEAN : DeadlinePassed(reached)
    \/ \E command \in {"play", "pause", "resume", "stop", "next"} : Click(command)
    \/ Execute \/ Quit
MediaFairness ==
    WF_mediaVars(ServiceSteps) /\ WF_mediaVars(WorkerSteps) /\ WF_mediaVars(GuiSteps)

(* The HMI has ended, unless the call of the voice agent waits for the GUI    *)
(* thread that waits for it, and the music is over, unless a call or a state *)
(* change ran into its time limit; until then every button becomes usable    *)
(* again.                                                                    *)
MusicEnded ==
    CASE panel.quit = "none" -> ~music.busy
      [] panel.quit = "server" -> panel.call = "waiting"
      [] panel.quit = "join" -> FALSE
      [] panel.quit = "done" -> player.pipe = "null" \/ Use("slow") \/ Use("gst")
=============================================================================
