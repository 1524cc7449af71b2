--------------------------- MODULE CameraPreview ----------------------------
(***************************************************************************)
(* driver/camera/runtime: CameraService over a PreviewSource, with the RPC *)
(* server and the runtime that call it.  lifecycle_mutex_ lets one caller  *)
(* in at a time, `ctl' is whoever is inside; frames arrive beside it and   *)
(* take only mutex_.                                                       *)
(***************************************************************************)
EXTENDS PreviewSource

CONSTANT MaxPreviewCalls   \* bound: StartPreview and StopPreview calls

ASSUME PreviewAssumption == MaxPreviewCalls \in Nat

(* cam: state, error, await: status_.state, last_error, the flag            *)
(*      awaiting_recovery_frame_; frames: frames_received > 0; handle: the  *)
(*      streaming thread in HandleFrame; calls, down: the runtime.          *)
(* ctl: the caller inside lifecycle_mutex_: its place, operation, request   *)
(*      and the previous_state it read.                                     *)
VARIABLES cam, ctl

cameraVars == <<sourceVars, cam, ctl>>

(* What a StartPreview request can be: matching or against the calibration, *)
(* with empty arguments, for a device that is not listed, or whose start    *)
(* the source refuses.                                                      *)
Requests == {"fine", "uncalibrated", "invalid", "absent", "refused"}
Free == [pc |-> "free", op |-> "none", req |-> "none", prev |-> "stopped"]

CameraInit ==
    /\ SourceInit
    /\ cam = [state |-> "stopped", error |-> FALSE, await |-> FALSE, frames |-> FALSE,
              handle |-> "none", calls |-> 0, down |-> FALSE]
    /\ ctl = Free

SetError(c) == [c EXCEPT !.state = "faulted", !.error = TRUE]

CtlAt(op, label) == ctl.op = op /\ ctl.pc = label
CtlGoto(label) == ctl' = [ctl EXCEPT !.pc = label]
Calling == Use("camera") /\ ~cam.down /\ cam.calls < MaxPreviewCalls

(* StartPreview up to StopAll.  The calibration is checked first, and a     *)
(* request against it faults the service but leaves the source running.     *)
StartPreview(req) ==
    /\ ctl = Free /\ Calling
    /\ IF req = "uncalibrated"
       THEN ctl' = ctl /\ cam' = [SetError(cam) EXCEPT !.calls = @ + 1]
       ELSE /\ ctl' = [pc |-> "stop", op |-> "start", req |-> req, prev |-> cam.state]
            /\ cam' = [cam EXCEPT !.calls = @ + 1,
                         !.state = IF @ \in {"running", "faulted"} THEN "recovering" ELSE @]
    /\ UNCHANGED sourceVars

StopPreview ==
    /\ ctl = Free /\ Calling
    /\ ctl' = [Free EXCEPT !.pc = "stop", !.op = "stop"]
    /\ cam' = [cam EXCEPT !.calls = @ + 1]
    /\ UNCHANGED sourceVars

(* CameraRuntime::Stop: the server first, then StopPreview.                 *)
RuntimeStops ==
    /\ ctl = Free /\ Use("camera") /\ Use("down") /\ ~cam.down
    /\ cam' = [cam EXCEPT !.down = TRUE]
    /\ ctl' = [Free EXCEPT !.pc = "stop", !.op = "stop"]
    /\ UNCHANGED sourceVars

(* CheckPreviewHealth, called by Poll.  A stall is noticed when the time    *)
(* since the last frame, or since the start, is long enough.                *)
CheckPreviewHealth ==
    /\ ctl = Free /\ ~cam.down /\ cam.state \in {"running", "recovering"}
    /\ IF src.recover
       THEN /\ cam' = [cam EXCEPT !.state = "recovering", !.await = TRUE]
            /\ ctl' = ctl
       ELSE /\ ~src.run \/ Use("stall")
            /\ ctl' = [Free EXCEPT !.pc = "stop", !.op = "check"]
            /\ UNCHANGED cam
    /\ UNCHANGED sourceVars

(* StopAll, which every operation comes to: only a started module is        *)
(* stopped.                                                                 *)
StopAll ==
    /\ ctl.pc = "stop" /\ CtlGoto("join")
    /\ SourceStopBegins /\ UNCHANGED <<reconnects, cam>>
StopAllEnds ==
    /\ ctl.pc = "join" /\ SourceStopEnds /\ CtlGoto("stopped")
    /\ UNCHANGED <<reconnects, cam>>

StopReturns ==
    /\ CtlAt("stop", "stopped") /\ ctl' = Free
    /\ cam' = [cam EXCEPT !.state = "stopped", !.await = FALSE]
    /\ UNCHANGED sourceVars

CheckReturns ==
    /\ CtlAt("check", "stopped") /\ ctl' = Free /\ cam' = SetError(cam)
    /\ UNCHANGED sourceVars

(* The request itself is looked at after the old source is down.            *)
RequestFails ==
    /\ CtlAt("start", "stopped") /\ ctl.req \in {"invalid", "absent"}
    /\ ctl' = Free /\ cam' = SetError(cam)
    /\ UNCHANGED sourceVars

ResetStatus ==
    /\ CtlAt("start", "stopped") /\ ctl.req \in {"fine", "refused"}
    /\ cam' = [cam EXCEPT !.frames = FALSE, !.await = ctl.prev = "faulted",
                 !.state = IF ctl.prev \in {"running", "faulted"}
                           THEN "recovering" ELSE "stopped"]
    /\ CtlGoto("starting") /\ UNCHANGED sourceVars

StartAllFails ==
    /\ CtlAt("start", "starting") /\ ctl.req = "refused"
    /\ ctl' = Free /\ cam' = SetError(cam)
    /\ UNCHANGED sourceVars

StartAll ==
    /\ CtlAt("start", "starting") /\ ctl.req = "fine"
    /\ SourceStarts /\ CtlGoto("started")
    /\ UNCHANGED <<reconnects, cam>>

(* After a fault the first frame says when the preview runs, otherwise the  *)
(* source's start does.                                                     *)
StartReturns ==
    /\ CtlAt("start", "started") /\ ctl' = Free
    /\ cam' = IF ctl.prev = "faulted"
              THEN [cam EXCEPT !.state = IF cam.frames THEN @ ELSE "recovering"]
              ELSE [cam EXCEPT !.state = "running", !.error = FALSE]
    /\ UNCHANGED sourceVars

-----------------------------------------------------------------------------
(* HandleFrame: validity and the sink first, without the lock, ...          *)
FramePublished ==
    /\ src.isp = "deliver" /\ cam.handle = "none"
    /\ cam' = [cam EXCEPT !.handle = "sunk"]
    /\ UNCHANGED <<sourceVars, ctl>>

FrameDropped ==
    /\ src.isp = "deliver" /\ cam.handle = "none" /\ Use("camera")
    /\ Delivered /\ UNCHANGED <<reconnects, cam, ctl>>

(* ... then the status.                                                     *)
FrameCounted ==
    /\ src.isp = "deliver" /\ cam.handle = "sunk"
    /\ Delivered
    /\ cam' = IF cam.state = "recovering"
              THEN [cam EXCEPT !.state = "running", !.error = FALSE, !.await = FALSE,
                               !.frames = TRUE, !.handle = "none"]
              ELSE [cam EXCEPT !.frames = TRUE, !.handle = "none"]
    /\ UNCHANGED <<reconnects, ctl>>

SourceMoves == SourceStep /\ UNCHANGED <<cam, ctl>>
HandleFrame == FramePublished \/ FrameDropped \/ FrameCounted
Inside ==
    StopAll \/ StopAllEnds \/ StopReturns \/ CheckReturns \/ RequestFails
    \/ ResetStatus \/ StartAllFails \/ StartAll \/ StartReturns

CameraNext ==
    \/ \E req \in Requests : StartPreview(req)
    \/ StopPreview \/ RuntimeStops \/ CheckPreviewHealth
    \/ Inside \/ HandleFrame \/ SourceMoves

(* The caller inside goes on, the module's poll loop calls Poll again and   *)
(* again, the sink and the source's threads run.                            *)
CameraFairness ==
    /\ WF_cameraVars(Inside)
    /\ WF_cameraVars(HandleFrame)
    /\ WF_cameraVars(CheckPreviewHealth)
    /\ WF_cameraVars(CaptureThread /\ UNCHANGED <<reconnects, cam, ctl>>)
    /\ WF_cameraVars((IspTake \/ IspSleeps \/ IspStops \/ IspEnds) /\ UNCHANGED <<reconnects, cam, ctl>>)
    /\ WF_cameraVars((IspJudges \/ (IspFails /\ UNCHANGED reconnects)) /\ UNCHANGED <<cam, ctl>>)

-----------------------------------------------------------------------------
(* When StopPreview has returned the preview is silent: no thread of the     *)
(* source runs and no frame can come any more; a running preview carries no  *)
(* old error, and a lost device is counted as reconnected at most once.      *)
StoppedIsSilent ==
    /\ ctl = Free /\ cam.state = "stopped" => src.cap = "off" /\ src.isp = "off" /\ ~src.callback
    /\ ctl = Free /\ cam.state = "running" => ~cam.error
    /\ \A g \in DOMAIN reconnects : reconnects[g] <= 1

(* Every call inside lifecycle_mutex_ returns, whatever the device does,     *)
(* unless Stop notified the ISP thread as it fell asleep; and a preview      *)
(* whose source is recovering does not go on being shown as running.         *)
MissedStop == src.stop /\ src.isp = "asleep"
PreviewCallsReturn ==
    /\ ctl # Free ~> (ctl = Free \/ MissedStop)
    /\ (cam.state = "running" /\ src.run /\ src.recover)
          ~> (cam.state # "running" \/ ~src.recover \/ cam.down \/ MissedStop)
=============================================================================
