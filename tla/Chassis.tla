------------------------------- MODULE Chassis -------------------------------
(***************************************************************************)
(* The chassis safety path: frames of the chassis controller, read from a  *)
(* socket that can hold a backlog, go through ChassisClient and the state  *)
(* source to the safety adapter, which turns velocity requests into        *)
(* commands.  Two hosts run the adapter: VcanChassisSafetyLoop, over CAN,   *)
(* and the ROS node, over topics.  The controller may fall silent, raise a *)
(* fault, or reboot, which restarts its sequences and its uptime.  Time is *)
(* counted in periods of the loop.                                         *)
(***************************************************************************)
EXTENDS Integers, Sequences, SequencesExt, Scene

CONSTANTS
    MaxTime,      \* bound: periods
    MaxBacklog,   \* bound: frames in the socket
    Window,       \* kTimeoutMs, peer_timeout_ms, fault_state_timeout_ms
    CommandLife,  \* command_timeout_ms
    SeqSpace,     \* values of a uint8 sequence; half of them are "ahead"
    UptimeSpace,  \* values of the controller's uptime, a uint32
    TopSpeed, Ramp   \* velocity limit, change per period

ASSUME ChassisAssumption ==
    /\ Window \in Nat \ {0} /\ CommandLife \in Nat \ {0} /\ SeqSpace \in Nat \ 0 .. 3
    /\ UptimeSpace \in Nat \ {0}
    /\ TopSpeed \in Nat \ {0} /\ Ramp \in Nat \ {0}

(* The adapter belongs to one of the two hosts.                             *)
ASSUME HostAssumption == \A s \in Scenes : ~("loop" \in s /\ "node" \in s)

VARIABLES
    mcu,    \* the controller: boot, when it booted, sequences, fault
    rx,     \* frames in the socket, with the time they were received
    cli,    \* ChassisClient with its monitor and ChassisCanSafetyStateSource; ghosts:
            \* the boots last heard, a reboot not noticed, the last fault frame
    trk,    \* ChassisSafetyStateTracker
    ad,     \* ChassisSafetyAdapter
    ctl     \* the clock, the node's controls, and the command last sent

chassisVars == <<mcu, rx, cli, trk, ad, ctl>>
Never == -1
NoRequest == 99
BadRequest == 98
Requests == {TopSpeed + 1, -1, BadRequest}

ChassisInit ==
    /\ mcu = [boot |-> 1, at |-> IF Use("wrap") THEN 3 - UptimeSpace ELSE 1, seq |-> SeqSpace - 2,
              faultSeq |-> IF Use("wrap") THEN SeqSpace - 2 ELSE 2, faulted |-> FALSE]
    /\ rx = << >>
    /\ cli = [status |-> "unknown", valid |-> FALSE, seq |-> 0, up |-> 0, at |-> 0,
              reboots |-> 0, faultValid |-> FALSE, faultSeq |-> 0, reported |-> "unknown",
              seen |-> FALSE, observed |-> 0, boot |-> 0, heard |-> 1, missed |-> FALSE,
              said |-> [boot |-> 1, faulted |-> FALSE]]
    /\ trk = [beat |-> Never, sample |-> Never, faulted |-> TRUE, boot |-> 0]
    /\ ad = [request |-> NoRequest, since |-> 0, out |-> 0, speed |-> 0, invalid |-> FALSE]
    /\ ctl = [now |-> 1, controls |-> "ok", off |-> 0,
              sent |-> [on |-> FALSE, speed |-> 0, at |-> 1, controls |-> "ok"]]

Clamp(x, low, high) == IF x < low THEN low ELSE IF x > high THEN high ELSE x

-----------------------------------------------------------------------------
(* ChassisHeartbeatMonitor and ChassisClient.                               *)

Ahead(new, old) == (new - old + SeqSpace) % SeqSpace
(* An uptime that went back, by no more than half of its range.              *)
Rebooted(c, f) ==
    c.valid /\ f.up < c.up /\ f.up - c.up + UptimeSpace >= UptimeSpace \div 2
(* A frame that repeats or goes back; after a timeout a heartbeat may.       *)
BeatOld(c, f) ==
    c.valid /\ (Ahead(f.seq, c.seq) = 0
                \/ (c.status # "timeout" /\ Ahead(f.seq, c.seq) >= SeqSpace \div 2))
FaultOld(c, f) ==
    c.faultValid /\ (Ahead(f.seq, c.faultSeq) = 0 \/ Ahead(f.seq, c.faultSeq) >= SeqSpace \div 2)

ResetFaultSequenceBaseline(c) == [c EXCEPT !.faultValid = FALSE, !.faultSeq = 0]

UpdateHeartbeatTimeout(c, now) ==
    IF c.status = "alive" /\ now - c.at >= Window
    THEN [ResetFaultSequenceBaseline(c) EXCEPT !.status = "timeout"] ELSE c

ProcessHeartbeat(c, f) ==
    LET reboot == Rebooted(c, f)
        d == [c EXCEPT !.valid = TRUE, !.seq = f.seq, !.status = "alive", !.up = f.up,
                       !.at = f.at, !.reboots = IF reboot THEN c.reboots + 1 ELSE c.reboots,
                       !.missed = (c.missed \/ f.boot # c.heard) /\ ~reboot,
                       !.boot = f.boot, !.heard = f.boot]
    IN  IF reboot THEN ResetFaultSequenceBaseline(d) ELSE d

Reported(c) == [c EXCEPT !.reported = c.status]

(* The fault known before the reboot goes on being trusted.                  *)
KeepsFault(c) == [c EXCEPT !.observed = c.reboots]

(* ChassisCanSafetyStateSource::ProcessFrame after a heartbeat: a reboot     *)
(* takes back what was known of faults.                                      *)
ObserveReboot(c) ==
    IF c.reboots # c.observed THEN [c EXCEPT !.observed = c.reboots, !.seen = FALSE] ELSE c

Decodes(f, kind) == f.kind = kind     \* id, length, checksum

(* ProcessFrame, the whole of it: the client and the tracker afterwards.     *)
Processed(c, t, f) ==
    LET said == IF f.kind = "fault" THEN [boot |-> f.boot, faulted |-> f.faulted] ELSE c.said
        u == [UpdateHeartbeatTimeout(c, f.at) EXCEPT !.said = said]
    IN  CASE Decodes(f, "beat") /\ ~BeatOld(u, f) ->
                <<ObserveReboot(Reported(ProcessHeartbeat(u, f))),
                  [t EXCEPT !.beat = IF f.at >= @ THEN f.at ELSE @]>>
          [] Decodes(f, "fault") /\ ~FaultOld(u, f) ->
                <<Reported([u EXCEPT !.faultValid = TRUE, !.faultSeq = f.seq, !.seen = TRUE,
                                     !.heard = f.boot]),
                  IF f.at >= t.sample
                  THEN [t EXCEPT !.sample = f.at, !.faulted = f.faulted, !.boot = f.boot]
                  ELSE t>>
          [] Decodes(f, "motion") -> <<Reported(u), t>>
          [] OTHER -> <<u, t>>

(* ChassisClient::Update and the source's Evaluate: what a timeout that is   *)
(* noticed here takes back.                                                  *)
SourceUpdated(c, now) ==
    LET u == UpdateHeartbeatTimeout(c, now)
    IN  IF u.status = u.reported THEN u
        ELSE [Reported(u) EXCEPT !.seen = @ /\ u.status # "timeout"]

(* ChassisSafetyStateTracker::Evaluate.                                      *)
PeerAlive(t, now) == t.beat # Never /\ now >= t.beat /\ now - t.beat <= Window
FaultFresh(t, now) == t.sample # Never /\ now >= t.sample /\ now - t.sample <= Window
TrackedFault(t, now) == PeerAlive(t, now) /\ (~FaultFresh(t, now) \/ t.faulted)

-----------------------------------------------------------------------------
(* ChassisSafetyAdapter.                                                    *)

(* enabled, authority_granted and emergency_stop: which of them forbids.     *)
Controls == IF Use("control") THEN {"ok", "disabled", "unauthorized", "estop"} ELSE {"ok"}

SafetyState(controls, c, t, onCan) ==
    [controls |-> controls, peer |-> PeerAlive(t, ctl.now),
     fault |-> \/ TrackedFault(t, ctl.now)
               \/ onCan /\ PeerAlive(t, ctl.now) /\ ~c.seen]
Interlocked(s) == s.controls # "ok" \/ ~s.peer \/ s.fault

(* Submit; one that is not a finite number is a BadRequest.                  *)
SubmitRequest(a, s, request, now) ==
    IF Interlocked(s) THEN [a EXCEPT !.request = NoRequest, !.since = 0]
    ELSE IF request = BadRequest
    THEN [a EXCEPT !.invalid = TRUE, !.request = NoRequest, !.since = now]
    ELSE [a EXCEPT !.request = request, !.since = now, !.invalid = FALSE]

AdapterReset(now) == [request |-> NoRequest, since |-> 0, out |-> now, speed |-> 0, invalid |-> FALSE]
AdapterStop(a, now) == [a EXCEPT !.request = NoRequest, !.since = 0, !.speed = 0, !.out = now]

Stopped(a, s, now) ==
    \/ Interlocked(s) \/ a.invalid \/ a.request = NoRequest
    \/ now < a.since \/ now < a.out \/ now - a.since > CommandLife

Approach(a, now) ==
    LET target == Clamp(a.request, -TopSpeed, TopSpeed)
        elapsed == IF a.out = 0 THEN 1 ELSE Clamp(now - a.out, 0, CommandLife)
        delta == IF Ramp * elapsed < 1 THEN 1 ELSE Ramp * elapsed
    IN  a.speed + Clamp(target - a.speed, -delta, delta)

Evaluated(a, s, now) ==
    IF Stopped(a, s, now) THEN AdapterStop(a, now)
    ELSE [a EXCEPT !.speed = Approach(a, now), !.out = now]

Command(a, s, now) ==
    [on |-> ~Stopped(a, s, now), speed |-> Evaluated(a, s, now).speed, at |-> now,
     controls |-> s.controls]

-----------------------------------------------------------------------------
(* The controller and the bus.  In a period it sends a heartbeat, a fault    *)
(* status, both in either order, a motion status, a frame whose length or     *)
(* checksum is wrong, or nothing.                                            *)

Batches ==
    {<< >>, <<"beat">>, <<"fault">>, <<"beat", "fault">>, <<"fault", "beat">>}
        \union (IF Use("motion") THEN {<<"motion">>, <<"bad">>} ELSE {})

Sends(batch, kind) == IF kind \in Range(batch) THEN 1 ELSE 0
Frame(kind) ==
    [kind |-> kind, at |-> ctl.now + 1, boot |-> mcu.boot, up |-> (ctl.now + 1 - mcu.at) % UptimeSpace,
     seq |-> IF kind = "beat" THEN mcu.seq ELSE mcu.faultSeq, faulted |-> mcu.faulted]

TimePasses(batch) ==
    /\ Use("chassis") /\ ctl.now < MaxTime /\ Len(rx) + Len(batch) <= MaxBacklog
    /\ Use("node") => ctl.sent.at = ctl.now   \* bound: the node's timer keeps its period
    /\ ctl' = [ctl EXCEPT !.now = @ + 1]
    /\ rx' = rx \o [i \in DOMAIN batch |-> Frame(batch[i])]
    /\ mcu' = [mcu EXCEPT !.seq = (@ + Sends(batch, "beat")) % SeqSpace,
                          !.faultSeq = (@ + Sends(batch, "fault")) % SeqSpace]
    /\ UNCHANGED <<cli, trk, ad>>

McuFaults ==
    /\ Use("fault") /\ ~mcu.faulted /\ mcu' = [mcu EXCEPT !.faulted = TRUE]
    /\ UNCHANGED <<rx, cli, trk, ad, ctl>>
McuReboots ==
    /\ Use("reboot") /\ mcu.boot = 1
    /\ mcu' = [mcu EXCEPT !.boot = 2, !.at = ctl.now, !.seq = 0, !.faultSeq = 0, !.faulted = TRUE]
    /\ UNCHANGED <<rx, cli, trk, ad, ctl>>

Sent(command) == ctl' = [ctl EXCEPT !.sent = command, !.off = IF command.on THEN @ ELSE ctl.now]

-----------------------------------------------------------------------------
(* VcanChassisSafetyLoop.  The caller passes the controls with every call;   *)
(* bound: a request and a step in a period, in any order.                    *)

LoopSubmit(request, controls) ==
    /\ Use("loop") /\ ad.since < ctl.now
    /\ cli' = SourceUpdated(cli, ctl.now)
    /\ ad' = SubmitRequest(ad, SafetyState(controls, cli', trk, TRUE), request, ctl.now)
    /\ UNCHANGED <<mcu, rx, trk, ctl>>

(* Step reads what the socket holds; what waited too long is ignored.  Then  *)
(* the command of this period is encoded and sent.                           *)
StaleFrame(f) == f.kind \in {"beat", "fault"} /\ ctl.now - f.at >= Window
AfterFrame(f, known) == IF StaleFrame(f) THEN known ELSE Processed(known[1], known[2], f)
Known[i \in 0 .. Len(rx)] == IF i = 0 THEN <<cli, trk>> ELSE AfterFrame(rx[i], Known[i - 1])
LoopStep(controls) ==
    /\ Use("loop") /\ ctl.sent.at < ctl.now
    /\ cli' = SourceUpdated(Known[Len(rx)][1], ctl.now) /\ trk' = Known[Len(rx)][2]
    /\ LET s == SafetyState(controls, cli', trk', TRUE)
       IN  ad' = Evaluated(ad, s, ctl.now) /\ Sent(Command(ad, s, ctl.now))
    /\ rx' = << >> /\ UNCHANGED mcu

(* Receive fails, or a frame has no timestamp or cannot be decoded: no       *)
(* command.  Bound: it fails only when the other frames are read.            *)
LoopStepFails ==
    /\ Use("loop") /\ Use("motion") /\ rx # << >>
    /\ cli' = Known[Len(rx)][1] /\ trk' = Known[Len(rx)][2]
    /\ rx' = << >> /\ UNCHANGED <<mcu, ad, ctl>>

(* Stop: the adapter is reset and a disabled command sent.                   *)
LoopStops ==
    /\ Use("loop") /\ ctl.sent.on
    /\ ad' = AdapterStop(AdapterReset(ctl.now), ctl.now)
    /\ Sent([on |-> FALSE, speed |-> 0, at |-> ctl.now, controls |-> "ok"])
    /\ UNCHANGED <<mcu, rx, cli, trk>>

-----------------------------------------------------------------------------
(* ChassisSafetyAdapterNode: callbacks of one executor thread.  What comes   *)
(* by a topic counts from when it is handled, not from when it was sent.     *)

(* bound: in a period the timer comes after what the topics bring.           *)
Handles == Use("node") /\ ctl.sent.at < ctl.now
NodeState == SafetyState(ctl.controls, cli, trk, FALSE)

NodeControls(controls) ==
    /\ Handles /\ Use("control")
    /\ ctl' = [ctl EXCEPT !.controls = controls]
    /\ ad' = IF Interlocked(SafetyState(controls, cli, trk, FALSE))
             THEN AdapterReset(ctl.now) ELSE ad
    /\ UNCHANGED <<mcu, rx, cli, trk>>

(* A twist with other components than the two is rejected as a bad request.  *)
NodeSubmit(request) ==
    /\ Handles /\ ad.since < ctl.now
    /\ ad' = IF request = BadRequest
             THEN [ad EXCEPT !.request = NoRequest, !.since = ctl.now, !.invalid = TRUE]
             ELSE SubmitRequest(ad, NodeState, request, ctl.now)
    /\ UNCHANGED <<mcu, rx, cli, trk, ctl>>

NodeHears ==
    /\ Handles /\ rx # << >>
    /\ trk' = IF Head(rx).kind = "beat" THEN [trk EXCEPT !.beat = ctl.now]
              ELSE [trk EXCEPT !.sample = ctl.now, !.faulted = Head(rx).faulted]
    /\ rx' = Tail(rx) /\ UNCHANGED <<mcu, cli, ad, ctl>>

NodeTimer ==
    /\ Use("node") /\ ctl.sent.at < ctl.now
    /\ ad' = Evaluated(ad, NodeState, ctl.now) /\ Sent(Command(ad, NodeState, ctl.now))
    /\ UNCHANGED <<mcu, rx, cli, trk>>

ChassisNext ==
    \/ McuFaults \/ McuReboots \/ LoopStepFails \/ LoopStops \/ NodeHears \/ NodeTimer
    \/ \E batch \in Batches : TimePasses(batch)
    \/ \E controls \in Controls : LoopStep(controls) \/ NodeControls(controls)
    \/ \E request \in Requests : NodeSubmit(request)
    \/ \E request \in Requests, controls \in Controls : LoopSubmit(request, controls)

-----------------------------------------------------------------------------
(* A command that moves the chassis is sent only while the controller is     *)
(* heard and reports no fault; over CAN, that report comes from the same     *)
(* boot as the heartbeat and no later fault frame of this boot was dropped   *)
(* as old, unless the reboot cannot be seen in the uptime.  The request      *)
(* behind it is young and was made after the last stop, and the speed moves  *)
(* by no more than the ramp from the command before, in the node from a      *)
(* standstill when an interlock came and went since (ChassisSafetyAdapter    *)
(* over ChassisCanSafetyStateSource or the node's tracker).                  *)
Distance(x, y) == IF x < y THEN y - x ELSE x - y
SafeToMove(c, t, now) ==
    /\ PeerAlive(t, now) /\ FaultFresh(t, now) /\ ~t.faulted
    /\ Use("loop") /\ ~c.missed =>
          t.boot = c.boot /\ (c.said.boot = c.boot => ~c.said.faulted)
MotionIsSafe ==
    [][ctl'.sent # ctl.sent /\ ctl'.sent.on =>
         /\ ctl'.sent.controls = "ok"
         /\ SafeToMove(cli', trk', ctl.now)
         /\ ctl.now - ad.since <= CommandLife /\ ad.since >= ctl.off
         /\ Distance(ctl'.sent.speed, IF Use("node") THEN ad.speed ELSE ctl.sent.speed)
               <= Ramp * (ctl.now - ctl.sent.at)
         /\ Distance(ctl'.sent.speed, 0) <= TopSpeed]_chassisVars
=============================================================================
