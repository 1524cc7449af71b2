---------------------------- MODULE AudioCapture ----------------------------
(***************************************************************************)
(* The microphone path of the audio driver: AudioCaptureStream's reader    *)
(* thread fills a ring, AudioCaptureController's processing thread empties *)
(* it into AudioStreamPublisher's queue, and the publisher's thread sends  *)
(* to the one client of audio-capture.sock.  Frames are lost at three      *)
(* places, an overrun of the device, a full ring and a full queue, and     *)
(* every loss must reach the client as a discontinuity flag on the next    *)
(* frame.  A frame here is the period `at' it was heard in and that flag.  *)
(***************************************************************************)
EXTENDS Integers, Sequences, Scene

CONSTANTS
    RingCapacity,     \* of SpscRingBuffer<AudioFrame, ...>
    QueueLimit,       \* queue_capacity_ of the publisher
    SocketFrames,     \* packets the socket buffers
    MaxPeriods,       \* bound: 20 ms periods of sound
    FewPeriods,       \* bound: the same in scenes with "few"
    MaxSessions,      \* bound: starts of the capture
    MaxConnects       \* bound: connections of the client

ASSUME CaptureAssumption ==
    /\ RingCapacity \in Nat \ {0} /\ QueueLimit \in Nat \ {0}
    /\ SocketFrames \in Nat \ {0} /\ MaxPeriods \in Nat
    /\ FewPeriods \in 0 .. MaxPeriods
    /\ MaxSessions \in Nat /\ MaxConnects \in Nat

VARIABLES cap, pub, mic

(* The period a frame was heard in counts over all sessions, so lost sound *)
(* shows as a jump of `at'; no code keeps it.                              *)
Frames == [at : 1 .. MaxPeriods, sess : 1 .. MaxSessions, gap : BOOLEAN]
NoFrame == [at |-> 0, sess |-> 0, gap |-> FALSE]

CaptureInit ==
    /\ cap = [ctl |-> "idle",          \* who holds mutex_: Start or Stop
              then |-> "idle",         \* what follows StopLocked
              state |-> "stopped",     \* state_
              reader |-> "none",       \* worker_ of the stream
              stop |-> FALSE,          \* stop_requested_
              gap |-> FALSE,           \* pending_flags of Run
              ring |-> << >>,          \* buffer_
              proc |-> "none",         \* processing_worker_
              procStop |-> TRUE,       \* processing_stop_
              held |-> NoFrame]        \* the frame ProcessFrames holds
    /\ pub = [up |-> TRUE,             \* running_
              queue |-> << >>,         \* frames_
              gap |-> FALSE,           \* discontinuity_pending_
              fd |-> 0,                \* client_fd, the connection's number
              backlog |-> << >>,       \* connections not accepted yet
              sending |-> NoFrame]     \* the frame Run has taken
    /\ mic = [now |-> 0, sess |-> 0]

-----------------------------------------------------------------------------
(* AudioCaptureController.  Words: "sound", capture is started; "restart", *)
(* it is stopped and started; "device", the device fails; "reconnect", the *)
(* client's connection breaks; "down", driver and agent are stopped.       *)
Periods == IF Use("few") THEN FewPeriods ELSE MaxPeriods

StopLocked(then) ==
    cap' = [cap EXCEPT !.ctl = "stopping", !.then = then, !.stop = TRUE]

CaptureStart ==
    /\ cap.ctl = "idle" /\ cap.state \in {"stopped", "faulted"}
    /\ Use("sound") /\ mic.sess < (IF Use("restart") THEN MaxSessions ELSE 1)
    /\ StopLocked("open") /\ UNCHANGED <<pub, mic>>

CaptureStop ==
    /\ Use("restart") /\ cap.ctl = "idle" /\ cap.state # "stopped"
    /\ StopLocked("idle") /\ UNCHANGED <<pub, mic>>

(* AudioRuntime::Stop, which ends with the publisher's Stop.               *)
CaptureShutdown ==
    /\ Use("down") /\ cap.ctl = "idle"
    /\ StopLocked("down") /\ UNCHANGED <<pub, mic>>

(* Mutant: the processing thread is not told.                              *)
(* AudioCaptureStream::Stop has joined the reader.                         *)
ReaderJoined ==
    /\ cap.ctl = "stopping" /\ cap.reader = "none"
    /\ cap' = [cap EXCEPT !.ctl = "joining", !.state = "stopped", !.procStop = TRUE]
    /\ UNCHANGED <<pub, mic>>

(* The processing thread is joined; Start goes on with a new stream.       *)
ProcessingJoined ==
    /\ cap.ctl = "joining" /\ cap.proc = "none"
    /\ IF cap.then = "open"
       THEN /\ cap' = [cap EXCEPT !.ctl = "opening", !.state = "starting",
                          !.reader = "opening", !.stop = FALSE, !.gap = FALSE,
                          !.ring = << >>]
            /\ mic' = [mic EXCEPT !.sess = @ + 1]
       ELSE /\ cap' = [cap EXCEPT !.ctl = cap.then]
            /\ UNCHANGED mic
    /\ UNCHANGED pub

(* Start waits up to a second for the device.                              *)
CaptureReady ==
    /\ cap.ctl = "opening" /\ cap.state = "running"
    /\ cap' = [cap EXCEPT !.ctl = "idle", !.proc = "run", !.procStop = FALSE]
    /\ UNCHANGED <<pub, mic>>

CaptureNotReady ==
    /\ cap.ctl = "opening" /\ cap.state \in {"starting", "faulted"}
    /\ cap.state = "starting" => Use("device")
    /\ StopLocked("idle") /\ UNCHANGED <<pub, mic>>

-----------------------------------------------------------------------------
(* AudioCaptureStream::Run.  Reads that fill part of a frame and timeouts  *)
(* change nothing that is seen outside.                                    *)
DeviceOpened ==
    /\ cap.reader = "opening"
    /\ \/ cap' = [cap EXCEPT !.reader = "reading", !.state = "running"]
       \/ Use("device") /\ cap' = [cap EXCEPT !.reader = "none", !.state = "faulted"]
    /\ UNCHANGED <<pub, mic>>

(* Mutant: a push that the full ring refuses is not remembered.            *)
ReadForgetsDrop ==
    /\ cap.reader = "reading" /\ ~cap.stop /\ mic.now < Periods
    /\ mic' = [mic EXCEPT !.now = @ + 1]
    /\ LET frame == [at |-> mic.now + 1, sess |-> mic.sess, gap |-> cap.gap]
       IN  cap' = IF Len(cap.ring) < RingCapacity
                  THEN [cap EXCEPT !.ring = Append(@, frame), !.gap = FALSE]
                  ELSE [cap EXCEPT !.gap = FALSE]
    /\ UNCHANGED pub

ReadFrame ==
    /\ cap.reader = "reading" /\ ~cap.stop /\ mic.now < Periods
    /\ mic' = [mic EXCEPT !.now = @ + 1]
    /\ LET frame == [at |-> mic.now + 1, sess |-> mic.sess, gap |-> cap.gap]
       IN  cap' = IF Len(cap.ring) < RingCapacity
                  THEN [cap EXCEPT !.ring = Append(@, frame), !.gap = FALSE]
                  ELSE [cap EXCEPT !.gap = TRUE]
    /\ UNCHANGED pub

(* PollReadFrames recovered from an overrun: what it had read is lost.     *)
Overrun ==
    /\ cap.reader = "reading" /\ ~cap.stop /\ mic.now < Periods
    /\ mic' = [mic EXCEPT !.now = @ + 1]
    /\ cap' = [cap EXCEPT !.gap = TRUE]
    /\ UNCHANGED pub

DeviceFails ==
    /\ Use("device") /\ cap.reader = "reading" /\ ~cap.stop
    /\ cap' = [cap EXCEPT !.reader = "none", !.state = "faulted", !.stop = TRUE]
    /\ UNCHANGED <<pub, mic>>

ReaderStops ==
    /\ cap.reader = "reading" /\ cap.stop
    /\ cap' = [cap EXCEPT !.reader = "none", !.state = "stopped"]
    /\ UNCHANGED <<pub, mic>>

-----------------------------------------------------------------------------
(* ProcessFrames looks at processing_stop_ after it has found the ring     *)
(* empty.                                                                  *)
PopFrame ==
    /\ cap.proc = "run" /\ cap.ring # << >>
    /\ cap' = [cap EXCEPT !.proc = "publish", !.held = Head(cap.ring), !.ring = Tail(@)]
    /\ UNCHANGED <<pub, mic>>

FindEmpty ==
    /\ cap.proc = "run" /\ cap.ring = << >>
    /\ cap' = [cap EXCEPT !.proc = "empty"]
    /\ UNCHANGED <<pub, mic>>

ProcessingStops ==
    /\ cap.proc = "empty"
    /\ cap' = [cap EXCEPT !.proc = IF cap.procStop THEN "none" ELSE "run"]
    /\ UNCHANGED <<pub, mic>>

(* Publish: the oldest frame makes room.                                   *)
Publish ==
    /\ cap.proc = "publish"
    /\ cap' = [cap EXCEPT !.proc = "run", !.held = NoFrame]
    /\ pub' = IF Len(pub.queue) >= QueueLimit
              THEN [pub EXCEPT !.queue = Append(Tail(@), cap.held), !.gap = TRUE]
              ELSE [pub EXCEPT !.queue = Append(@, cap.held)]
    /\ UNCHANGED mic

(* AudioStreamPublisher::Run.                                              *)
AcceptClient ==
    /\ pub.up /\ pub.fd = 0 /\ pub.backlog # << >>
    /\ pub' = [pub EXCEPT !.fd = Head(pub.backlog), !.backlog = Tail(@), !.gap = TRUE]
    /\ UNCHANGED <<cap, mic>>

TakeFrame ==
    /\ pub.up /\ pub.fd # 0 /\ pub.sending = NoFrame /\ pub.queue # << >>
    /\ LET first == Head(pub.queue) IN
       pub' = [pub EXCEPT !.queue = Tail(@), !.gap = FALSE,
                  !.sending = [first EXCEPT !.gap = first.gap \/ pub.gap]]
    /\ UNCHANGED <<cap, mic>>

PublisherStop ==
    /\ cap.ctl = "down" /\ pub.up
    /\ pub' = [pub EXCEPT !.up = FALSE, !.fd = 0, !.queue = << >>, !.gap = FALSE,
                          !.sending = NoFrame, !.backlog = << >>]
    /\ UNCHANGED <<cap, mic>>

ReaderStep == DeviceOpened \/ ReadFrame \/ Overrun \/ DeviceFails \/ ReaderStops
ProcessingStep == PopFrame \/ FindEmpty \/ ProcessingStops \/ Publish
ControllerStep == ReaderJoined \/ ProcessingJoined \/ CaptureReady \/ CaptureNotReady
PublisherStep == AcceptClient \/ TakeFrame \/ PublisherStop
CaptureCall == CaptureStart \/ CaptureStop \/ CaptureShutdown
=============================================================================
