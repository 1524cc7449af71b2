---------------------------- MODULE SpeechInput -----------------------------
(***************************************************************************)
(* What the voice agent does with the microphone: the worker of            *)
(* AgentRuntime connects AudioStreamClient and hands each frame to         *)
(* VoiceInputGate::ProcessFrame, which forwards it to SpeechPipeline or    *)
(* not; the pipeline's SpeechSegmenter joins frames into segments, and a   *)
(* recognizer thread takes the segments from a ring.  The wake word path   *)
(* of the gate is in VoiceInteraction; here the interaction's state is an  *)
(* input.  Loss of sound anywhere on the way, and frames the gate keeps    *)
(* back, must not be spliced into one utterance.                           *)
(***************************************************************************)
EXTENDS AudioCapture

CONSTANTS
    PreRoll,          \* pre_roll_frames
    MaxSegment,       \* max_segment_frames
    SegmentRing       \* capacity of segments_

ASSUME SpeechAssumption ==
    /\ PreRoll \in Nat /\ MaxSegment \in Nat \ {0} /\ SegmentRing \in Nat \ {0}

VARIABLES aud, asr

speechVars == <<cap, pub, mic, aud, asr>>

NoSegment == << >>

SpeechInit ==
    /\ CaptureInit
    /\ aud = [conn |-> 0,          \* socket_fd_
              used |-> 0,          \* connections so far
              inbox |-> << >>,     \* packets in the socket
              mode |-> "other",    \* last_mode_
              pre |-> << >>,       \* pre_roll_
              seg |-> NoSegment,   \* active_segment_
              agent |-> "up"]      \* AgentRuntime: up, stopping, down
    /\ asr = [running |-> TRUE,    \* running_
              queue |-> 0,         \* segments in segments_
              step |-> "idle",     \* the recognizer thread
              active |-> FALSE, cancelled |-> FALSE,    \* recognition_...
              timedOut |-> FALSE]  \* recognition_timed_out

-----------------------------------------------------------------------------
(* SendFrame: the client may have gone, or not have read for 20 ms.        *)
SendFrame ==
    /\ pub.up /\ pub.sending # NoFrame
    /\ IF pub.fd = aud.conn /\ Len(aud.inbox) < SocketFrames
       THEN /\ aud' = [aud EXCEPT !.inbox = Append(@, pub.sending)]
            /\ pub' = [pub EXCEPT !.sending = NoFrame]
       ELSE /\ pub' = [pub EXCEPT !.sending = NoFrame, !.fd = 0]
            /\ UNCHANGED aud
    /\ UNCHANGED <<cap, mic, asr>>

(* AudioStreamClient::Connect succeeds while the publisher listens.        *)
ClientConnect ==
    /\ Use("sound") /\ aud.agent = "up" /\ aud.conn = 0 /\ aud.used < MaxConnects /\ pub.up
    /\ aud' = [aud EXCEPT !.conn = aud.used + 1, !.used = @ + 1]
    /\ pub' = [pub EXCEPT !.backlog = Append(@, aud.used + 1)]
    /\ UNCHANGED <<cap, mic, asr>>

(* ReceiveFrame finds the connection ended, or fails: Close drops what the *)
(* socket still holds.                                                     *)
ClientDisconnected ==
    /\ aud.conn # 0
    /\ \/ Use("reconnect")
       \/ /\ aud.conn # pub.fd /\ aud.inbox = << >>
          /\ \A k \in 1 .. Len(pub.backlog) : pub.backlog[k] # aud.conn
    /\ aud' = [aud EXCEPT !.conn = 0, !.inbox = << >>]
    /\ UNCHANGED <<cap, pub, mic, asr>>

-----------------------------------------------------------------------------
(* SpeechSegmenter::Process and SpeechPipeline::Submit, as functions of    *)
(* the segmenter's state.                                                  *)
PushPreRoll(pre, f) ==
    LET all == Append(pre, f)
    IN  SubSeq(all, Len(all) - (IF Len(all) > PreRoll THEN PreRoll ELSE Len(all)) + 1,
               Len(all))

Process(pre, seg, f, voiced) ==
    LET kept == IF f.gap THEN << >> ELSE pre
    IN  CASE f.gap /\ seg # NoSegment ->
               [pre |-> PushPreRoll(kept, f), seg |-> NoSegment, out |-> seg]
          [] seg = NoSegment /\ ~voiced ->
               [pre |-> PushPreRoll(kept, f), seg |-> NoSegment, out |-> NoSegment]
          [] seg # NoSegment /\ ~voiced ->
               [pre |-> PushPreRoll(kept, f), seg |-> NoSegment, out |-> seg]
          [] OTHER ->
               LET grown == IF seg = NoSegment THEN Append(kept, f) ELSE Append(seg, f)
                   full  == Len(grown) >= MaxSegment
               IN  [pre |-> IF seg = NoSegment THEN << >> ELSE kept,
                    seg |-> IF full THEN NoSegment ELSE grown,
                    out |-> IF full THEN grown ELSE NoSegment]

(* PublishSegment: a full ring refuses the segment.                        *)
PublishSegment(queue, segment) ==
    IF segment # NoSegment /\ queue < SegmentRing THEN queue + 1 ELSE queue

(* The agent's worker has received a frame: ProcessFrame.  The mode is the *)
(* service's at this moment; leaving speech resets the segmenter.  The     *)
(* detector decides; when it throws, detector and segmenter are reset.     *)
HandleFrame ==
    /\ aud.agent = "up" /\ aud.inbox # << >>
    /\ \/ /\ aud' = [aud EXCEPT !.inbox = Tail(@), !.mode = "other", !.pre = << >>,
                                !.seg = NoSegment]
          /\ UNCHANGED asr
       \/ \E voiced \in BOOLEAN :
            LET r == Process(aud.pre, aud.seg, Head(aud.inbox), voiced)
            IN  /\ aud' = [aud EXCEPT !.inbox = Tail(@), !.mode = "speech", !.pre = r.pre,
                              !.seg = r.seg]
                /\ asr' = [asr EXCEPT !.queue = PublishSegment(@, r.out)]
       \/ /\ aud' = [aud EXCEPT !.inbox = Tail(@), !.mode = "speech", !.pre = << >>,
                                !.seg = NoSegment]
          /\ UNCHANGED asr
    /\ UNCHANGED <<cap, pub, mic>>

-----------------------------------------------------------------------------
(* RecognizeSegments.  Recognize returns by itself in the end; the         *)
(* watchdog thread cancels it after the deadline.                          *)
TakeSegment ==
    /\ asr.step = "idle" /\ asr.queue # 0
    /\ asr' = [asr EXCEPT !.step = "recognize", !.queue = @ - 1, !.active = TRUE,
                          !.cancelled = FALSE, !.timedOut = FALSE]
    /\ UNCHANGED <<cap, pub, mic, aud>>

Watchdog ==
    /\ asr.step = "recognize" /\ ~asr.timedOut
    /\ asr' = [asr EXCEPT !.timedOut = TRUE, !.cancelled = @ \/ asr.active]
    /\ UNCHANGED <<cap, pub, mic, aud>>

(* With a transcript or without; Cancel has no effect once decoding began.  *)
RecognitionSucceeds == BOOLEAN

RecognizeReturns ==
    /\ asr.step = "recognize"
    /\ \E ok \in RecognitionSucceeds :
         asr' = [asr EXCEPT !.active = FALSE,
                            !.step = IF ok /\ ~asr.timedOut /\ asr.running /\ ~asr.cancelled
                                     THEN "deliver" ELSE "idle"]
    /\ UNCHANGED <<cap, pub, mic, aud>>

DeliverTranscript ==
    /\ asr.step = "deliver"
    /\ asr' = [asr EXCEPT !.step = "idle"]
    /\ UNCHANGED <<cap, pub, mic, aud>>

RecognizerExits ==
    /\ asr.step = "idle" /\ asr.queue = 0 /\ ~asr.running
    /\ asr' = [asr EXCEPT !.step = "done"]
    /\ UNCHANGED <<cap, pub, mic, aud>>

(* AgentRuntime::Stop: the worker is joined, then SpeechPipeline::Stop     *)
(* flushes the segmenter, cancels the recognition and joins.               *)
AgentStop ==
    /\ Use("down") /\ aud.agent = "up"
    /\ aud' = [aud EXCEPT !.agent = "stopping", !.conn = 0, !.inbox = << >>]
    /\ UNCHANGED <<cap, pub, mic, asr>>

PipelineStop ==
    /\ aud.agent = "stopping" /\ asr.running
    /\ asr' = [asr EXCEPT !.queue = PublishSegment(@, aud.seg), !.running = FALSE,
                          !.cancelled = @ \/ asr.active]
    /\ aud' = [aud EXCEPT !.seg = NoSegment]
    /\ UNCHANGED <<cap, pub, mic>>

PipelineJoined ==
    /\ aud.agent = "stopping" /\ asr.step = "done"
    /\ aud' = [aud EXCEPT !.agent = "down"]
    /\ UNCHANGED <<cap, pub, mic, asr>>

RecognizerStep == TakeSegment \/ RecognizeReturns \/ DeliverTranscript \/ RecognizerExits

SpeechNext ==
    \/ (CaptureCall \/ ControllerStep) /\ UNCHANGED <<aud, asr>>
    \/ ReaderStep /\ UNCHANGED <<aud, asr>>
    \/ ProcessingStep /\ UNCHANGED <<aud, asr>>
    \/ PublisherStep /\ UNCHANGED <<aud, asr>>
    \/ SendFrame \/ ClientConnect \/ ClientDisconnected \/ HandleFrame
    \/ RecognizerStep \/ Watchdog
    \/ AgentStop \/ PipelineStop \/ PipelineJoined

SpeechFairness ==
    /\ WF_speechVars(ReaderStep /\ UNCHANGED <<aud, asr>>)
    /\ WF_speechVars(ControllerStep /\ UNCHANGED <<aud, asr>>)
    /\ WF_speechVars(ProcessingStep /\ UNCHANGED <<aud, asr>>)
    /\ WF_speechVars(RecognizerStep)
    /\ WF_speechVars(PipelineStop) /\ WF_speechVars(PipelineJoined)

-----------------------------------------------------------------------------
(* A segment is sound without a hole: no frame lost to an overrun, a full  *)
(* ring, a full publisher queue, a broken connection or the gate lies      *)
(* between two frames that active_segment_ joins or the pre-roll would     *)
(* join to it.  Only between two capture sessions no flag says so.         *)
NothingSpliced ==
    \A joined \in {aud.seg, aud.pre} : \A k \in 1 .. Len(joined) - 1 :
        joined[k].sess = joined[k + 1].sess => joined[k + 1].at = joined[k].at + 1

(* Start and Stop of the capture, which hold the controller's mutex over   *)
(* the joins of two threads, and the agent's Stop return.                  *)
CaptureCallsReturn ==
    /\ cap.ctl \notin {"idle", "down"} ~> cap.ctl \in {"idle", "down"}
    /\ aud.agent = "stopping" ~> aud.agent = "down"
=============================================================================
