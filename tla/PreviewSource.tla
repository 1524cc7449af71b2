--------------------------- MODULE PreviewSource ----------------------------
(***************************************************************************)
(* driver/camera/capture: where preview frames come from.  The software    *)
(* ISP source has a capture thread, which reopens a lost device, and an    *)
(* ISP thread, which decides whether a frame ends a recovery.  The other   *)
(* sources (GStreamer and synthetic) have one streaming thread, which uses *)
(* the place of the ISP thread here.  An action is what a thread does      *)
(* between two points where the other can be seen: an atomic, a section    *)
(* under mutex_, a call of the device.                                     *)
(***************************************************************************)
EXTENDS Naturals, Sequences, Scene

CONSTANTS
    IspQueue,        \* raw frames waiting for the ISP
    MaxGenerations   \* bound: devices that are opened after the first

ASSUME SourceAssumption == IspQueue \in Nat \ {0} /\ MaxGenerations \in Nat

(* src: run, recover, expired: running_, recovering_,                       *)
(*      recovery_output_timeout_; stop, callback; device: what capture_     *)
(*      points to; gen: capture_generation_; deadline: recovery_deadline_   *)
(*      against the clock; queue: the generations of the frames in queue_;  *)
(*      cap, isp: the threads' places; frame: the ISP thread's frame.       *)
(* reconnects: ghost, the successes counted for each generation.            *)
VARIABLES src, reconnects

sourceVars == <<src, reconnects>>

(* Words: "isp", the source is the software ISP, otherwise a streaming one; *)
(* "unplug", the device can be lost or go silent.                           *)
IsIsp == Use("isp")

SourceInit ==
    /\ src = [run |-> FALSE, recover |-> FALSE, expired |-> FALSE, stop |-> FALSE,
              callback |-> FALSE, device |-> "none", gen |-> 0,
              deadline |-> "none", queue |-> << >>, cap |-> "off", isp |-> "off",
              frame |-> 0]
    /\ reconnects = [g \in 0 .. MaxGenerations |-> 0]

CapAt(label) == src.cap = label
CapGoto(label) == src' = [src EXCEPT !.cap = label]
IspGoto(label) == src' = [src EXCEPT !.isp = label]

(* Start after its own Stop, when the device opens.  capture_generation_    *)
(* goes on from where it was.                                               *)
SourceStarts ==
    src' = [src EXCEPT !.run = TRUE, !.stop = FALSE, !.callback = TRUE,
                       !.device = "open", !.queue = << >>, !.recover = FALSE,
                       !.expired = FALSE, !.deadline = "none",
                       !.cap = IF IsIsp THEN "top" ELSE "off", !.isp = "wait"]

(* A notification reaches the ISP thread only when it sleeps.               *)
Woken(isp) == IF isp = "asleep" THEN "wait" ELSE isp

(* Stop: ask the threads to end and notify, without the mutex, ...          *)
SourceStopBegins ==
    src' = IF IsIsp THEN [src EXCEPT !.stop = TRUE, !.isp = Woken(@)]
                    ELSE [src EXCEPT !.stop = TRUE, !.callback = FALSE, !.run = FALSE]

(* ... and when they are joined forget everything but the generation.       *)
StopWithoutJoin ==
    src' = [src EXCEPT !.run = FALSE, !.recover = FALSE, !.expired = FALSE,
                       !.callback = FALSE, !.device = "none",
                       !.deadline = "none", !.queue = << >>]

SourceStopEnds ==
    /\ src.cap = "off" /\ src.isp = "off"
    /\ src' = [src EXCEPT !.run = FALSE, !.recover = FALSE, !.expired = FALSE,
                          !.callback = FALSE, !.device = "none",
                          !.deadline = "none", !.queue = << >>]

-----------------------------------------------------------------------------
(* CaptureLoop.                                                            *)

CapTop ==
    /\ CapAt("top")
    /\ IF src.stop THEN CapGoto("off")
       ELSE src' = [src EXCEPT !.cap = IF src.expired THEN "timeout" ELSE "get",
                               !.expired = FALSE]

DropDevice(s) == [s EXCEPT !.device = "none", !.deadline = "none"]

CapTimeout == CapAt("timeout") /\ src' = [DropDevice(src) EXCEPT !.cap = "top"]

CapGet == CapAt("get") /\ CapGoto(IF src.device = "none" THEN "missing" ELSE "read")

CapMissing == CapAt("missing") /\ src' = [src EXCEPT !.recover = TRUE, !.cap = "backoff"]

CapBackoff == CapAt("backoff") /\ CapGoto(IF src.stop THEN "off" ELSE "reopen")

ReopenFails == CapAt("reopen") /\ CapGoto("top")

ReopenSucceeds ==
    /\ CapAt("reopen") /\ src.gen < MaxGenerations
    /\ src' = [src EXCEPT !.device = "open", !.gen = @ + 1, !.deadline = "ahead",
                          !.recover = TRUE, !.cap = "top"]

(* What a dequeued buffer can come to: a frame; nothing that can be used in  *)
(* the second of the poll, the device still streaming; a device that is gone *)
(* and has stopped itself.                                                   *)
Reads == {"got"} \cup (IF Use("unplug") THEN {"empty", "gone"} ELSE {})
WaitFrame == CapAt("read") /\ \E r \in Reads : CapGoto(r)

(* A new frame takes the place of the oldest one.                            *)
Enqueue ==
    /\ CapAt("got") /\ src.isp # "falling"
    /\ src' = [src EXCEPT !.cap = "top", !.isp = Woken(@),
                          !.queue = Append(IF Len(@) >= IspQueue THEN Tail(@) ELSE @,
                                           src.gen)]

(* capture_ and the deadline go in one section, recovering_ is set after it. *)
ReadLost ==
    /\ CapAt("gone")
    /\ src' = IF src.stop THEN [src EXCEPT !.cap = "off"]
              ELSE [DropDevice(src) EXCEPT !.cap = "lost"]

MarkRecovering == CapAt("lost") /\ src' = [src EXCEPT !.recover = TRUE, !.cap = "top"]

(* A recovery past its deadline is given up.                                 *)
ReadNothing ==
    /\ CapAt("empty")
    /\ src' = IF src.stop THEN [src EXCEPT !.cap = "off"]
              ELSE IF src.recover /\ src.deadline = "past"
                   THEN [DropDevice(src) EXCEPT !.cap = "top"]
                   ELSE [src EXCEPT !.cap = "top"]

DeadlinePasses ==
    /\ src.deadline = "ahead" /\ Use("unplug")
    /\ src' = [src EXCEPT !.deadline = "past"]

-----------------------------------------------------------------------------
(* IspLoop.                                                                *)

IspTake ==
    /\ IsIsp /\ src.isp = "wait" /\ src.queue # << >>
    /\ src' = [src EXCEPT !.frame = Head(src.queue), !.queue = Tail(@),
                          !.isp = IF src.callback THEN "process" ELSE "ending"]

(* Nothing to do: the thread falls asleep with the mutex held, which keeps   *)
(* frames out but not a Stop.                                                *)
IspWaits ==
    /\ IsIsp /\ src.isp = "wait" /\ ~src.stop /\ src.queue = << >> /\ IspGoto("falling")
IspSleeps == src.isp = "falling" /\ IspGoto("asleep")

IspStopsOnFrame == src.isp = "wait" /\ src.stop /\ src.queue # << >> /\ IspGoto("ending")

IspStops == src.isp = "wait" /\ src.stop /\ IspGoto("ending")

IspEnds == src.isp = "ending" /\ src' = [src EXCEPT !.run = FALSE, !.isp = "off", !.frame = 0]

(* Process fails: only the deadline is looked at, not the generation.       *)
IspFails ==
    /\ IsIsp /\ src.isp = "process" /\ Use("unplug")
    /\ src' = [src EXCEPT !.isp = "wait",
                          !.expired = @ \/ (src.recover /\ src.deadline = "past")]

(* Process succeeds: inside a recovery only a frame of this generation,     *)
(* before the deadline, ends the recovery and is delivered.                 *)
InTime == src.frame = src.gen /\ src.deadline = "ahead"
IspJudges ==
    /\ IsIsp /\ src.isp = "process"
    /\ src' = [src EXCEPT
         !.isp = IF src.recover /\ ~InTime THEN "wait" ELSE "deliver",
         !.expired = @ \/ (src.recover /\ src.frame = src.gen /\ src.deadline = "past"),
         !.recover = @ /\ ~InTime,
         !.deadline = IF src.recover /\ InTime THEN "none" ELSE @]
    /\ reconnects' = IF src.recover /\ InTime
                     THEN [reconnects EXCEPT ![src.gen] = @ + 1] ELSE reconnects

-----------------------------------------------------------------------------
(* HandleNewSample of GStreamer, and Run of the synthetic source: the       *)
(* callback is copied under the mutex and called without it.                *)

StreamSample ==
    /\ ~IsIsp /\ src.isp = "wait" /\ ~src.stop
    /\ IspGoto(IF src.callback THEN "deliver" ELSE "wait")

(* The synthetic source's disconnect fault ends its thread; a pipeline only *)
(* falls silent.                                                            *)
StreamDisconnects ==
    /\ ~IsIsp /\ src.isp = "wait" /\ Use("unplug") /\ IspGoto("ending")

(* The callback is over.                                                    *)
Delivered == IspGoto("wait")

CaptureThread ==
    CapTop \/ CapTimeout \/ CapGet \/ CapMissing \/ CapBackoff \/ ReopenFails
    \/ ReopenSucceeds \/ WaitFrame \/ Enqueue \/ ReadLost \/ MarkRecovering \/ ReadNothing

IspThread ==
    IspTake \/ IspWaits \/ IspSleeps \/ IspStops \/ IspEnds \/ IspFails
    \/ StreamSample \/ StreamDisconnects

SourceStep ==
    \/ (CaptureThread \/ IspThread \/ DeadlinePasses) /\ UNCHANGED reconnects
    \/ IspJudges
=============================================================================
