--------------------------- MODULE PlaybackClient ---------------------------
(***************************************************************************)
(* voice/audio/audio_playback_client.cc with the focus controller, the     *)
(* wake prompt player and the driver they talk to.  The sink's worker runs *)
(* SubmitCancellable; other threads call Interrupt and Stop.  An action is *)
(* what a thread does between two points where another thread, or the      *)
(* driver, can be seen: an atomic, a section under state_mutex_, a call.   *)
(* `cancel' is RequestPlaybackCancellation, which three threads can be in. *)
(***************************************************************************)
EXTENDS PlaybackDriver, FiniteSets, Scene

CONSTANTS
    MaxRequests,     \* bound: responses the worker is given
    MaxSegments,     \* bound: segments of one response
    MaxInterrupts,   \* bound: interrupts
    PromptIds        \* ids the wake prompt player uses

ASSUME ClientAssumption ==
    /\ MaxRequests \in Nat /\ MaxSegments \in Nat \ {0} /\ MaxInterrupts \in Nat
    /\ PromptIds \subseteq Playbacks

VARIABLES
    cl,        \* the members of AudioPlaybackClient and of the focus controller
    wk,        \* the worker's place and locals
    cancel,    \* each thread's place in RequestPlaybackCancellation
    caller,    \* the threads in Interrupt and in Stop
    net,       \* PlayPcm requests on their way, and their answers
    prompt,    \* the wake prompt player
    heard      \* ghost: generation of the request each id belongs to; the
               \* last generation whose Interrupt is over; cancel calls per id

playbackVars == <<drv, cl, wk, cancel, caller, net, prompt, heard>>

Cancellers == {"worker", "interrupt", "stop"}
MaxAttempts == 2                        \* kMaxCancellationAttempts
IdleCancel == [pc |-> "idle", id |-> 0, whole |-> FALSE, own |-> FALSE, ok |-> FALSE]
(* Words: "speak", a response; "interrupt", "stop"; "prompt"; "driver", the *)
(* driver stops; "faults", calls to the driver fail or come late.           *)
Faulty == Use("faults")
TtsIds == Playbacks \ PromptIds

PlaybackInit ==
    /\ DriverInit
    /\ cl = [req |-> 0, pb |-> 0, attempts |-> 0, flight |-> FALSE,
             confirmed |-> FALSE, stopping |-> FALSE, gen |-> 0,
             token |-> FALSE, focus |-> FALSE]
    /\ wk = [pc |-> "idle", req |-> 0, left |-> 0, gen |-> 0, pb |-> 0,
             fallback |-> FALSE, unsure |-> FALSE, got |-> "none", early |-> FALSE]
    /\ cancel = [t \in Cancellers |-> IdleCancel]
    /\ caller = [t \in {"interrupt", "stop"} |-> [pc |-> "idle", count |-> 0, gen |-> 0]]
    /\ net = [i \in Playbacks |-> "none"]
    /\ prompt = [pc |-> "idle", id |-> 0, stopping |-> FALSE]
    /\ heard = [gen |-> [i \in Playbacks |-> 0], over |-> 0,
                calls |-> [i \in Playbacks |-> 0]]

Goto(label) == wk' = [wk EXCEPT !.pc = label]

(* Out of SubmitCancellable: its locals are gone.                          *)
Left == [pc |-> "done", req |-> wk.req, left |-> 0, gen |-> 0, pb |-> 0,
         fallback |-> FALSE, unsure |-> FALSE, got |-> "none", early |-> FALSE]
Leave == wk' = Left

(* stopping_ aside, the three places that look for an interruption ask the *)
(* same question.                                                          *)
Interrupted == wk.gen # cl.gen \/ cl.token

ClearActiveRequest(c) ==
    IF c.req = wk.req
    THEN [c EXCEPT !.req = 0, !.pb = 0, !.attempts = 0, !.flight = FALSE,
                   !.confirmed = FALSE]
    ELSE c

-----------------------------------------------------------------------------
(* Media focus.                                                            *)

(* AsyncVoiceResponseSink::Run hands over a response.                      *)
TakeResponse ==
    /\ Use("speak") /\ wk.pc = "idle" /\ wk.req < MaxRequests /\ caller["stop"].pc = "idle"
    /\ \E n \in 1 .. MaxSegments :
         wk' = [wk EXCEPT !.pc = "focus", !.req = @ + 1, !.left = n]
    /\ cl' = [cl EXCEPT !.token = FALSE]
    /\ UNCHANGED <<drv, cancel, caller, net, prompt, heard>>

(* AcquireTts: GetStatus, and for playing media a Pause to confirm.  The   *)
(* user works the player at any time, so each call may find any state.     *)
FocusStatus ==
    /\ wk.pc = "focus"
    /\ \/ Goto("pause") /\ UNCHANGED cl                        \* playing
       \/ /\ cl' = [cl EXCEPT !.focus = TRUE] \* paused, stopped
          /\ Goto("segment")
       \/ Leave /\ UNCHANGED cl                         \* faulted, no answer
    /\ UNCHANGED <<drv, cancel, caller, net, prompt, heard>>

FocusPause ==
    /\ wk.pc = "pause"
    /\ \/ /\ cl' = [cl EXCEPT !.focus = TRUE]
          /\ Goto("segment")
       \/ Leave /\ UNCHANGED cl                         \* not paused
    /\ UNCHANGED <<drv, cancel, caller, net, prompt, heard>>

(* ReleaseTts, when the lease goes out of scope (it resumes what it paused,*)
(* whatever that answers), and back to the sink.                           *)
ReleaseFocus ==
    /\ wk.pc = "done"
    /\ cl' = [cl EXCEPT !.focus = FALSE]
    /\ Goto("idle")
    /\ UNCHANGED <<drv, cancel, caller, net, prompt, heard>>

-----------------------------------------------------------------------------
(* SubmitSingleSegment.                                                    *)
LoadGeneration ==
    /\ wk.pc = "segment"
    /\ wk' = [wk EXCEPT !.pc = "enter", !.gen = cl.gen, !.pb = 0, !.fallback = FALSE,
                        !.unsure = FALSE, !.got = "none", !.early = FALSE]
    /\ UNCHANGED <<drv, cl, cancel, caller, net, prompt, heard>>

EnterSegment ==
    /\ wk.pc = "enter"
    /\ IF cl.stopping \/ cl.req # 0 \/ cl.token
       THEN Leave /\ UNCHANGED cl
       ELSE /\ Goto("synth")
            /\ cl' = [cl EXCEPT !.req = wk.req, !.attempts = 0, !.flight = FALSE,
                                !.confirmed = FALSE]
    /\ UNCHANGED <<drv, cancel, caller, net, prompt, heard>>

(* What the synthesizer returns with: audio or none.  Its cancelled_ flag   *)
(* is cleared as it begins, so a Cancel that comes before is lost and one   *)
(* that comes during it may still find the audio complete.                  *)
SynthesisResults == {"audio", "none"}

(* Synthesize returns, by itself or because the watchdog cancelled it.     *)
Synthesize ==
    /\ wk.pc = "synth"
    /\ \E r \in SynthesisResults :
         Goto(IF r = "audio" THEN "check" ELSE IF Interrupted THEN "reject" ELSE "fallback")
    /\ UNCHANGED <<drv, cl, cancel, caller, net, prompt, heard>>

SynthesizeFallback ==
    /\ wk.pc = "fallback"
    /\ \E r \in SynthesisResults :
         wk' = [wk EXCEPT !.pc = IF r = "audio" THEN "check" ELSE "reject",
                          !.fallback = r = "audio"]
    /\ UNCHANGED <<drv, cl, cancel, caller, net, prompt, heard>>

(* Every way out that clears the request first.                            *)
RejectSegment ==
    /\ wk.pc = "reject"
    /\ cl' = ClearActiveRequest(cl)
    /\ Leave
    /\ UNCHANGED <<drv, cancel, caller, net, prompt, heard>>

CheckInterrupt ==
    /\ wk.pc = "check"
    /\ IF Interrupted THEN Goto("reject") /\ UNCHANGED heard
       ELSE \E i \in TtsIds :
              /\ heard.gen[i] = 0 /\ \A j \in TtsIds : j < i => heard.gen[j] # 0
              /\ wk' = [wk EXCEPT !.pc = "register", !.pb = i]
              /\ heard' = [heard EXCEPT !.gen[i] = wk.gen + 1]
    /\ UNCHANGED <<drv, cl, cancel, caller, net, prompt>>

(* Mutant: the generation is not looked at again under the mutex.          *)
RegisterUnchecked ==
    /\ wk.pc = "register"
    /\ Goto("submit")
    /\ cl' = [cl EXCEPT !.pb = wk.pb, !.attempts = 0, !.flight = FALSE,
                        !.confirmed = FALSE]
    /\ UNCHANGED <<drv, cancel, caller, net, prompt, heard>>

RegisterPlayback ==
    /\ wk.pc = "register"
    /\ IF cl.stopping \/ Interrupted
       THEN Leave /\ cl' = [cl EXCEPT !.req = 0]
       ELSE /\ Goto("submit")
            /\ cl' = [cl EXCEPT !.pb = wk.pb, !.attempts = 0, !.flight = FALSE,
                                !.confirmed = FALSE]
    /\ UNCHANGED <<drv, cancel, caller, net, prompt, heard>>

SendPlay ==
    /\ wk.pc = "submit"
    /\ net' = [net EXCEPT ![wk.pb] = "sent"]
    /\ Goto("reply")
    /\ UNCHANGED <<drv, cl, cancel, caller, prompt, heard>>

(* PlayPcm at the driver, as late as it likes.                             *)
HandlePlay(i) ==
    /\ net[i] = "sent"
    /\ drv' = IF DriverAccepts(i) THEN DriverSubmit(i) ELSE drv
    /\ net' = [net EXCEPT ![i] = IF DriverAccepts(i) THEN "accepted" ELSE "rejected"]
    /\ UNCHANGED <<cl, wk, cancel, caller, prompt, heard>>

PlayReply ==
    /\ wk.pc = "reply"
    /\ \/ /\ net[wk.pb] = "accepted" /\ Goto("after")
          /\ net' = [net EXCEPT ![wk.pb] = "read"]
       \/ /\ net[wk.pb] = "rejected" /\ Goto("reject")
          /\ net' = [net EXCEPT ![wk.pb] = "read"]
       \/ Faulty /\ Goto("reject") /\ UNCHANGED net  \* the deadline, or a broken call
    /\ UNCHANGED <<drv, cl, cancel, caller, prompt, heard>>

(* An interrupt that came during the submission is seen here at the latest.*)
AfterSubmit ==
    /\ wk.pc = "after"
    /\ IF cl.stopping \/ Interrupted
       THEN /\ wk' = [wk EXCEPT !.pc = "early", !.early = TRUE]
            /\ cancel' = [cancel EXCEPT !["worker"] =
                            [IdleCancel EXCEPT !.pc = "check", !.id = wk.pb, !.whole = TRUE]]
       ELSE Goto("wait") /\ UNCHANGED cancel
    /\ UNCHANGED <<drv, cl, caller, net, prompt, heard>>

EarlyCancelOver ==
    /\ wk.pc = "early" /\ cancel["worker"].pc = "over"
    /\ Goto("wait")
    /\ cancel' = [cancel EXCEPT !["worker"] = IdleCancel]
    /\ UNCHANGED <<drv, cl, caller, net, prompt, heard>>

(* Mutant: a playback whose end is not known is not cancelled.             *)
WaitGivesUp ==
    /\ wk.pc = "wait"
    /\ \/ /\ WaitAnswer(wk.pb) # "timeout"
          /\ wk' = [wk EXCEPT !.pc = "clear", !.got = WaitAnswer(wk.pb)]
       \/ /\ Faulty \/ (WaitAnswer(wk.pb) = "timeout" /\ ~wk.early)
          /\ wk' = [wk EXCEPT !.pc = "clear", !.unsure = TRUE]
    /\ UNCHANGED <<drv, cl, cancel, caller, net, prompt, heard>>

(* WaitPlayback.  Its timeout is the length of the audio and five seconds, *)
(* or one second after an early cancellation.                              *)
WaitPlayback ==
    /\ wk.pc = "wait"
    /\ \/ /\ WaitAnswer(wk.pb) # "timeout"
          /\ wk' = [wk EXCEPT !.pc = "clear", !.got = WaitAnswer(wk.pb)]
          /\ UNCHANGED cancel
       \/ /\ Faulty \/ (WaitAnswer(wk.pb) = "timeout" /\ ~wk.early)
          /\ wk' = [wk EXCEPT !.pc = "confirm", !.unsure = TRUE]
          /\ cancel' = [cancel EXCEPT !["worker"] =
                          [IdleCancel EXCEPT !.pc = "check", !.id = wk.pb, !.whole = TRUE]]
    /\ UNCHANGED <<drv, cl, caller, net, prompt, heard>>

ConfirmCancelOver ==
    /\ wk.pc = "confirm" /\ cancel["worker"].pc = "over"
    /\ Goto("again")
    /\ cancel' = [cancel EXCEPT !["worker"] = IdleCancel]
    /\ UNCHANGED <<drv, cl, caller, net, prompt, heard>>

(* The second wait.  A player that was told to stop does so within the     *)
(* second: it looks at the flag between two periods of 20 ms.              *)
WaitAgain ==
    /\ wk.pc = "again"
    /\ \/ /\ WaitAnswer(wk.pb) # "timeout"
          /\ wk' = [wk EXCEPT !.pc = "clear", !.got = WaitAnswer(wk.pb)]
       \/ /\ Faulty
          /\ wk' = [wk EXCEPT !.pc = "clear", !.got = "timeout"]
    /\ UNCHANGED <<drv, cl, cancel, caller, net, prompt, heard>>

ClearPlayback ==
    /\ wk.pc = "clear"
    /\ cl' = ClearActiveRequest(cl)
    /\ Goto("result")
    /\ UNCHANGED <<drv, cancel, caller, net, prompt, heard>>

(* What the segment is reported as.                                        *)
SegmentResult ==
    IF Interrupted THEN "cancelled"
    ELSE IF wk.unsure \/ wk.got \notin EndStates THEN "failed"
    ELSE wk.got

(* The loop of SubmitCancellable: the next segment, or the completion.     *)
SegmentDone ==
    /\ wk.pc = "result"
    /\ wk' = IF SegmentResult = "completed" /\ ~wk.fallback /\ wk.left > 1
             THEN [wk EXCEPT !.pc = "segment", !.left = @ - 1]
             ELSE Left
    /\ UNCHANGED <<drv, cl, cancel, caller, net, prompt, heard>>

-----------------------------------------------------------------------------
(* RequestPlaybackCancellation in thread t.                                *)
Overtaken(t) ==
    cl.pb # cancel[t].id \/ (cancel[t].whole /\ cl.req # wk.req)

CancelReturns(t, answer) ==
    cancel' = [cancel EXCEPT ![t].pc = "over", ![t].ok = answer]

(* Mutant: whoever comes sends a call of its own.                          *)
CancelCheckAlone(t) ==
    /\ cancel[t].pc = "check"
    /\ \/ /\ Overtaken(t) /\ CancelReturns(t, FALSE) /\ UNCHANGED <<cl, heard>>
       \/ /\ ~Overtaken(t) /\ cl.confirmed
          /\ CancelReturns(t, TRUE) /\ UNCHANGED <<cl, heard>>
       \/ /\ ~Overtaken(t) /\ ~cl.confirmed
          /\ cl' = [cl EXCEPT !.flight = TRUE, !.attempts = @ + 1]
          /\ cancel' = [cancel EXCEPT ![t].pc = "rpc", ![t].own = TRUE]
          /\ heard' = [heard EXCEPT !.calls[cancel[t].id] = @ + 1]
    /\ UNCHANGED <<drv, wk, caller, net, prompt>>

(* Under the mutex.  A thread that finds a call in flight waits for        *)
(* cancellation_changed_: its check is then not enabled.                   *)
CancelCheck(t) ==
    /\ cancel[t].pc = "check"
    /\ \/ /\ Overtaken(t) /\ CancelReturns(t, FALSE) /\ UNCHANGED <<cl, heard>>
       \/ /\ ~Overtaken(t) /\ cl.confirmed
          /\ CancelReturns(t, TRUE) /\ UNCHANGED <<cl, heard>>
       \/ /\ ~Overtaken(t) /\ ~cl.confirmed /\ (cl.flight => cancel[t].own)
          /\ IF cl.attempts >= MaxAttempts
             THEN CancelReturns(t, FALSE) /\ UNCHANGED <<cl, heard>>
             ELSE /\ cl' = [cl EXCEPT !.flight = TRUE, !.attempts = @ + 1]
                  /\ cancel' = [cancel EXCEPT ![t].pc = "rpc", ![t].own = TRUE]
                  /\ heard' = [heard EXCEPT !.calls[cancel[t].id] = @ + 1]
    /\ UNCHANGED <<drv, wk, caller, net, prompt>>

(* CancelPlayback at the driver; a failed call may have had its effect.    *)
CancelCall(t) ==
    /\ cancel[t].pc = "rpc"
    /\ \/ /\ drv' = CancelEffect(cancel[t].id)
          /\ \E heeded \in {CancelAccepted(cancel[t].id)} \cup
                            (IF Faulty THEN {FALSE} ELSE {}) :
               cancel' = [cancel EXCEPT ![t].pc = "answer", ![t].ok = heeded]
       \/ /\ Faulty /\ UNCHANGED drv
          /\ cancel' = [cancel EXCEPT ![t].pc = "answer", ![t].ok = FALSE]
    /\ UNCHANGED <<cl, wk, caller, net, prompt, heard>>

(* Mutant: a caller that gives up leaves its call marked as in flight.     *)
CancelAnswerKeepsFlight(t) ==
    /\ cancel[t].pc = "answer"
    /\ \/ /\ Overtaken(t) /\ CancelReturns(t, FALSE) /\ UNCHANGED cl
       \/ /\ ~Overtaken(t) /\ cancel[t].ok /\ CancelReturns(t, TRUE)
          /\ cl' = [cl EXCEPT !.confirmed = TRUE, !.flight = FALSE]
       \/ /\ ~Overtaken(t) /\ ~cancel[t].ok
          /\ IF cl.attempts >= MaxAttempts
             THEN CancelReturns(t, FALSE) /\ UNCHANGED cl
             ELSE cancel' = [cancel EXCEPT ![t].pc = "check"] /\ UNCHANGED cl
    /\ UNCHANGED <<drv, wk, caller, net, prompt, heard>>

(* The answer, under the mutex again.                                      *)
CancelAnswer(t) ==
    /\ cancel[t].pc = "answer"
    /\ \/ /\ Overtaken(t) /\ CancelReturns(t, FALSE) /\ UNCHANGED cl
       \/ /\ ~Overtaken(t) /\ cancel[t].ok /\ CancelReturns(t, TRUE)
          /\ cl' = [cl EXCEPT !.confirmed = TRUE, !.flight = FALSE]
       \/ /\ ~Overtaken(t) /\ ~cancel[t].ok
          /\ IF cl.attempts >= MaxAttempts
             THEN CancelReturns(t, FALSE) /\ cl' = [cl EXCEPT !.flight = FALSE]
             ELSE cancel' = [cancel EXCEPT ![t].pc = "check"] /\ UNCHANGED cl
    /\ UNCHANGED <<drv, wk, caller, net, prompt, heard>>

-----------------------------------------------------------------------------
(* Interrupt and Stop, each on a thread of its own; the sink sets the      *)
(* active output's token before it calls either.                           *)
CallBegins(t) ==
    /\ caller[t].pc \in {"idle", "over"} /\ caller["stop"].pc = "idle"
    /\ Use(t) /\ (t = "interrupt" => caller[t].count < MaxInterrupts)
    /\ cl' = [cl EXCEPT !.token = @ \/ wk.pc # "idle"]
    /\ caller' = [caller EXCEPT
                    ![t].pc = IF t = "stop" THEN "flag" ELSE "gen", ![t].count = @ + 1]
    /\ UNCHANGED <<drv, wk, cancel, net, prompt, heard>>

StopFlag ==
    /\ caller["stop"].pc = "flag"
    /\ cl' = [cl EXCEPT !.stopping = TRUE]
    /\ caller' = [caller EXCEPT !["stop"].pc = "gen"]
    /\ UNCHANGED <<drv, wk, cancel, net, prompt, heard>>

RaiseGeneration(t) ==
    /\ caller[t].pc = "gen"
    /\ cl' = [cl EXCEPT !.gen = @ + 1]
    /\ caller' = [caller EXCEPT ![t].pc = "read", ![t].gen = cl.gen + 1]
    /\ UNCHANGED <<drv, wk, cancel, net, prompt, heard>>

ReadActive(t) ==
    /\ caller[t].pc = "read"
    /\ caller' = [caller EXCEPT ![t].pc = "cancel"]
    /\ cancel' = [cancel EXCEPT ![t] =
                    [IdleCancel EXCEPT !.pc = IF cl.pb = 0 THEN "over" ELSE "check",
                                       !.id = cl.pb]]
    /\ UNCHANGED <<drv, cl, wk, net, prompt, heard>>

CallReturns(t) ==
    /\ caller[t].pc = "cancel" /\ cancel[t].pc = "over"
    /\ caller' = [caller EXCEPT ![t].pc = "over", ![t].gen = 0]
    /\ cancel' = [cancel EXCEPT ![t] = IdleCancel]
    /\ heard' = [heard EXCEPT !.over = IF caller[t].gen > @ THEN caller[t].gen ELSE @]
    /\ UNCHANGED <<drv, cl, wk, net, prompt>>

-----------------------------------------------------------------------------
(* FixedPcmWakePromptPlayer, the driver's other client.                    *)
PromptPlay ==
    /\ prompt.pc = "idle" /\ ~prompt.stopping /\ Use("prompt")
    /\ \E i \in PromptIds :
         /\ net[i] = "none" /\ \A j \in PromptIds : j < i => net[j] # "none"
         /\ prompt' = [prompt EXCEPT !.pc = "reply", !.id = i]
         /\ net' = [net EXCEPT ![i] = "sent"]
    /\ UNCHANGED <<drv, cl, wk, cancel, caller, heard>>

PromptReply ==
    /\ prompt.pc = "reply"
    /\ \/ /\ net[prompt.id] = "accepted"
          /\ prompt' = [prompt EXCEPT !.pc = "wait"]
          /\ drv' = IF prompt.stopping THEN CancelEffect(prompt.id) ELSE drv
       \/ /\ net[prompt.id] = "rejected" \/ Faulty
          /\ prompt' = [prompt EXCEPT !.pc = "idle", !.id = 0]
          /\ UNCHANGED drv
    /\ UNCHANGED <<cl, wk, cancel, caller, net, heard>>

(* Completed, or anything else including its timeout: then it cancels.     *)
PromptWait ==
    /\ prompt.pc = "wait"
    /\ prompt' = [prompt EXCEPT !.pc = "idle", !.id = 0]
    /\ drv' \in IF WaitAnswer(prompt.id) = "completed" THEN {drv}
               ELSE {CancelEffect(prompt.id)} \cup (IF Faulty THEN {drv} ELSE {})
    /\ UNCHANGED <<cl, wk, cancel, caller, net, heard>>

PromptStop ==
    /\ ~prompt.stopping /\ Use("prompt")
    /\ prompt' = [prompt EXCEPT !.stopping = TRUE]
    /\ drv' = IF prompt.id # 0 THEN CancelEffect(prompt.id) ELSE drv
    /\ UNCHANGED <<cl, wk, cancel, caller, net, heard>>

-----------------------------------------------------------------------------
DriverStep ==
    /\ (Use("driver") /\ DriverStop) \/ DriverJoin \/ PlayNext \/ PlayEnds \/ WorkerExits
    /\ UNCHANGED <<cl, wk, cancel, caller, net, prompt, heard>>

WorkerStep ==
    \/ FocusStatus \/ FocusPause \/ ReleaseFocus
    \/ LoadGeneration \/ EnterSegment \/ Synthesize \/ SynthesizeFallback
    \/ RejectSegment \/ CheckInterrupt \/ RegisterPlayback \/ SendPlay
    \/ PlayReply \/ AfterSubmit \/ EarlyCancelOver \/ WaitPlayback
    \/ ConfirmCancelOver \/ WaitAgain \/ ClearPlayback \/ SegmentDone

CancelStep(t) == CancelCheck(t) \/ CancelCall(t) \/ CancelAnswer(t)

CallStep(t) == RaiseGeneration(t) \/ ReadActive(t) \/ CallReturns(t)

PromptStep == PromptReply \/ PromptWait

PlaybackNext ==
    \/ DriverStep \/ WorkerStep \/ TakeResponse \/ StopFlag
    \/ \E t \in Cancellers : CancelStep(t)
    \/ \E t \in {"interrupt", "stop"} : CallBegins(t) \/ CallStep(t)
    \/ \E i \in Playbacks : HandlePlay(i)
    \/ PromptPlay \/ PromptStep \/ PromptStop

(* Threads run, the driver handles calls and the player returns.           *)
PlaybackFairness ==
    /\ WF_playbackVars(WorkerStep) /\ WF_playbackVars(StopFlag)
    /\ \A t \in Cancellers : WF_playbackVars(CancelStep(t))
    /\ \A t \in {"interrupt", "stop"} : WF_playbackVars(CallStep(t))
    /\ \A i \in Playbacks : WF_playbackVars(HandlePlay(i))
    /\ WF_playbackVars(DriverStep /\ drv.worker = "busy" /\ drv'.stop = drv.stop)

-----------------------------------------------------------------------------
(* "A second caller can observe the outcome, but cannot turn concurrency   *)
(* into an extra Cancel RPC" (RequestPlaybackCancellation): whatever Stop, *)
(* Interrupt and the worker do, and whatever calls fail, at most two calls *)
(* are made for a playback, one after the other.                           *)
CancelIsSingleFlight ==
    /\ \A i \in Playbacks : heard.calls[i] <= MaxAttempts
    /\ \A t, u \in Cancellers :
         /\ cancel[t].pc \in {"rpc", "answer"} /\ cancel[u].pc \in {"rpc", "answer"}
         /\ cancel[t].id = cancel[u].id
         => t = u

(* Once Interrupt (or Stop) has returned, nothing of a response that was   *)
(* begun before it is heard, unless calls fail: either the worker sees the *)
(* new generation or Interrupt sees the playback id, and a cancellation    *)
(* that overtakes PlayPcm leaves a tombstone.                              *)
InterruptSilences ==
    ~Faulty =>
        \A i \in Playbacks \ PromptIds :
            i = drv.active /\ ~drv.cancelled => heard.gen[i] > heard.over

(* While a response is heard its media focus is held: ReleaseTts comes     *)
(* after a terminal result, unless calls fail.                             *)
FocusCoversSpeech ==
    ~Faulty => (drv.active \in Playbacks \ PromptIds => cl.focus)

(* SubmitCancellable returns, and so do Interrupt and Stop, although three *)
(* threads wait for one another on cancellation_changed_.                  *)
PlaybackCallsReturn ==
    /\ wk.pc # "idle" ~> wk.pc = "idle"
    /\ caller["stop"].pc # "idle" ~> caller["stop"].pc = "over"
=============================================================================
