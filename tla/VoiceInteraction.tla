-------------------------- MODULE VoiceInteraction --------------------------
(***************************************************************************)
(* cockpit/voice/interaction/voice_interaction_service.cc with the wake    *)
(* gate of cockpit/voice/runtime/voice_input_gate.cc and the response sink *)
(* it speaks through.  Every thread that enters the service is modelled:   *)
(*   worker  ProcessLoop, on the transcript queue                          *)
(*   rpc     a gRPC handler in HandleTranscript                            *)
(*   intr    a gRPC handler in Interrupt                                   *)
(*   sink    the sink's worker, which plays and runs HandleOutputResult    *)
(*   gate    the audio thread that hears the wake word                     *)
(*   prompt  the wake prompt thread                                        *)
(*   stop    AgentRuntime::Stop                                            *)
(* An action is what a thread does between two points where another one    *)
(* can be seen: a state_machine_.Handle, a locked section, an atomic.      *)
(***************************************************************************)
EXTENDS Conversation, VoiceResponseSink

CONSTANTS
    MaxRequests,    \* bound: transcripts submitted
    MaxInterrupts,  \* bound: calls of Interrupt
    Uses            \* which of "rpc", "wake", "stop" the environment uses

ASSUME VoiceAssumption ==
    /\ MaxRequests \in Nat /\ MaxInterrupts \in Nat
    /\ MaxRequests <= MaxId      \* a request publishes one response at most
    /\ Uses \subseteq {"rpc", "wake", "stop"}

VARIABLES
    st,         \* state_machine_
    gen,        \* interrupt_generation_
    out,        \* active_output_request_id_, _generation_, _recovery_
    follow,     \* follow_up_deadline_ is set
    queue,      \* transcripts in transcript_events_
    act,        \* the action call: active, and its cancellation
    lock,       \* holder of processing_mutex_
    ids,        \* response_version_ and transcripts submitted so far
    pc, loc

vars == <<st, gen, out, follow, queue, act, lock, ids, pc, loc, sink>>

Callers == {"worker", "rpc"}
Threads == Callers \cup {"intr", "sink", "gate", "prompt", "stop"}

NoOut == [id |-> 0, gen |-> 0, rec |-> FALSE]
NoLoc == [gen |-> 0,            \* request_generation
          out |-> NoOutput,     \* the output being submitted or completed
          what |-> "none",      \* a provider's or a playback's result
          prompt |-> FALSE,     \* RecoverFromError's play_prompt, and recovery
          todo |-> << >>,       \* CancelPending's pending
          ret |-> "idle"]       \* where the tail call returns to

TypeOK ==
    /\ SinkTypeOK
    /\ st \in InteractionState
    /\ gen \in 0 .. MaxInterrupts + 1
    /\ out \in [id : 0 .. MaxId, gen : 0 .. MaxInterrupts + 1, rec : BOOLEAN]
    /\ follow \in BOOLEAN
    /\ queue \in 0 .. MaxRequests
    /\ act \in [active : BOOLEAN, cancel : BOOLEAN]
    /\ lock \in Callers \cup {"none"}
    /\ ids \in [resp : 0 .. MaxId, reqs : 0 .. MaxRequests]
    /\ DOMAIN pc = Threads /\ DOMAIN loc = Threads

Init ==
    /\ SinkInit
    /\ st = "idle" /\ gen = 0 /\ out = NoOut /\ follow = FALSE /\ queue = 0
    /\ act = [active |-> FALSE, cancel |-> FALSE]
    /\ lock = "none"
    /\ ids = [resp |-> 0, reqs |-> 0]
    /\ pc = [t \in Threads |-> "idle"]
    /\ loc = [t \in Threads |-> NoLoc]

-----------------------------------------------------------------------------
At(t, l) == pc[t] = l
Goto(t, l) == pc' = [pc EXCEPT ![t] = l]
Return(t) == Goto(t, loc[t].ret)
Current(t) == loc[t].gen = gen
SameLoc == UNCHANGED loc

Stopping == pc["stop"] # "idle"                         \* the gate's stopping_
Running == pc["stop"] \in {"idle", "t_join_gate"}       \* worker_running_

Service == <<gen, out, follow, queue, act, lock, ids>>

(* One Handle call: go to yes when the event is accepted, else to no.      *)
Event(t, e, yes, no) ==
    /\ st' = Handle(st, e)
    /\ Goto(t, IF Accepts(st, e) THEN yes ELSE no)
    /\ UNCHANGED <<Service, sink, loc>>

-----------------------------------------------------------------------------
(* ReturnToIdle: the event depends on a state read before it is sent.      *)

(* Mutant: it waits for idle, which a stopping service never reaches.      *)
ReturnSnapshotWaits(t) ==
    /\ At(t, "b_snap") /\ st # "shutting_down"
    /\ Goto(t, CASE st \in {"cancelled", "error_recovery"} -> "b_recovered"
                 [] st = "idle" -> loc[t].ret
                 [] OTHER -> "b_completed")
    /\ UNCHANGED <<st, Service, sink, loc>>

ReturnSnapshot(t) ==
    /\ At(t, "b_snap")
    /\ Goto(t, CASE st \in {"cancelled", "error_recovery"} -> "b_recovered"
                 [] st \in {"idle", "shutting_down"} -> loc[t].ret
                 [] OTHER -> "b_completed")
    /\ UNCHANGED <<st, Service, sink, loc>>

ReturnHandle(t) ==
    \/ At(t, "b_recovered") /\ Event(t, "RecoveryCompleted", loc[t].ret, loc[t].ret)
    \/ At(t, "b_completed") /\ Event(t, "RequestCompleted", loc[t].ret, loc[t].ret)

(* RecoverFromError.                                                       *)

RecoverBegin(t) ==
    /\ At(t, "e_begin")
    /\ \/ st \in {"shutting_down", "cancelled"} /\ Return(t) /\ UNCHANGED queue
       \/ st \notin {"shutting_down", "cancelled"} /\ Goto(t, "e_fail") /\ queue' = 0
    /\ UNCHANGED <<st, gen, out, follow, act, lock, ids, sink, loc>>

RecoverFailure(t) == At(t, "e_fail") /\ Event(t, "Failure", "e_prompt", loc[t].ret)

(* PublishResponse hands out the next id.                                  *)
Publish(t) ==
    /\ ids' = [ids EXCEPT !.resp = @ + 1]
    /\ loc' = [loc EXCEPT ![t].out = [id |-> ids.resp + 1, gen |-> loc[t].gen]]

RecoverPrompt(t) ==
    /\ At(t, "e_prompt")
    /\ \/ /\ loc[t].prompt /\ Current(t)
          /\ Publish(t) /\ Goto(t, "v_own")
       \/ /\ ~(loc[t].prompt /\ Current(t))
          /\ Goto(t, "b_snap") /\ UNCHANGED <<ids, loc>>
    /\ UNCHANGED <<st, gen, out, follow, queue, act, lock, sink>>

(* SubmitOutput, from where the output becomes the active one.             *)

SubmitOwn(t) ==
    /\ At(t, "v_own")
    /\ out' = [id |-> loc[t].out.id, gen |-> loc[t].gen, rec |-> loc[t].prompt]
    /\ follow' = FALSE
    /\ Goto(t, "v_put")
    /\ UNCHANGED <<st, gen, queue, act, lock, ids, sink, loc>>

SubmitPut(t) ==
    /\ At(t, "v_put")
    /\ \/ SinkAccepts /\ SinkSubmit(loc[t].out) /\ Return(t)
       \/ ~SinkAccepts /\ Goto(t, "v_rejected") /\ UNCHANGED sink
    /\ UNCHANGED <<st, Service, loc>>

SubmitRejected(t) ==
    /\ At(t, "v_rejected")
    /\ out' = IF out.id = loc[t].out.id THEN NoOut ELSE out
    /\ Goto(t, IF loc[t].prompt THEN "b_snap" ELSE "e_begin")
    /\ UNCHANGED <<st, gen, follow, queue, act, lock, ids, sink, loc>>

-----------------------------------------------------------------------------
(* HandleTranscript.                                                       *)

(* The speech pipeline submits a transcript (the queue holds 32 of them).  *)
SubmitTranscript ==
    /\ Running /\ ids.reqs < MaxRequests
    /\ queue' = queue + 1
    /\ ids' = [ids EXCEPT !.reqs = @ + 1]
    /\ UNCHANGED <<st, gen, out, follow, act, lock, pc, loc, sink>>

(* ProcessLoop pops one; a gRPC client brings its own.                     *)
TakeTranscript(c) ==
    /\ At(c, "idle")
    /\ \/ /\ c = "worker" /\ Running /\ queue > 0
          /\ queue' = queue - 1 /\ UNCHANGED ids
       \/ /\ c = "rpc" /\ "rpc" \in Uses /\ ids.reqs < MaxRequests
          /\ ids' = [ids EXCEPT !.reqs = @ + 1] /\ UNCHANGED queue
    /\ Goto(c, "h_gen")
    /\ UNCHANGED <<st, gen, out, follow, act, lock, loc, sink>>

ReadGeneration(c) ==
    /\ At(c, "h_gen")
    /\ loc' = [loc EXCEPT ![c] = [NoLoc EXCEPT !.gen = gen, !.ret = "h_done"]]
    /\ Goto(c, "h_lock")
    /\ UNCHANGED <<st, Service, sink>>

LockProcessing(c) ==
    /\ At(c, "h_lock") /\ lock = "none"
    /\ lock' = c
    /\ Goto(c, IF Current(c) THEN "h_begin" ELSE "h_done")
    /\ UNCHANGED <<st, gen, out, follow, queue, act, ids, sink, loc>>

(* BeginRequest.                                                           *)
BeginRequest(c) ==
    \/ /\ At(c, "h_begin")
       /\ Goto(c, IF st \in {"idle", "listening", "follow_up"} THEN "h_segment"
                                                               ELSE "h_done")
       /\ follow' = (follow /\ st # "follow_up")
       /\ UNCHANGED <<st, gen, out, queue, act, lock, ids, sink, loc>>
    \/ At(c, "h_segment") /\ Event(c, "SpeechSegmentReady", "h_assist", "h_done")

(* The assistant answers, or fails or is cancelled by its watchdog.        *)
AssistantAnswers(c) ==
    /\ At(c, "h_assist")
    /\ \E w \in {"action", "open", "unknown", "failed"} :
         loc' = [loc EXCEPT ![c].what = w]
    /\ Goto(c, "h_answered")
    /\ UNCHANGED <<st, Service, sink>>

(* Mutant: the result is used whatever happened during the call.           *)
AssistantCheckDropped(c) ==
    /\ At(c, "h_answered")
    /\ \/ /\ loc[c].what = "failed" /\ Goto(c, "e_begin")
          /\ loc' = [loc EXCEPT ![c].prompt = TRUE]
       \/ loc[c].what # "failed" /\ Goto(c, "h_routing") /\ SameLoc
    /\ UNCHANGED <<st, Service, sink>>

AssistantCheck(c) ==
    /\ At(c, "h_answered")
    /\ \/ ~Current(c) /\ Goto(c, "h_done") /\ SameLoc
       \/ /\ Current(c) /\ loc[c].what = "failed" /\ Goto(c, "e_begin")
          /\ loc' = [loc EXCEPT ![c].prompt = TRUE]
       \/ Current(c) /\ loc[c].what # "failed" /\ Goto(c, "h_routing") /\ SameLoc
    /\ UNCHANGED <<st, Service, sink>>

Route(c) ==
    /\ At(c, "h_routing")
    /\ Event(c, "TranscriptReady",
             CASE loc[c].what = "action" -> "h_action"
               [] loc[c].what = "unknown" -> "h_llm"
               [] OTHER -> "h_open", "h_done")

(* The local model has answered.                                           *)
LlmCheck(c) ==
    /\ At(c, "h_llm")
    /\ Goto(c, IF Current(c) THEN "h_open" ELSE "h_done")
    /\ UNCHANGED <<st, Service, sink, loc>>

OpenRequest(c) == At(c, "h_open") /\ Event(c, "OpenRequestSelected", "h_respond", "e_begin")

(* BeginActionCall, then the transition, then the dispatcher.              *)
BeginAction(c) ==
    /\ At(c, "h_action")
    /\ act' = [active |-> TRUE, cancel |-> FALSE]
    /\ Goto(c, "h_select")
    /\ UNCHANGED <<st, gen, out, follow, queue, lock, ids, sink, loc>>

SelectAction(c) == At(c, "h_select") /\ Event(c, "ActionSelected", "h_dispatch", "h_unselect")

UnselectAction(c) ==
    /\ At(c, "h_unselect")
    /\ act' = [act EXCEPT !.active = FALSE]
    /\ Goto(c, "e_begin")
    /\ UNCHANGED <<st, gen, out, follow, queue, lock, ids, sink, loc>>

(* The provider sends its RPC unless the request is cancelled by then.     *)
SendAction(c) ==
    /\ At(c, "h_dispatch") /\ ~act.cancel
    /\ \E w \in {"sent", "failed"} : loc' = [loc EXCEPT ![c].what = w]
    /\ Goto(c, "h_acted")
    /\ UNCHANGED <<st, Service, sink>>

RefuseAction(c) ==
    /\ At(c, "h_dispatch") /\ act.cancel
    /\ loc' = [loc EXCEPT ![c].what = "failed"]
    /\ Goto(c, "h_acted")
    /\ UNCHANGED <<st, Service, sink>>

(* EndActionCall, the generation check and the result.                     *)
EndAction(c) ==
    /\ At(c, "h_acted")
    /\ act' = [act EXCEPT !.active = FALSE]
    /\ Goto(c, "h_result")
    /\ UNCHANGED <<st, gen, out, follow, queue, lock, ids, sink, loc>>

ActionResult(c) ==
    /\ At(c, "h_result")
    /\ \/ ~Current(c) /\ Goto(c, "h_done") /\ SameLoc
       \/ /\ Current(c) /\ loc[c].what = "failed" /\ Goto(c, "e_begin")
          /\ loc' = [loc EXCEPT ![c].prompt = TRUE]
       \/ Current(c) /\ loc[c].what = "sent" /\ Goto(c, "h_respond") /\ SameLoc
    /\ UNCHANGED <<st, Service, sink>>

(* PublishResponse and SubmitOutput; an empty text is not played.          *)
Respond(c) ==
    \/ /\ At(c, "h_respond")
       /\ Publish(c)
       /\ Goto(c, "h_speak") \/ Goto(c, "b_snap")
       /\ UNCHANGED <<st, gen, out, follow, queue, act, lock, sink>>
    \/ At(c, "h_speak") /\ Event(c, "ResponseReady", "v_own", "e_begin")

UnlockProcessing(c) ==
    /\ At(c, "h_done")
    /\ lock' = "none"
    /\ Goto(c, "idle")
    /\ loc' = [loc EXCEPT ![c] = NoLoc]
    /\ UNCHANGED <<st, gen, out, follow, queue, act, ids, sink>>

HandleTranscript(c) ==
    \/ TakeTranscript(c) \/ ReadGeneration(c) \/ LockProcessing(c)
    \/ BeginRequest(c) \/ AssistantAnswers(c) \/ AssistantCheck(c) \/ Route(c)
    \/ LlmCheck(c) \/ OpenRequest(c) \/ BeginAction(c) \/ SelectAction(c)
    \/ UnselectAction(c) \/ SendAction(c) \/ RefuseAction(c) \/ EndAction(c)
    \/ ActionResult(c) \/ Respond(c) \/ UnlockProcessing(c)

(* ExpireFollowUpIfNeeded, between two transcripts: the deadline is taken  *)
(* under the lock, the generation compared after it, the event sent last.  *)
ExpireFollowUp ==
    \/ /\ At("worker", "idle") /\ Running /\ queue = 0 /\ follow
       /\ follow' = FALSE
       /\ loc' = [loc EXCEPT !["worker"].gen = gen]
       /\ Goto("worker", "f_check")
       /\ UNCHANGED <<st, gen, out, queue, act, lock, ids, sink>>
    \/ /\ At("worker", "f_check")
       /\ loc' = [loc EXCEPT !["worker"] = NoLoc]
       /\ Goto("worker", IF Current("worker") THEN "f_expire" ELSE "idle")
       /\ UNCHANGED <<st, Service, sink>>
    \/ At("worker", "f_expire") /\ Event("worker", "FollowUpExpired", "idle", "idle")

-----------------------------------------------------------------------------
(* The sink's worker, and HandleOutputResult on whichever thread completes *)
(* an output.                                                              *)

SinkPlays ==
    /\ At("sink", "idle")
    /\ SinkTake
    /\ Goto("sink", "s_play")
    /\ UNCHANGED <<st, Service, loc>>

(* The callback of output o, with its result, returns to label ret.        *)
Callback(t, o, result, ret) ==
    /\ sink' = Complete(o)
    /\ loc' = [loc EXCEPT ![t].out = o, ![t].gen = o.gen, ![t].what = result,
                          ![t].prompt = FALSE, ![t].ret = ret]
    /\ Goto(t, IF sink.done[o.id] = 0 THEN "o_result" ELSE ret)

(* Playback ended; a cancelled output is reported so whatever it returned. *)
SinkPlayed ==
    /\ At("sink", "s_play")
    /\ \E r \in {"completed", "failed", "cancelled"} :
         /\ sink.cancel => r = "cancelled"
         /\ Callback("sink", sink.active, r, "s_return")
    /\ UNCHANGED <<st, Service>>

(* An exception after the callback makes Run complete the output again.    *)
SinkReturns ==
    /\ At("sink", "s_return")
    /\ \/ Callback("sink", sink.active, "failed", "s_clear")
       \/ Goto("sink", "s_clear") /\ UNCHANGED <<sink, loc>>
    /\ UNCHANGED <<st, Service>>

SinkClears ==
    /\ At("sink", "s_clear")
    /\ SinkClearActive
    /\ Goto("sink", "idle")
    /\ loc' = [loc EXCEPT !["sink"] = NoLoc]
    /\ UNCHANGED <<st, Service>>

(* Mutant: the result of a recovery prompt is treated like any other.      *)
OutputResultForgetsRecovery(t) ==
    LET l == loc[t] IN
    /\ At(t, "o_result")
    /\ \/ /\ out.id = l.out.id /\ out.gen = l.gen /\ Current(t)
          /\ out' = NoOut
          /\ Goto(t, CASE l.what = "completed" -> "o_completed"
                       [] l.what = "cancelled" -> "o_cancelled"
                       [] OTHER -> "e_begin")
       \/ /\ ~(out.id = l.out.id /\ out.gen = l.gen /\ Current(t))
          /\ Return(t) /\ UNCHANGED out
    /\ UNCHANGED <<st, gen, follow, queue, act, lock, ids, sink, loc>>

(* Only the active output of the current generation counts.                *)
OutputResult(t) ==
    LET l == loc[t]
        mine == out.id = l.out.id /\ out.gen = l.gen /\ Current(t)
    IN
    /\ At(t, "o_result")
    /\ \/ /\ mine
          /\ out' = NoOut
          /\ Goto(t, CASE out.rec -> "b_snap"
                       [] l.what = "completed" -> "o_completed"
                       [] l.what = "cancelled" -> "o_cancelled"
                       [] OTHER -> "e_begin")
       \/ ~mine /\ Return(t) /\ UNCHANGED out
    /\ UNCHANGED <<st, gen, follow, queue, act, lock, ids, sink, loc>>

OutputCompleted(t) ==
    \/ At(t, "o_completed") /\ Event(t, "PlaybackCompleted", "o_window", loc[t].ret)
    \/ /\ At(t, "o_window")
       /\ follow' = (follow \/ (Current(t) /\ st = "follow_up"))
       /\ Return(t)
       /\ UNCHANGED <<st, gen, out, queue, act, lock, ids, sink, loc>>

OutputCancelled(t) ==
    At(t, "o_cancelled") /\ Event(t, "CancelRequested", "b_snap", loc[t].ret)

HandleOutputResult(t) == OutputResult(t) \/ OutputCompleted(t) \/ OutputCancelled(t)

-----------------------------------------------------------------------------
(* Interrupt and Stop, which share most of their steps.                    *)

CallInterrupt ==
    /\ At("intr", "idle") /\ gen < MaxInterrupts
    /\ gen' = gen + 1
    /\ Goto("intr", "n_read")
    /\ UNCHANGED <<st, out, follow, queue, act, lock, ids, sink, loc>>

(* output_active.                                                          *)
InterruptRead ==
    /\ At("intr", "n_read")
    /\ loc' = [loc EXCEPT !["intr"] = [NoLoc EXCEPT
                    !.what = IF out.id # 0 THEN "active" ELSE "none"]]
    /\ Goto("intr", "n_invalidate")
    /\ UNCHANGED <<st, Service, sink>>

(* AgentRuntime::Stop: stop the gate and join its threads, then Stop.      *)
CallStop ==
    /\ At("stop", "idle") /\ "stop" \in Uses
    /\ Goto("stop", "t_join_gate")
    /\ UNCHANGED <<st, Service, sink, loc>>

StopState ==
    /\ At("stop", "t_join_gate") /\ At("gate", "idle") /\ At("prompt", "idle")
    /\ Event("stop", "ShutdownRequested", "t_gen", "t_gen")

StopGeneration ==
    /\ At("stop", "t_gen")
    /\ gen' = gen + 1
    /\ Goto("stop", "n_invalidate")
    /\ UNCHANGED <<st, out, follow, queue, act, lock, ids, sink, loc>>

(* InvalidateOutputLifecycle.                                              *)
InvalidateOutput(t) ==
    /\ At(t, "n_invalidate")
    /\ out' = NoOut /\ follow' = FALSE
    /\ Goto(t, "n_discard")
    /\ UNCHANGED <<st, gen, queue, act, lock, ids, sink, loc>>

DiscardPending(t) ==
    /\ At(t, "n_discard")
    /\ queue' = 0
    /\ Goto(t, IF t = "stop" THEN "n_action" ELSE "n_check")
    /\ UNCHANGED <<st, gen, out, follow, act, lock, ids, sink, loc>>

(* Interrupt does nothing more when it finds neither output nor activity.  *)
InterruptCheck ==
    /\ At("intr", "n_check")
    /\ Goto("intr", IF loc["intr"].what = "active" \/ IsActive(st) THEN "n_cancel"
                                                                    ELSE "idle")
    /\ UNCHANGED <<st, Service, sink, loc>>

CancelState(t) ==
    At(t, "n_cancel") /\ Event(t, "CancelRequested", "n_action", "n_action")

(* Mutant: the running action is not told.                                 *)
CancelActionCallDropped(t) ==
    /\ At(t, "n_action") /\ Goto(t, "n_sink")
    /\ UNCHANGED <<st, Service, sink, loc>>

(* CancelActionCall.                                                       *)
CancelActionCall(t) ==
    /\ At(t, "n_action")
    /\ act' = [act EXCEPT !.cancel = @ \/ act.active]
    /\ Goto(t, "n_sink")
    /\ UNCHANGED <<st, gen, out, follow, queue, lock, ids, sink, loc>>

(* output_->Interrupt() or Stop(): what is pending is completed here.      *)
CancelOutput(t) ==
    /\ At(t, "n_sink")
    /\ sink' = CancelPending(t = "stop")
    /\ loc' = [loc EXCEPT ![t].todo = IF sink.stop THEN << >> ELSE sink.queue]
    /\ Goto(t, "n_pending")
    /\ UNCHANGED <<st, Service>>

(* Mutant: the swapped out outputs are dropped.                            *)
CompletePendingDropped(t) ==
    /\ At(t, "n_pending")
    /\ Goto(t, IF t = "stop" THEN "t_join" ELSE "b_snap")
    /\ loc' = [loc EXCEPT ![t] = NoLoc]
    /\ UNCHANGED <<st, Service, sink>>

CompletePending(t) ==
    /\ At(t, "n_pending")
    /\ \/ /\ loc[t].todo # << >>
          /\ sink' = Complete(Head(loc[t].todo))
          /\ loc' = [loc EXCEPT ![t] = [NoLoc EXCEPT !.out = Head(loc[t].todo),
                        !.gen = Head(loc[t].todo).gen, !.what = "cancelled",
                        !.todo = Tail(loc[t].todo), !.ret = "n_pending"]]
          /\ Goto(t, "o_result")
       \/ /\ loc[t].todo = << >>
          /\ Goto(t, IF t = "stop" THEN "t_join" ELSE "b_snap")
          /\ loc' = [loc EXCEPT ![t] = NoLoc] /\ UNCHANGED sink
    /\ UNCHANGED <<st, Service>>

(* The sink's worker and the transcript worker are joined.                 *)
StopJoins ==
    /\ At("stop", "t_join") /\ At("sink", "idle") /\ At("worker", "idle")
    /\ Goto("stop", "stopped")
    /\ UNCHANGED <<st, Service, sink, loc>>

InterruptOrStop(t) ==
    \/ InvalidateOutput(t) \/ DiscardPending(t) \/ CancelState(t)
    \/ CancelActionCall(t) \/ CancelOutput(t) \/ CompletePending(t)

-----------------------------------------------------------------------------
(* The wake word gate.                                                     *)

(* ProcessFrame in KWS mode: the state says idle when the frame comes in.  *)
HearWakeWord ==
    /\ At("gate", "idle") /\ "wake" \in Uses /\ ~Stopping /\ st = "idle"
    /\ Goto("gate", "g_notify")
    /\ UNCHANGED <<st, Service, sink, loc>>

NotifyWakeWordDetected ==
    /\ At("gate", "g_notify")
    /\ Event("gate", "WakeWordDetected", "g_prompt", "idle")

(* StartWakePrompt: refused while the last prompt still plays or the gate  *)
(* stops; a finished thread is joined first.                               *)
StartWakePrompt ==
    /\ At("gate", "g_prompt")
    /\ \/ /\ ~Stopping /\ At("prompt", "idle")
          /\ pc' = [pc EXCEPT !["prompt"] = "p_play", !["gate"] = "idle"]
       \/ /\ Stopping \/ At("prompt", "p_play")
          /\ Goto("gate", "w_failed")
    /\ UNCHANGED <<st, Service, sink, loc>>

(* The prompt thread: played or not, then the done flag, then the check.   *)
PromptPlayed ==
    /\ At("prompt", "p_play")
    /\ \E r \in {"p_done", "p_failed"} : Goto("prompt", r)
    /\ UNCHANGED <<st, Service, sink, loc>>

(* Mutant: a prompt that could not be played is not reported.              *)
PromptNotifyQuiet ==
    /\ pc["prompt"] \in {"p_done", "p_failed"}
    /\ Goto("prompt", IF Stopping \/ At("prompt", "p_failed") THEN "idle" ELSE "p_notify")
    /\ UNCHANGED <<st, Service, sink, loc>>

PromptNotify ==
    /\ pc["prompt"] \in {"p_done", "p_failed"}
    /\ Goto("prompt", CASE Stopping -> "idle"
                        [] At("prompt", "p_failed") -> "w_failed"
                        [] OTHER -> "p_notify")
    /\ UNCHANGED <<st, Service, sink, loc>>

NotifyWakePromptCompleted ==
    At("prompt", "p_notify") /\ Event("prompt", "WakePromptCompleted", "idle", "idle")

NotifyWakePromptFailed(t) ==
    At(t, "w_failed") /\ Event(t, "Failure", "b_snap", "idle")

-----------------------------------------------------------------------------
(* RecoverFromError, SubmitOutput and ReturnToIdle on any thread.          *)
Shared(t) ==
    \/ ReturnSnapshot(t) \/ ReturnHandle(t)
    \/ RecoverBegin(t) \/ RecoverFailure(t) \/ RecoverPrompt(t)
    \/ SubmitOwn(t) \/ SubmitPut(t) \/ SubmitRejected(t)

Caller(c) == HandleTranscript(c) \/ Shared(c) \/ (c = "worker" /\ ExpireFollowUp)

Sink == SinkPlays \/ SinkPlayed \/ SinkReturns \/ SinkClears
          \/ HandleOutputResult("sink") \/ Shared("sink")

Interrupt == InterruptRead \/ InterruptCheck \/ InterruptOrStop("intr")
               \/ HandleOutputResult("intr") \/ Shared("intr")

Stop == StopState \/ StopGeneration \/ StopJoins
          \/ InterruptOrStop("stop") \/ HandleOutputResult("stop") \/ Shared("stop")

Gate == NotifyWakeWordDetected \/ StartWakePrompt
          \/ NotifyWakePromptFailed("gate") \/ Shared("gate")

Prompt == PromptPlayed \/ PromptNotify \/ NotifyWakePromptCompleted
            \/ NotifyWakePromptFailed("prompt") \/ Shared("prompt")

Environment == SubmitTranscript \/ CallInterrupt \/ CallStop \/ HearWakeWord

Next ==
    \/ \E c \in Callers : Caller(c)
    \/ Sink \/ Interrupt \/ Stop \/ Gate \/ Prompt \/ Environment

Spec == Init /\ [][Next]_vars

(* Every started thread is scheduled, every provider and playback call     *)
(* returns within its deadline, and the mutex is granted in the end.       *)
Fairness ==
    /\ WF_vars(Caller("worker")) /\ WF_vars(Sink) /\ WF_vars(Interrupt)
    /\ WF_vars(Stop) /\ WF_vars(Gate) /\ WF_vars(Prompt)
    /\ SF_vars(Caller("rpc") /\ ~At("rpc", "idle"))

FairSpec == Spec /\ Fairness

-----------------------------------------------------------------------------
(* Properties.                                                             *)

(* An action of a request that was interrupted or stopped is not sent once *)
(* Interrupt or Stop has passed its CancelActionCall: an action of an old  *)
(* generation goes out only while such a call is still on its way there.   *)
BeforeCancel == {"t_gen", "n_read", "n_invalidate", "n_discard", "n_check",
                 "n_cancel", "n_action"}
ActionStep(c) == At(c, "h_dispatch") /\ loc'[c].what = "sent"
InterruptedActionNotSent ==
    [][\A c \in Callers : ActionStep(c) /\ ~Current(c) =>
         \E t \in {"intr", "stop"} : pc[t] \in BeforeCancel]_vars

(* Submit's contract: every accepted output is reported in the end, also   *)
(* when Interrupt or Stop takes it out of the queue.                       *)
EveryOutputCompletes ==
    \A i \in 1 .. MaxId : i \in sink.accepted ~> sink.done[i] = 1

(* A request nobody interrupts ends: whatever fails, the conversation      *)
(* leaves the states in which no wake word and no speech is taken.         *)
Busy == st \in {"recognizing", "routing", "executing", "thinking", "speaking",
                "cancelled", "error_recovery"}
UninterruptedRequestEnds == (Busy /\ gen = 0) ~> (~Busy \/ gen > 0)

(* A wake word leads to listening or back to idle, never to a gate that    *)
(* stays closed waiting for a prompt.                                      *)
WakingEnds == st = "waking" ~> st # "waking"

(* Stop returns: it waits for no thread that waits for it.                 *)
StopReturns == pc["stop"] # "idle" ~> pc["stop"] = "stopped"

(* docs: failure, timeout and interruption all cancel, clear the queue,    *)
(* stop the response and recover.                                          *)
InterruptedRequestEnds == Busy ~> ~Busy
=============================================================================
