----------------------------- MODULE VoiceAgent -----------------------------
(***************************************************************************)
(* voice/runtime/agent_runtime.cc and voice/grpc: how the voice agent is   *)
(* put together, fails half way, and is taken apart again, and the RPCs    *)
(* that hand out its responses.  The parts call each other from threads of *)
(* their own; a part may only be destroyed when no thread is inside it.    *)
(* What the parts do is VoiceInteraction, SpeechInput, PlaybackClient, Llm *)
(* and EventPublisher.                                                     *)
(***************************************************************************)
EXTENDS Naturals, Sequences, Scene

CONSTANTS
    KeepResponses,    \* responses in the history (32)
    MaxResponses,     \* bound: responses published
    MaxAgentStarts    \* bound: calls of Start

ASSUME AgentAssumption == KeepResponses \in Nat \ {0}

(* agent: place of Start or Stop; next step of Start; parts that exist;      *)
(*        threads, those that were told to end, those inside a call;         *)
(*        impl: whether impl_ points to the parts; fed: frames have flowed.  *)
(* resp:  the history's ids, and one subscriber: its place, the id it saw    *)
(*        last, the ids it was sent.                                         *)
VARIABLES agent, resp

agentVars == <<agent, resp>>

(* AgentRuntime::Impl, in the order of its members, which are destroyed in   *)
(* the opposite one.                                                         *)
Parts == << "events", "llm", "service", "grpc", "pipeline", "gate", "stream" >>

(* The thread of a part and everything its calls go into.                    *)
Inside(t) ==
    CASE t = "events" -> {"events"}
      [] t = "llm" -> {"llm"}
      [] t = "service" -> {"service", "events"}
      [] t = "grpc" -> {"grpc", "service", "events"}
      [] t = "pipeline" -> {"pipeline"} \cup (IF agent.fed THEN {"service", "impl"} ELSE {})
      [] t = "gate" -> {"gate", "service"}
      [] t = "stream" -> {"stream", "gate", "pipeline", "service", "impl"}

(* Start's steps: what each makes or sets going, and whether it can fail.    *)
Makes(part, threads, fails) == [part |-> part, threads |-> threads, fails |-> fails]
Configure == Makes({}, {}, TRUE)
MakeLlm == Makes({"llm"}, {"llm"}, TRUE)
MakeClient == Makes({}, {}, TRUE)
MakePipeline == Makes({"pipeline", "stream"}, {}, TRUE)
MakeService == Makes({"events", "service"}, {"events"}, TRUE)
MakeGrpc == Makes({"grpc"}, {"grpc"}, TRUE)
StartService == Makes({}, {"service"}, FALSE)
MakeGate == Makes({"gate"}, {"gate"}, TRUE)
StartPipeline == Makes({}, {"pipeline"}, TRUE)
StartWorker == Makes({}, {"stream"}, TRUE)
StartSteps ==
    IF Use("disabled") THEN << Configure, MakeService, MakeGrpc >> ELSE
    << Configure, MakeLlm, MakeClient, MakePipeline, MakeService, MakeGrpc, StartService,
       MakeGate, StartPipeline, StartWorker >>

NoAgent == [at |-> "none", step |-> 1, parts |-> {}, threads |-> {}, told |-> {}, busy |-> {},
            impl |-> FALSE, fed |-> FALSE, starts |-> 0]
AgentInit ==
    /\ agent = NoAgent
    /\ resp = [ids |-> << >>, next |-> 1, sub |-> "none", seen |-> 0, sent |-> << >>]

-----------------------------------------------------------------------------
(* AgentRuntime::Start.                                                      *)

StartAgent ==
    /\ Use("agent") /\ agent.at = "none" /\ agent.starts < MaxAgentStarts
    /\ agent' = [agent EXCEPT !.at = "starting", !.starts = @ + 1] /\ UNCHANGED resp

(* The parts up to the language server are Start's own until impl_ is made.  *)
StartStep ==
    /\ agent.at = "starting"
    /\ LET s == StartSteps[agent.step]
       IN  agent' = [agent EXCEPT !.parts = @ \cup s.part, !.threads = @ \cup s.threads,
                         !.impl = @ \/ s.part \cap {"pipeline", "service"} # {}, !.step = @ + 1,
                         !.at = IF agent.step = Len(StartSteps) THEN "up" ELSE "starting"]
    /\ UNCHANGED resp

StartFails ==
    /\ agent.at = "starting" /\ StartSteps[agent.step].fails
    /\ agent' = [agent EXCEPT !.at = "reset", !.impl = FALSE] /\ UNCHANGED resp

-----------------------------------------------------------------------------
(* The threads.  A call begins while the thread has not been told to end.    *)

Enter(t) ==
    /\ t \in agent.threads \ (agent.busy \cup agent.told)
    /\ Use("subscribe") => t \in {"service", "grpc"}
    /\ agent' = [agent EXCEPT !.busy = @ \cup {t}, !.fed = @ \/ t = "stream"]
    /\ UNCHANGED resp

Leaves(t) ==
    /\ t \in agent.busy /\ (t = "grpc" => resp.sub # "waiting")
    /\ agent' = [agent EXCEPT !.busy = @ \ {t}] /\ UNCHANGED resp

(* Told to end, a thread ends when it is outside every call.                 *)
Ends(t) ==
    /\ t \in agent.told \ agent.busy
    /\ agent' = [agent EXCEPT !.threads = @ \ {t}, !.told = @ \ {t}] /\ UNCHANGED resp

-----------------------------------------------------------------------------
(* impl_.reset(): impl_ is null first, then the parts go, each after its own *)
(* Stop or Shutdown has seen its thread end.                                 *)

Last(parts) == LET there == SelectSeq(Parts, LAMBDA p : p \in parts) IN there[Len(there)]
DestroyPart ==
    /\ agent.at = "reset" /\ agent.parts # {}
    /\ LET p == Last(agent.parts)
       IN  IF p \in agent.threads
           THEN p \notin agent.told /\ agent' = [agent EXCEPT !.told = @ \cup {p}]
           ELSE agent' = [agent EXCEPT !.parts = @ \ {p}]
    /\ UNCHANGED resp

ResetDone ==
    /\ agent.at = "reset" /\ agent.parts = {}
    /\ agent' = [NoAgent EXCEPT !.starts = agent.starts]
    /\ resp' = [resp EXCEPT !.ids = << >>, !.next = 1]

(* AgentRuntime::Stop tells them in this order and waits for each.           *)
StopOrder == << "gate", "stream", "pipeline", "service", "grpc", "llm" >>
StopAgent ==
    /\ Use("agent") /\ agent.at = "up"
    /\ agent' = [agent EXCEPT !.at = "stopping", !.step = 1] /\ UNCHANGED resp

StopNext ==
    /\ agent.at = "stopping" /\ agent.step <= Len(StopOrder)
    /\ LET t == StopOrder[agent.step]
       IN  IF t \in agent.threads
           THEN t \notin agent.told /\ agent' = [agent EXCEPT !.told = @ \cup {t}]
           ELSE agent' = [agent EXCEPT !.step = @ + 1]
    /\ UNCHANGED resp

StopResets ==
    /\ agent.at = "stopping" /\ agent.step > Len(StopOrder)
    /\ agent' = [agent EXCEPT !.at = "reset", !.impl = FALSE] /\ UNCHANGED resp

-----------------------------------------------------------------------------
(* VoiceGrpcService: ProcessTranscript publishes a response, and a           *)
(* subscription waits for the next one it has not seen, in slices, until its *)
(* caller's deadline.                                                        *)

PublishResponse ==
    /\ Use("subscribe") /\ {"service", "grpc"} \cap agent.busy # {} /\ resp.next <= MaxResponses
    /\ LET ids == Append(resp.ids, resp.next)
       IN  resp' = [resp EXCEPT !.next = @ + 1,
                        !.ids = IF Len(ids) > KeepResponses THEN Tail(ids) ELSE ids]
    /\ UNCHANGED agent

SubscribeResponses ==
    /\ Use("subscribe") /\ "grpc" \in agent.busy /\ resp.sub = "none"
    /\ resp' = [resp EXCEPT !.sub = "waiting", !.seen = 0] /\ UNCHANGED agent

WaitForResponse ==
    /\ resp.sub = "waiting"
    /\ LET new == SelectSeq(resp.ids, LAMBDA i : i > resp.seen)
       IN  new # << >> /\ resp' = [resp EXCEPT !.seen = Head(new), !.sent = Append(@, Head(new))]
    /\ UNCHANGED agent

SubscriberLeaves ==
    /\ resp.sub = "waiting"
    /\ resp' = [resp EXCEPT !.sub = "over"] /\ UNCHANGED agent

-----------------------------------------------------------------------------
Threads7 == {"events", "llm", "service", "grpc", "pipeline", "gate", "stream"}
AgentSteps ==
    \/ StartStep \/ StartFails \/ DestroyPart \/ ResetDone \/ StopNext \/ StopResets
    \/ SubscriberLeaves
ThreadSteps(t) == Leaves(t) \/ Ends(t)

AgentNext ==
    \/ StartAgent \/ StopAgent \/ AgentSteps
    \/ \E t \in Threads7 : Enter(t) \/ ThreadSteps(t)
    \/ PublishResponse \/ SubscribeResponses \/ WaitForResponse

AgentFairness ==
    /\ WF_agentVars(AgentSteps)
    /\ \A t \in Threads7 : WF_agentVars(ThreadSteps(t))

(* A thread that is inside a call finds every part it uses alive, however    *)
(* far Start had come when it failed, and impl_ set where its callback reads *)
(* it (the order of the members and of Stop).                                *)
PartsOutliveCalls ==
    \A t \in agent.busy :
        /\ Inside(t) \ {"impl"} \subseteq agent.parts
        /\ "impl" \in Inside(t) => agent.impl

(* A subscriber is sent ids that grow (WaitForResponse).                     *)
ResponsesInOrder ==
    \A i \in 1 .. Len(resp.sent) - 1 : resp.sent[i] < resp.sent[i + 1]

AgentStopped ==
    agent.at \in {"none", "up"} /\ (agent.at = "none" => agent.threads = {} /\ agent.parts = {})

(* Every Start that fails and every Stop ends with nothing left running, and *)
(* on the way no thread is caught in a part that is gone.                    *)
AgentComesDown == [](PartsOutliveCalls /\ ResponsesInOrder) /\ <>[]AgentStopped
=============================================================================
