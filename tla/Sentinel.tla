------------------------------- MODULE Sentinel -------------------------------
(***************************************************************************)
(* The sentinel: events of the vehicle driver's stream are submitted to a  *)
(* bounded queue; a worker judges each one and, when armed, prepares a     *)
(* recording, takes a photo and records the event by remote calls, then    *)
(* cools down.  Arm, Disarm and Stop come from other threads at any point. *)
(***************************************************************************)
EXTENDS VehicleStreams

CONSTANT QueueCapacity      \* policy_.queue_capacity
ASSUME SentinelAssumption == QueueCapacity \in Nat \ {0}

VARIABLE sen   \* SentinelService with its worker and actions, the calls on it, and
               \* where SentinelRuntime::Stop is

SentinelInit ==
    sen = [running |-> FALSE, stopping |-> FALSE, state |-> "disabled", queue |-> << >>,
           closed |-> FALSE, last |-> 0, pc |-> "done", event |-> 0, cooling |-> FALSE,
           ctx |-> FALSE, cancelled |-> FALSE, call |-> "none", stop |-> 0]

SenGoto(r) == sen' = r /\ UNCHANGED streamVars
Worker(p) == sen.pc = p

(* TryCancel on the remote call that is going on, if one is.                 *)
CancelActions(r) == [r EXCEPT !.cancelled = @ \/ r.ctx]
Discard(r) == [r EXCEPT !.queue = << >>]

-----------------------------------------------------------------------------
(* SentinelRuntime::Start, then its event worker.                           *)

SentinelStarts(armed) ==
    /\ Use("sentinel") /\ sen.stop = 0 /\ ~sen.running
    /\ SenGoto([sen EXCEPT !.running = TRUE, !.pc = "top",
                           !.state = IF armed THEN "armed" ELSE "disabled"])

EventsStart ==
    /\ sen.running /\ At("sentinel", "off")
    /\ ClGoto("sentinel", [cl["sentinel"] EXCEPT !.pc = "loop"]) /\ UNCHANGED sen

(* The stream's callback: Submit checks the state, then pushes.              *)
Pushed(r, event) ==
    IF ~r.running \/ r.stopping \/ r.state = "disabled" THEN r
    ELSE IF r.closed \/ Len(r.queue) = QueueCapacity THEN r
    ELSE [r EXCEPT !.queue = Append(@, event)]
SentinelReads ==
    /\ At("sentinel", "read") /\ cl["sentinel"].pipe # << >>
    /\ ClGoto("sentinel", [cl["sentinel"] EXCEPT !.pc = "check", !.pipe = Tail(@),
                                                 !.got = Head(cl["sentinel"].pipe)])
    /\ sen' = Pushed(sen, Head(cl["sentinel"].pipe))

-----------------------------------------------------------------------------
(* Arm, and the two halves of Disarm.                                        *)

Callable == Use("arm") /\ sen.running /\ ~sen.stopping
Arm ==
    /\ Callable /\ sen.state = "disabled"
    /\ SenGoto([sen EXCEPT !.state = "armed", !.cooling = FALSE])
DisarmBegins ==
    /\ Callable /\ sen.call = "none" /\ sen.state # "disabled"
    /\ SenGoto([sen EXCEPT !.state = "disabled", !.cooling = FALSE, !.call = "disarm"])
DisarmEnds == sen.call = "disarm" /\ SenGoto(CancelActions(Discard([sen EXCEPT !.call = "none"])))

-----------------------------------------------------------------------------
(* Run.                                                                      *)

RunTop == Worker("top") /\ SenGoto([sen EXCEPT !.pc = IF sen.stopping THEN "done" ELSE "pop"])

(* WaitPopFor: the oldest event, or nothing when it times out or is closed.  *)
RunPops ==
    /\ Worker("pop") /\ sen.queue # << >>
    /\ SenGoto([sen EXCEPT !.pc = "judge", !.event = Head(sen.queue), !.queue = Tail(@)])
RunWaits ==
    Worker("pop") /\ sen.queue = << >> /\ SenGoto([sen EXCEPT !.pc = "judge", !.event = 0])

CooldownElapses == sen.cooling /\ SenGoto([sen EXCEPT !.cooling = FALSE])
UpdateCooldown(r) == IF r.state = "cooldown" /\ ~r.cooling THEN [r EXCEPT !.state = "armed"] ELSE r

Judged(r, stale) ==
    LET d == UpdateCooldown(r)
    IN  IF r.stopping THEN [r EXCEPT !.pc = "done"]
        ELSE IF r.event = 0 THEN [d EXCEPT !.pc = "top"]
        ELSE IF r.event <= r.last \/ stale \/ d.state # "armed"
        THEN [d EXCEPT !.pc = "top", !.last = IF r.event > @ THEN r.event ELSE @]
        ELSE [d EXCEPT !.pc = "status", !.last = r.event, !.state = "triggered"]
RunJudges(stale) == Worker("judge") /\ (sen.event = 0 => ~stale) /\ SenGoto(Judged(sen, stale))

(* PrepareRecording (GetStatus, and Start when nothing is recorded yet),     *)
(* TakeSnapshot, RecordMotion: each call is made with a context of its own   *)
(* and a deadline, and the first failure skips the rest.                     *)
Calls == {"status", "start", "photo", "record"}
After(call) ==
    CASE call = "status" -> {"start", "photo"}
      [] call = "start" -> {"photo"}
      [] call = "photo" -> {"record"}
      [] call = "record" -> {"finish"}
RunCalls ==
    /\ sen.pc \in Calls /\ ~sen.ctx
    /\ SenGoto([sen EXCEPT !.ctx = TRUE, !.cancelled = FALSE])
RunAnswered(next) ==
    /\ sen.pc \in Calls /\ sen.ctx /\ ~sen.cancelled /\ next \in After(sen.pc)
    /\ SenGoto([sen EXCEPT !.ctx = FALSE, !.pc = next])
RunCallFails == sen.pc \in Calls /\ sen.ctx /\ SenGoto([sen EXCEPT !.ctx = FALSE, !.pc = "finish"])

RunFinishes ==
    /\ Worker("finish")
    /\ SenGoto(IF sen.stopping \/ sen.state = "disabled" THEN [sen EXCEPT !.pc = "top"]
               ELSE [sen EXCEPT !.pc = "top", !.state = "cooldown", !.cooling = TRUE])

-----------------------------------------------------------------------------
(* SentinelRuntime::Stop, with SentinelService::Stop in its middle.          *)

StopGoes(from, to) == sen.stop = from /\ sen' = [to EXCEPT !.stop = from + 1]

SentinelStops ==
    /\ Use("stop") /\ sen.running /\ sen.stop = 0
    /\ StopGoes(0, sen) /\ ClGoto("sentinel", [cl["sentinel"] EXCEPT !.run = FALSE])
StopEvents == StopGoes(1, sen) /\ ClGoto("sentinel", ClientStops("sentinel"))
StopFlag == StopGoes(2, [sen EXCEPT !.stopping = TRUE]) /\ UNCHANGED streamVars
StopQueue == StopGoes(3, CancelActions(Discard([sen EXCEPT !.closed = TRUE]))) /\ UNCHANGED streamVars
StopJoins ==
    /\ Worker("done") /\ StopGoes(4, [sen EXCEPT !.running = FALSE, !.state = "disabled"])
    /\ UNCHANGED streamVars
StopJoinsEvents ==
    /\ At("sentinel", "done") \/ At("sentinel", "off")
    /\ StopGoes(5, sen) /\ UNCHANGED streamVars

RunSteps ==
    \/ RunTop \/ RunPops \/ RunWaits \/ RunCalls \/ RunCallFails \/ RunFinishes
    \/ \E stale \in BOOLEAN : RunJudges(stale)
    \/ \E next \in Calls \cup {"finish"} : RunAnswered(next)
StopSteps == StopEvents \/ StopFlag \/ StopQueue \/ StopJoins \/ StopJoinsEvents

SentinelNext ==
    \/ StreamsNext /\ UNCHANGED sen
    \/ \E armed \in BOOLEAN : SentinelStarts(armed)
    \/ EventsStart \/ SentinelReads \/ Arm \/ DisarmBegins \/ DisarmEnds
    \/ CooldownElapses \/ RunSteps \/ SentinelStops \/ StopSteps

sentinelVars == <<streamVars, sen>>
SentinelFairness ==
    /\ StreamsFairness
    /\ WF_sentinelVars(RunSteps) /\ WF_sentinelVars(StopSteps)

(* A stop of the sentinel ended, with the worker and the event thread joined *)
(* unless TryCancel came before the context was there.                       *)
SentinelStopped == sen.stop # 0 => sen.stop = 6 \/ MissedCancel("sentinel")
=============================================================================
