---------------------------- MODULE VoiceProofs -----------------------------
(***************************************************************************)
(* What holds of the voice interaction service and its response sink for   *)
(* any queue capacity, any number of requests and any number of interrupts.*)
(***************************************************************************)
EXTENDS VoiceInteraction, SequenceTheorems, TLAPS

Gens == 0 .. MaxInterrupts + 1

(* Where a caller has not published the response of its request yet.       *)
Early == {"h_gen", "h_lock", "h_begin", "h_segment", "h_assist", "h_answered", "h_routing",
          "h_llm", "h_open", "h_action", "h_select", "h_unselect", "h_dispatch", "h_acted",
          "h_result", "h_respond"}
Recovering == {"e_begin", "e_fail", "e_prompt"}
Submitting == {"v_own", "v_put", "v_rejected"}

StopBegins == {"idle", "t_join_gate", "t_gen"}
StopOwn == StopBegins \cup {"n_invalidate", "n_discard", "n_action", "n_sink", "n_pending",
                            "t_join", "stopped"}

Results == {"none", "active", "action", "open", "unknown", "failed", "sent", "completed",
            "cancelled"}
Returns == {"idle", "h_done", "s_return", "s_clear", "n_pending"}
Locals == [gen : Nat, out : Outputs \cup {NoOutput}, what : Results, prompt : BOOLEAN,
           todo : Seq(Outputs), ret : Returns]

-----------------------------------------------------------------------------
(* The inductive invariant.                                                *)

(* A caller's locals v at label p: only a recovery may ask for a prompt    *)
(* before the response is there, and what is submitted was published.      *)
CallerOK(p, v) ==
    /\ v.gen \in Gens
    /\ v.ret \in {"idle", "h_done"}
    /\ p \in (Early \ {"h_gen"}) \cup {"h_speak"} => ~v.prompt
    /\ p \in Submitting \cup {"h_speak"} => v.out \in Outputs

(* No other thread asks for a prompt, so none submits an output.           *)
OtherOK(p, v) ==
    /\ ~v.prompt
    /\ p \notin Submitting
    /\ v.ret # "h_done"

LocalOK(t, p, v) ==
    /\ t \in Callers => CallerOK(p, v)
    /\ t \notin Callers => OtherOK(p, v)
    /\ t = "stop" /\ p \notin StopOwn => v.ret = "n_pending"

Shape ==
    /\ DOMAIN pc = Threads /\ loc \in [Threads -> Locals]
    /\ \A t \in Threads : LocalOK(t, pc[t], loc[t])

(* The outputs Submit returned true for: what is queued, swapped out or    *)
(* being played.                                                           *)
Accepted == {o \in Outputs : o.id \in sink.accepted}
QueuedOK == sink.queue \in Seq(Accepted) /\ \A t \in Threads : loc[t].todo \in Seq(Accepted)
PlayingOK == pc["sink"] # "idle" => sink.active \in Accepted

(* The last generation is the one Stop begins.                             *)
StopYet == pc["stop"] \in StopBegins => gen <= MaxInterrupts

(* A response for each request at most.                                    *)
Debt(p, v) == IF p \in Early \/ (p \in Recovering /\ v.prompt) THEN 1 ELSE 0
Counted ==
    /\ ids.resp + queue + Debt(pc["worker"], loc["worker"]) + Debt(pc["rpc"], loc["rpc"])
         <= ids.reqs
    /\ ids.reqs <= MaxRequests

SinkOK ==
    /\ sink \in [queue : Seq(Outputs), active : Outputs \cup {NoOutput}, cancel : BOOLEAN,
                 stop : BOOLEAN, accepted : SUBSET (1 .. MaxId), done : [1 .. MaxId -> Nat]]
    /\ Len(sink.queue) <= Capacity
    /\ CompletedAtMostOnce

ServiceOK ==
    /\ st \in InteractionState
    /\ gen \in Gens
    /\ out \in [id : 0 .. MaxId, gen : Gens, rec : BOOLEAN]
    /\ follow \in BOOLEAN
    /\ queue \in Nat
    /\ act \in [active : BOOLEAN, cancel : BOOLEAN]
    /\ lock \in Callers \cup {"none"}
    /\ ids \in [resp : Nat, reqs : Nat]

VoiceInv ==
    Shape /\ QueuedOK /\ PlayingOK /\ StopYet /\ Counted /\ SinkOK /\ ServiceOK

-----------------------------------------------------------------------------
(* A step of thread t, to label l with locals v.                           *)
StepTo(t, l, v) == pc' = [pc EXCEPT ![t] = l] /\ loc' = [loc EXCEPT ![t] = v]

(* What a step has to keep of its own thread.                              *)
MayGo(t, l, v) ==
    /\ v \in Locals /\ LocalOK(t, l, v)
    /\ t = "stop" /\ l \in StopBegins => pc[t] \in StopBegins
    /\ t = "sink" /\ l # "idle" => pc[t] # "idle"

LEMMA NoOutType == NoOut \in [id : 0 .. MaxId, gen : Gens, rec : BOOLEAN]
<1>1. 0 \in 0 .. MaxId /\ 0 \in Gens
  BY SinkAssumption, VoiceAssumption DEF Gens
<1> QED
  BY <1>1 DEF NoOut

LEMMA NoLocType == NoLoc \in Locals
BY DEF NoLoc, Locals, NoOutput, Results, Returns

(* A step that stays at its locals writes them.                            *)
LEMMA SameLocals ==
    ASSUME Shape, NEW t \in Threads, loc' = loc
    PROVE  loc' = [loc EXCEPT ![t] = loc[t]]
BY DEF Shape

(* The other threads are where they were.                                  *)
LEMMA ShapeKept ==
    ASSUME Shape, NEW t \in Threads, NEW l, NEW v, StepTo(t, l, v),
           v \in Locals, LocalOK(t, l, v)
    PROVE  /\ Shape'
           /\ pc'[t] = l /\ loc'[t] = v
           /\ \A u \in Threads \ {t} : pc'[u] = pc[u] /\ loc'[u] = loc[u]
<1>1. DOMAIN pc' = Threads /\ loc' \in [Threads -> Locals]
  BY DEF Shape, StepTo
<1>2. pc'[t] = l /\ loc'[t] = v
  BY DEF Shape, StepTo
<1>3. \A u \in Threads \ {t} : pc'[u] = pc[u] /\ loc'[u] = loc[u]
  BY DEF Shape, StepTo
<1>4. \A u \in Threads : LocalOK(u, pc'[u], loc'[u])
  BY <1>2, <1>3 DEF Shape
<1> QED
  BY <1>1, <1>2, <1>3, <1>4 DEF Shape

(* Stop's generation and the output being played.                          *)
LEMMA StopPlayingKept ==
    ASSUME Shape, NEW t \in Threads, NEW l, NEW v, StepTo(t, l, v), MayGo(t, l, v),
           StopYet, PlayingOK, sink' = sink,
           gen' = gen \/ gen' <= MaxInterrupts
    PROVE  StopYet' /\ PlayingOK'
<1>1. /\ pc'[t] = l
      /\ \A u \in Threads \ {t} : pc'[u] = pc[u]
  BY ShapeKept DEF MayGo
<1>2. "stop" \in Threads /\ "sink" \in Threads
  BY DEF Threads
<1>3. pc'["stop"] \in StopBegins => pc["stop"] \in StopBegins
  BY <1>1, <1>2 DEF MayGo
<1>4. pc'["sink"] # "idle" => pc["sink"] # "idle"
  BY <1>1, <1>2 DEF MayGo
<1>5. StopYet'
  BY <1>3 DEF StopYet
<1>6. PlayingOK'
  BY <1>4 DEF PlayingOK, Accepted
<1> QED
  BY <1>5, <1>6

(* The responses still owed: a caller's step may pay, or take a request.   *)
LEMMA CountKept ==
    ASSUME Shape, Counted, ServiceOK, NEW t \in Threads, NEW l, NEW v,
           StepTo(t, l, v), v \in Locals, LocalOK(t, l, v),
           ids' \in [resp : Nat, reqs : Nat], queue' \in Nat, ids'.reqs <= MaxRequests,
           t \notin Callers => ids'.resp + queue' + ids.reqs <= ids.resp + queue + ids'.reqs,
           t \in Callers => ids'.resp + queue' + Debt(l, v) + ids.reqs
                              <= ids.resp + queue + Debt(pc[t], loc[t]) + ids'.reqs
    PROVE  Counted'
<1>1. /\ pc'[t] = l /\ loc'[t] = v
      /\ \A u \in Threads \ {t} : pc'[u] = pc[u] /\ loc'[u] = loc[u]
  BY ShapeKept
<1>2. "worker" \in Threads /\ "rpc" \in Threads /\ Callers = {"worker", "rpc"}
  BY DEF Threads, Callers
<1>3. \A p, w : Debt(p, w) \in Nat
  BY DEF Debt
<1>4. ids.resp \in Nat /\ ids.reqs \in Nat /\ ids'.resp \in Nat /\ ids'.reqs \in Nat
      /\ queue \in Nat
  BY DEF ServiceOK
<1>5. CASE t \notin Callers
  <2>1. /\ pc'["worker"] = pc["worker"] /\ loc'["worker"] = loc["worker"]
        /\ pc'["rpc"] = pc["rpc"] /\ loc'["rpc"] = loc["rpc"]
    BY <1>1, <1>2, <1>5
  <2> QED
    BY <1>3, <1>4, <1>5, <2>1 DEF Counted
<1>6. CASE t = "worker"
  <2>1. /\ pc'["worker"] = l /\ loc'["worker"] = v
        /\ pc'["rpc"] = pc["rpc"] /\ loc'["rpc"] = loc["rpc"]
    BY <1>1, <1>2, <1>6
  <2> QED
    BY <1>2, <1>3, <1>4, <1>6, <2>1 DEF Counted
<1>7. CASE t = "rpc"
  <2>1. /\ pc'["rpc"] = l /\ loc'["rpc"] = v
        /\ pc'["worker"] = pc["worker"] /\ loc'["worker"] = loc["worker"]
    BY <1>1, <1>2, <1>7
  <2> QED
    BY <1>2, <1>3, <1>4, <1>7, <2>1 DEF Counted
<1> QED
  BY <1>2, <1>5, <1>6, <1>7

(* What is queued or swapped out was accepted.                             *)
LEMMA QueuedKept ==
    ASSUME Shape, QueuedOK, NEW t \in Threads, NEW l, NEW v, StepTo(t, l, v), MayGo(t, l, v),
           sink' = sink, v.todo = loc[t].todo \/ v.todo = << >>
    PROVE  QueuedOK'
<1>1. /\ loc'[t] = v
      /\ \A u \in Threads \ {t} : loc'[u] = loc[u]
  BY ShapeKept DEF MayGo
<1>2. << >> \in Seq(Accepted)
  OBVIOUS
<1>3. Accepted' = Accepted
  BY DEF Accepted
<1>4. \A u \in Threads : loc'[u].todo \in Seq(Accepted)
  BY <1>1, <1>2 DEF QueuedOK
<1> QED
  BY <1>3, <1>4 DEF QueuedOK

(* A step that leaves the sink alone.                                      *)
LEMMA SinkLeftAlone ==
    ASSUME VoiceInv, NEW t \in Threads, NEW l, NEW v, StepTo(t, l, v), MayGo(t, l, v),
           sink' = sink, v.todo = loc[t].todo \/ v.todo = << >>,
           gen' = gen \/ gen' <= MaxInterrupts, Counted', ServiceOK'
    PROVE  VoiceInv'
<1>1. Shape'
  BY ShapeKept DEF VoiceInv, MayGo
<1>2. StopYet' /\ PlayingOK'
  BY StopPlayingKept DEF VoiceInv
<1>3. QueuedOK'
  BY QueuedKept DEF VoiceInv
<1>4. SinkOK'
  BY DEF VoiceInv, SinkOK, CompletedAtMostOnce
<1> QED
  BY <1>1, <1>2, <1>3, <1>4 DEF VoiceInv

(* Pays(t, l, v): the step leaves no more responses owed than before.      *)
Pays(t, l, v) == t \in Callers => Debt(l, v) <= Debt(pc[t], loc[t])

LEMMA QuietStep ==
    ASSUME VoiceInv, NEW t \in Threads, NEW l, NEW v, StepTo(t, l, v), MayGo(t, l, v),
           Pays(t, l, v), UNCHANGED <<gen, ids, sink>>,
           v.todo = loc[t].todo \/ v.todo = << >>,
           queue' = queue \/ queue' = 0, ServiceOK'
    PROVE  VoiceInv'
<1>1. ids' \in [resp : Nat, reqs : Nat] /\ queue' \in Nat /\ ids'.reqs <= MaxRequests
  BY DEF VoiceInv, ServiceOK, Counted
<1>2. ids.resp \in Nat /\ ids.reqs \in Nat /\ queue \in Nat /\ queue' <= queue
  BY DEF VoiceInv, ServiceOK
<1>3. \A p, w : Debt(p, w) \in Nat
  BY DEF Debt
<1>4. t \notin Callers => ids'.resp + queue' + ids.reqs <= ids.resp + queue + ids'.reqs
  BY <1>1, <1>2
<1>5. t \in Callers => ids'.resp + queue' + Debt(l, v) + ids.reqs
                          <= ids.resp + queue + Debt(pc[t], loc[t]) + ids'.reqs
  BY <1>1, <1>2, <1>3 DEF Pays
<1>6. Counted'
  BY <1>1, <1>4, <1>5, CountKept DEF VoiceInv, MayGo
<1> QED
  BY <1>6, SinkLeftAlone

(* A step that only moves.                                                 *)
LEMMA MoveStep ==
    ASSUME VoiceInv, NEW t \in Threads, NEW l, Goto(t, l), MayGo(t, l, loc[t]),
           Pays(t, l, loc[t]), UNCHANGED <<gen, ids, sink, loc>>,
           queue' = queue \/ queue' = 0, ServiceOK'
    PROVE  VoiceInv'
<1>1. StepTo(t, l, loc[t])
  BY SameLocals DEF Goto, StepTo, VoiceInv
<1> QED
  BY <1>1, QuietStep

LEMMA HandleType ==
    ASSUME NEW s \in InteractionState, NEW e \in DOMAIN EventTable
    PROVE  Handle(s, e) \in InteractionState
<1>1. EventTable[e][2] \in InteractionState
  BY DEF EventTable, InteractionState
<1> QED
  BY <1>1 DEF Handle

LEMMA EventStep ==
    ASSUME VoiceInv, NEW t \in Threads, NEW e \in DOMAIN EventTable, NEW yes, NEW no,
           Event(t, e, yes, no),
           MayGo(t, yes, loc[t]), MayGo(t, no, loc[t]),
           Pays(t, yes, loc[t]), Pays(t, no, loc[t])
    PROVE  VoiceInv'
<1>1. st' \in InteractionState
  BY HandleType DEF Event, VoiceInv, ServiceOK
<1>2. UNCHANGED <<gen, out, follow, queue, act, lock, ids, sink, loc>>
  BY DEF Event, Service
<1>3. ServiceOK'
  BY <1>1, <1>2 DEF VoiceInv, ServiceOK
<1>4. PICK l \in {yes, no} : Goto(t, l)
  BY DEF Event
<1> QED
  BY <1>2, <1>3, <1>4, MoveStep

-----------------------------------------------------------------------------
(* Where a thread may go from inside a call.                               *)

(* The tail calls: ReturnToIdle, RecoverFromError, HandleOutputResult.     *)
Tails == {"b_snap", "b_recovered", "b_completed", "o_result", "o_completed", "o_window",
          "o_cancelled"} \cup Recovering

LEMMA TailGo ==
    ASSUME Shape, NEW t \in Threads, pc[t] \in Tails \cup Submitting,
           NEW l \in Tails \cup {loc[t].ret}, l \in Recovering => pc[t] \in Recovering
                                                     \/ ~loc[t].prompt
    PROVE  MayGo(t, l, loc[t]) /\ Pays(t, l, loc[t])
<1>1. /\ loc[t] \in Locals /\ LocalOK(t, pc[t], loc[t])
      /\ loc[t].ret \in Returns
  BY DEF Shape, Locals
<1>3. t \in Callers => CallerOK(l, loc[t])
  BY <1>1 DEF LocalOK, CallerOK, Tails, Recovering, Submitting, Early
<1>4. t \notin Callers => OtherOK(l, loc[t])
  BY <1>1 DEF LocalOK, OtherOK, Tails, Recovering, Submitting, Returns
<1>5. t = "stop" => loc[t].ret = "n_pending"
  BY <1>1 DEF LocalOK, StopOwn, StopBegins, Tails, Recovering, Submitting
<1>6. t = "stop" => l \notin StopBegins
  BY <1>5 DEF StopBegins, Tails, Recovering
<1>7. pc[t] # "idle"
  BY DEF Tails, Recovering, Submitting
<1>8. Pays(t, l, loc[t])
  BY <1>1 DEF Pays, Debt, LocalOK, CallerOK, Tails, Recovering, Submitting, Early
<1> QED
  BY <1>1, <1>3, <1>4, <1>5, <1>6, <1>7, <1>8 DEF MayGo, LocalOK

LEMMA ReturnToIdleStep ==
    ASSUME VoiceInv, NEW t \in Threads, ReturnSnapshot(t) \/ ReturnHandle(t)
    PROVE  VoiceInv'
<1>0. Shape
  BY DEF VoiceInv
<1>1. CASE ReturnSnapshot(t)
  <2>1. PICK l : /\ l \in Tails \cup {loc[t].ret} /\ Goto(t, l)
                 /\ l \in Recovering => l = loc[t].ret
    BY <1>1 DEF ReturnSnapshot, Tails, Recovering
  <2>2. pc[t] \in Tails /\ UNCHANGED <<st, gen, out, follow, queue, act, lock, ids, sink, loc>>
    BY <1>1 DEF ReturnSnapshot, At, Tails, Service
  <2>3. loc[t].ret \notin Recovering
    BY <1>0 DEF Shape, Locals, Returns, Recovering
  <2>4. MayGo(t, l, loc[t]) /\ Pays(t, l, loc[t])
    BY <1>0, <2>1, <2>2, <2>3, TailGo
  <2>5. ServiceOK'
    BY <2>2 DEF VoiceInv, ServiceOK
  <2> QED
    BY <2>1, <2>2, <2>4, <2>5, MoveStep
<1>2. CASE ReturnHandle(t)
  <2>1. pc[t] \in Tails
    BY <1>2 DEF ReturnHandle, At, Tails
  <2>2. loc[t].ret \notin Recovering
    BY <1>0 DEF Shape, Locals, Returns, Recovering
  <2>3. MayGo(t, loc[t].ret, loc[t]) /\ Pays(t, loc[t].ret, loc[t])
    BY <1>0, <2>1, <2>2, TailGo
  <2>4. PICK e \in DOMAIN EventTable : Event(t, e, loc[t].ret, loc[t].ret)
    BY <1>2 DEF ReturnHandle, EventTable
  <2> QED
    BY <2>3, <2>4, EventStep
<1> QED
  BY <1>1, <1>2

(* A step inside a tail call.                                              *)
LEMMA TailStep ==
    ASSUME VoiceInv, NEW t \in Threads, pc[t] \in Tails \cup Submitting,
           NEW l \in Tails \cup {loc[t].ret},
           l \in Recovering => pc[t] \in Recovering \/ ~loc[t].prompt,
           Goto(t, l), UNCHANGED <<gen, ids, sink, loc>>,
           queue' = queue \/ queue' = 0, ServiceOK'
    PROVE  VoiceInv'
<1>1. MayGo(t, l, loc[t]) /\ Pays(t, l, loc[t])
  BY TailGo DEF VoiceInv
<1> QED
  BY <1>1, MoveStep

(* No return goes into a recovery.                                         *)
LEMMA ReturnsLeave ==
    ASSUME Shape, NEW t \in Threads
    PROVE  loc[t].ret \notin Recovering
BY DEF Shape, Locals, Returns, Recovering

LEMMA RecoverStep ==
    ASSUME VoiceInv, NEW t \in Threads, RecoverBegin(t) \/ RecoverFailure(t)
    PROVE  VoiceInv'
<1>0. Shape /\ loc[t].ret \notin Recovering
  BY ReturnsLeave DEF VoiceInv
<1>1. CASE RecoverBegin(t)
  <2>1. PICK l \in {loc[t].ret, "e_fail"} : Goto(t, l)
    BY <1>1 DEF RecoverBegin, Return
  <2>2. /\ pc[t] \in Recovering /\ pc[t] \in Tails
        /\ UNCHANGED <<st, gen, out, follow, act, lock, ids, sink, loc>>
        /\ queue' = queue \/ queue' = 0
    BY <1>1 DEF RecoverBegin, At, Recovering, Tails
  <2>3. ServiceOK'
    BY <2>2 DEF VoiceInv, ServiceOK
  <2>4. l \in Tails \cup {loc[t].ret}
    BY DEF Tails, Recovering
  <2> QED
    BY <2>1, <2>2, <2>3, <2>4, TailStep
<1>2. CASE RecoverFailure(t)
  <2>1. pc[t] \in Recovering /\ pc[t] \in Tails /\ "e_prompt" \in Tails
    BY <1>2 DEF RecoverFailure, At, Recovering, Tails
  <2>2. /\ MayGo(t, loc[t].ret, loc[t]) /\ Pays(t, loc[t].ret, loc[t])
        /\ MayGo(t, "e_prompt", loc[t]) /\ Pays(t, "e_prompt", loc[t])
    BY <1>0, <2>1, TailGo
  <2>3. Event(t, "Failure", "e_prompt", loc[t].ret) /\ "Failure" \in DOMAIN EventTable
    BY <1>2 DEF RecoverFailure, EventTable
  <2> QED
    BY <2>2, <2>3, EventStep
<1> QED
  BY <1>1, <1>2

LEMMA CallerGo ==
    ASSUME NEW c \in Callers, NEW l, NEW v \in Locals, CallerOK(l, v)
    PROVE  MayGo(c, l, v) /\ LocalOK(c, l, v) /\ c \in Threads
BY DEF MayGo, LocalOK, Callers, Threads

(* PublishResponse: the request that owed the response has paid it.        *)
LEMMA PublishStep ==
    ASSUME VoiceInv, NEW c \in Callers,
           \/ pc[c] = "h_respond"
           \/ pc[c] = "e_prompt" /\ loc[c].prompt,
           NEW l \in {"h_speak", "b_snap", "v_own"}, l = "h_speak" => ~loc[c].prompt,
           Goto(c, l), Publish(c),
           UNCHANGED <<st, gen, out, follow, queue, act, lock, sink>>
    PROVE  VoiceInv'
<1> DEFINE o == [id |-> ids.resp + 1, gen |-> loc[c].gen]
           v == [loc[c] EXCEPT !.out = o]
<1>0. /\ Shape /\ ServiceOK /\ Counted /\ c \in Threads
      /\ loc[c] \in Locals /\ CallerOK(pc[c], loc[c])
  BY DEF VoiceInv, Shape, LocalOK, Callers, Threads
<1>1. Debt(pc[c], loc[c]) = 1
  BY DEF Debt, Early, Recovering
<1>2. ids.resp \in Nat /\ ids.reqs \in Nat /\ queue \in Nat
  BY <1>0 DEF ServiceOK
<1>3. \A p, w : Debt(p, w) \in Nat
  BY DEF Debt
<1>4. ids.resp + 1 <= ids.reqs
  <2>1. Debt(pc["worker"], loc["worker"]) + Debt(pc["rpc"], loc["rpc"]) >= 1
    BY <1>1, <1>3 DEF Callers
  <2> QED
    BY <1>0, <1>2, <1>3, <2>1 DEF Counted
<1>5. ids.resp + 1 \in 1 .. MaxId
  BY <1>0, <1>2, <1>4, VoiceAssumption, SinkAssumption DEF Counted
<1>6. o \in Outputs
  BY <1>0, <1>5 DEF Outputs, Locals
<1> HIDE DEF o
<1>7. /\ v \in Locals /\ v.out = o /\ v.gen = loc[c].gen /\ v.prompt = loc[c].prompt
      /\ v.todo = loc[c].todo /\ v.ret = loc[c].ret
  BY <1>0, <1>6 DEF Locals
<1>8. loc' = [loc EXCEPT ![c] = v] /\ ids' = [ids EXCEPT !.resp = ids.resp + 1]
  BY <1>0 DEF Publish, o, Shape
<1> HIDE DEF v
<1>9. CallerOK(l, v)
  BY <1>0, <1>6, <1>7 DEF CallerOK, Early, Submitting
<1>10. MayGo(c, l, v) /\ LocalOK(c, l, v) /\ StepTo(c, l, v)
  BY <1>7, <1>8, <1>9, CallerGo DEF StepTo, Goto
<1>11. Debt(l, v) = 0
  BY DEF Debt, Early, Recovering
<1>12. /\ ids' \in [resp : Nat, reqs : Nat]
       /\ ids'.resp = ids.resp + 1 /\ ids'.reqs = ids.reqs
  BY <1>0, <1>2, <1>8 DEF ServiceOK
<1>13. Counted'
  <2>1. ids'.reqs <= MaxRequests /\ queue' = queue /\ queue' \in Nat
    BY <1>0, <1>2, <1>12 DEF Counted
  <2>2. ids'.resp + queue' + Debt(l, v) + ids.reqs
          <= ids.resp + queue + Debt(pc[c], loc[c]) + ids'.reqs
    BY <1>1, <1>2, <1>11, <1>12, <2>1
  <2> QED
    BY <1>0, <1>7, <1>10, <1>12, <2>1, <2>2, CountKept
<1>14. ServiceOK'
  BY <1>0, <1>12 DEF ServiceOK
<1> QED
  BY <1>0, <1>7, <1>10, <1>13, <1>14, SinkLeftAlone

LEMMA RecoverPromptStep ==
    ASSUME VoiceInv, NEW t \in Threads, RecoverPrompt(t)
    PROVE  VoiceInv'
<1>0. Shape /\ LocalOK(t, pc[t], loc[t])
  BY DEF VoiceInv, Shape
<1>1. pc[t] = "e_prompt" /\ UNCHANGED <<st, gen, out, follow, queue, act, lock, sink>>
  BY DEF RecoverPrompt, At
<1>2. CASE loc[t].prompt /\ Publish(t) /\ Goto(t, "v_own")
  <2>1. t \in Callers
    BY <1>0, <1>2 DEF LocalOK, OtherOK
  <2> QED
    BY <1>1, <1>2, <2>1, PublishStep
<1>3. CASE Goto(t, "b_snap") /\ UNCHANGED <<ids, loc>>
  <2>1. ServiceOK'
    BY <1>1, <1>3 DEF VoiceInv, ServiceOK
  <2>2. pc[t] \in Tails /\ "b_snap" \in Tails /\ "b_snap" \notin Recovering
    BY <1>1 DEF Tails, Recovering
  <2> QED
    BY <1>1, <1>3, <2>1, <2>2, TailStep
<1> QED
  BY <1>2, <1>3 DEF RecoverPrompt

(* A caller's step that only moves.                                        *)
LEMMA CallerMove ==
    ASSUME VoiceInv, NEW c \in Callers, NEW l, Goto(c, l), CallerOK(l, loc[c]),
           Debt(l, loc[c]) <= Debt(pc[c], loc[c]),
           UNCHANGED <<gen, ids, queue, sink, loc>>, ServiceOK'
    PROVE  VoiceInv'
<1>1. c \in Threads /\ loc[c] \in Locals
  BY DEF Callers, Threads, VoiceInv, Shape
<1>2. MayGo(c, l, loc[c]) /\ Pays(c, l, loc[c])
  BY <1>1, CallerGo DEF Pays
<1> QED
  BY <1>1, <1>2, MoveStep

LEMMA CallerFacts ==
    ASSUME VoiceInv, NEW c \in Callers
    PROVE  c \in Threads /\ loc[c] \in Locals /\ CallerOK(pc[c], loc[c])
BY DEF VoiceInv, Shape, LocalOK, Callers, Threads

(* SubmitOutput but for the acceptance itself; only a caller submits.      *)
LEMMA SubmitStep ==
    ASSUME VoiceInv, NEW t \in Threads,
           \/ SubmitOwn(t) \/ SubmitRejected(t)
           \/ SubmitPut(t) /\ Goto(t, "v_rejected") /\ sink' = sink
    PROVE  VoiceInv'
<1>1. pc[t] \in Submitting
  BY DEF SubmitOwn, SubmitPut, SubmitRejected, At, Submitting
<1>2. t \in Callers
  BY <1>1 DEF VoiceInv, Shape, LocalOK, OtherOK
<1>3. /\ loc[t] \in Locals /\ CallerOK(pc[t], loc[t])
      /\ loc[t].out \in Outputs /\ loc[t].gen \in Gens /\ loc[t].prompt \in BOOLEAN
  <2>1. loc[t] \in Locals /\ CallerOK(pc[t], loc[t])
    BY <1>2, CallerFacts
  <2> QED
    BY <1>1, <2>1 DEF CallerOK, Locals
<1>4. Debt(pc[t], loc[t]) = 0
  BY <1>1 DEF Debt, Submitting, Early, Recovering
<1>5. CASE SubmitOwn(t)
  <2>1. /\ out' = [id |-> loc[t].out.id, gen |-> loc[t].gen, rec |-> loc[t].prompt]
        /\ follow' = FALSE /\ Goto(t, "v_put")
        /\ UNCHANGED <<st, gen, queue, act, lock, ids, sink, loc>>
    BY <1>5 DEF SubmitOwn
  <2>2. loc[t].out.id \in 0 .. MaxId
    BY <1>3, SinkAssumption DEF Outputs
  <2>3. out' \in [id : 0 .. MaxId, gen : Gens, rec : BOOLEAN]
    BY <1>3, <2>1, <2>2
  <2>4. ServiceOK'
    BY <2>1, <2>3 DEF VoiceInv, ServiceOK
  <2>5. CallerOK("v_put", loc[t]) /\ Debt("v_put", loc[t]) = 0
    BY <1>1, <1>3 DEF CallerOK, Debt, Submitting, Early, Recovering
  <2> QED
    BY <1>2, <1>4, <2>1, <2>4, <2>5, CallerMove
<1>6. CASE SubmitPut(t) /\ Goto(t, "v_rejected") /\ sink' = sink
  <2>1. UNCHANGED <<st, gen, out, follow, queue, act, lock, ids, sink, loc>>
    BY <1>6 DEF SubmitPut, Service
  <2>2. ServiceOK'
    BY <2>1 DEF VoiceInv, ServiceOK
  <2>3. CallerOK("v_rejected", loc[t]) /\ Debt("v_rejected", loc[t]) = 0
    BY <1>1, <1>3 DEF CallerOK, Debt, Submitting, Early, Recovering
  <2> QED
    BY <1>2, <1>4, <1>6, <2>1, <2>2, <2>3, CallerMove
<1>7. CASE SubmitRejected(t)
  <2>1. /\ UNCHANGED <<st, gen, follow, queue, act, lock, ids, sink, loc>>
        /\ out' = out \/ out' = NoOut
    BY <1>7 DEF SubmitRejected
  <2>2. ServiceOK'
    BY <2>1, NoOutType DEF VoiceInv, ServiceOK
  <2>3. PICK l : /\ l \in {"b_snap", "e_begin"} /\ Goto(t, l)
                 /\ l = "e_begin" => ~loc[t].prompt
    BY <1>7 DEF SubmitRejected
  <2>4. l \in Tails /\ (l \in Recovering => ~loc[t].prompt)
    BY <2>3 DEF Tails, Recovering
  <2> QED
    BY <1>1, <2>1, <2>2, <2>3, <2>4, TailStep
<1> QED
  BY <1>5, <1>6, <1>7

-----------------------------------------------------------------------------
(* Steps that change the sink.                                             *)
LEMMA SinkStep ==
    ASSUME VoiceInv, NEW t \in Threads, NEW l, NEW v, StepTo(t, l, v),
           v \in Locals, LocalOK(t, l, v), t = "stop" => l \notin StopBegins,
           t \in Callers => Debt(l, v) <= Debt(pc[t], loc[t]),
           UNCHANGED <<st, gen, out, follow, queue, act, lock, ids>>,
           SinkOK', sink.accepted \subseteq sink'.accepted,
           sink'.queue \in Seq(Accepted'), v.todo \in Seq(Accepted'),
           t # "sink" => sink'.active = sink.active,
           t = "sink" /\ l # "idle" => sink'.active \in Accepted'
    PROVE  VoiceInv'
<1>1. /\ Shape' /\ pc'[t] = l /\ loc'[t] = v
      /\ \A u \in Threads \ {t} : pc'[u] = pc[u] /\ loc'[u] = loc[u]
  BY ShapeKept DEF VoiceInv
<1>2. "stop" \in Threads /\ "sink" \in Threads
  BY DEF Threads
<1>3. Accepted \subseteq Accepted'
  BY DEF Accepted
<1>4. ServiceOK'
  BY DEF VoiceInv, ServiceOK
<1>5. StopYet'
  BY <1>1, <1>2 DEF VoiceInv, StopYet
<1>6. PlayingOK'
  BY <1>1, <1>2, <1>3 DEF VoiceInv, PlayingOK
<1>7. QueuedOK'
  <2>1. \A u \in Threads : loc'[u].todo \in Seq(Accepted')
    <3>1. \A u \in Threads : loc[u].todo \in Seq(Accepted')
      BY <1>3, SeqMonotonic DEF VoiceInv, QueuedOK
    <3> QED
      BY <1>1, <3>1
  <2> QED
    BY <2>1 DEF QueuedOK
<1>8. Counted'
  <2>1. /\ ids \in [resp : Nat, reqs : Nat] /\ queue \in Nat /\ ids.reqs <= MaxRequests
        /\ Shape /\ Counted /\ ServiceOK
    BY DEF VoiceInv, ServiceOK, Counted
  <2>2. \A p, w : Debt(p, w) \in Nat
    BY DEF Debt
  <2>3. ids.resp \in Nat /\ ids.reqs \in Nat
    BY <2>1
  <2>4. t \in Callers => ids'.resp + queue' + Debt(l, v) + ids.reqs
                            <= ids.resp + queue + Debt(pc[t], loc[t]) + ids'.reqs
    BY <2>1, <2>2, <2>3
  <2>5. ids'.resp + queue' + ids.reqs <= ids.resp + queue + ids'.reqs
    BY <2>1, <2>3
  <2> QED
    BY <2>1, <2>4, <2>5, CountKept
<1> QED
  BY <1>1, <1>4, <1>5, <1>6, <1>7, <1>8 DEF VoiceInv

LEMMA SinkFacts ==
    ASSUME VoiceInv
    PROVE  /\ sink.queue \in Seq(Outputs) /\ sink.active \in Outputs \cup {NoOutput}
           /\ sink.cancel \in BOOLEAN /\ sink.stop \in BOOLEAN
           /\ sink.accepted \in SUBSET (1 .. MaxId) /\ sink.done \in [1 .. MaxId -> Nat]
           /\ sink.queue \in Seq(Accepted) /\ Len(sink.queue) <= Capacity
           /\ \A i \in 1 .. MaxId : sink.done[i] <= IF i \in sink.accepted THEN 1 ELSE 0
BY DEF VoiceInv, SinkOK, QueuedOK, CompletedAtMostOnce

(* Submit accepts the output of a caller.                                  *)
LEMMA AcceptStep ==
    ASSUME VoiceInv, NEW t \in Threads, SubmitPut(t), SinkAccepts, SinkSubmit(loc[t].out),
           Return(t)
    PROVE  VoiceInv'
<1> DEFINE o == loc[t].out
           l == loc[t].ret
<1>1. pc[t] = "v_put" /\ UNCHANGED <<st, gen, out, follow, queue, act, lock, ids, loc>>
  BY DEF SubmitPut, At, Service
<1>2. t \in Callers
  BY <1>1 DEF VoiceInv, Shape, LocalOK, OtherOK, Submitting
<1>3. loc[t] \in Locals /\ CallerOK("v_put", loc[t])
  BY <1>1, <1>2, CallerFacts
<1>4. o \in Outputs /\ l \in {"idle", "h_done"}
  BY <1>3 DEF CallerOK, Submitting
<1>5. CallerOK(l, loc[t]) /\ Debt(l, loc[t]) = 0 /\ l \notin Submitting
  BY <1>3, <1>4 DEF CallerOK, Debt, Submitting, Early, Recovering
<1>6. StepTo(t, l, loc[t])
  BY <1>1, SameLocals DEF StepTo, Return, Goto, VoiceInv
<1> HIDE DEF o, l
<1>7. sink' = [sink EXCEPT !.queue = Append(sink.queue, o),
                           !.accepted = sink.accepted \cup {o.id}]
  BY DEF SinkSubmit, o
<1>8. o.id \in 1 .. MaxId
  BY <1>4 DEF Outputs
<1>9. /\ sink.queue \in Seq(Outputs) /\ sink.queue \in Seq(Accepted)
      /\ Len(sink.queue) < Capacity /\ Len(sink.queue) \in Nat
  BY SinkFacts, LenProperties DEF SinkAccepts
<1>10. /\ Append(sink.queue, o) \in Seq(Outputs)
       /\ Len(Append(sink.queue, o)) = Len(sink.queue) + 1
  BY <1>4, <1>9, AppendProperties
<1>11. sink' \in [queue : Seq(Outputs), active : Outputs \cup {NoOutput}, cancel : BOOLEAN,
                  stop : BOOLEAN, accepted : SUBSET (1 .. MaxId), done : [1 .. MaxId -> Nat]]
  <2>1. sink.accepted \cup {o.id} \in SUBSET (1 .. MaxId)
    BY <1>8, SinkFacts
  <2> QED
    BY <1>7, <1>10, <2>1 DEF VoiceInv, SinkOK
<1>12. /\ sink'.queue = Append(sink.queue, o) /\ sink'.active = sink.active
       /\ sink'.accepted = sink.accepted \cup {o.id} /\ sink'.done = sink.done
  BY <1>7 DEF VoiceInv, SinkOK
<1>13. SinkOK'
  <2>1. Len(sink'.queue) <= Capacity
    BY <1>9, <1>10, <1>12, SinkAssumption
  <2>2. \A i \in 1 .. MaxId : sink'.done[i] <= IF i \in sink'.accepted THEN 1 ELSE 0
    <3> SUFFICES ASSUME NEW i \in 1 .. MaxId
                 PROVE  sink'.done[i] <= IF i \in sink'.accepted THEN 1 ELSE 0
      OBVIOUS
    <3>1. sink.done[i] \in Nat /\ sink.done[i] <= IF i \in sink.accepted THEN 1 ELSE 0
      BY SinkFacts
    <3> QED
      BY <1>12, <3>1
  <2> QED
    BY <1>11, <2>1, <2>2 DEF SinkOK, CompletedAtMostOnce
<1>14. Accepted \subseteq Accepted' /\ o \in Accepted'
  BY <1>4, <1>12 DEF Accepted
<1>15. sink'.queue \in Seq(Accepted') /\ loc[t].todo \in Seq(Accepted')
  BY <1>9, <1>12, <1>14, SeqMonotonic, AppendProperties DEF VoiceInv, QueuedOK
<1>16. LocalOK(t, l, loc[t]) /\ t # "stop" /\ t # "sink"
  BY <1>2, <1>3, <1>5, CallerGo DEF Callers
<1>17. Debt(pc[t], loc[t]) = 0
  BY <1>1 DEF Debt, Early, Recovering
<1>18. sink.accepted \subseteq sink'.accepted
  BY <1>12
<1> QED
  BY <1>1, <1>3, <1>5, <1>6, <1>12, <1>13, <1>15, <1>16, <1>17, <1>18, SinkStep

(* Complete(o) of an accepted output: the callback runs at most once.      *)
LEMMA CompleteOnce ==
    ASSUME VoiceInv, NEW o \in Accepted, sink' = Complete(o)
    PROVE  /\ SinkOK' /\ Accepted' = Accepted
           /\ sink'.queue = sink.queue /\ sink'.active = sink.active
           /\ sink'.accepted = sink.accepted
<1> DEFINE n == IF sink.done[o.id] = 0 THEN 1 ELSE sink.done[o.id]
           d == [sink.done EXCEPT ![o.id] = n]
<1>1. o.id \in sink.accepted /\ o.id \in 1 .. MaxId
  BY DEF Accepted, Outputs
<1>2. sink.done[o.id] \in Nat /\ sink.done[o.id] <= 1
  BY <1>1, SinkFacts
<1>3. n = 1
  BY <1>2
<1>4. sink' = [sink EXCEPT !.done = d]
  BY DEF Complete, VoiceInv, SinkOK
<1>5. d \in [1 .. MaxId -> Nat] /\ d[o.id] = 1
      /\ \A i \in 1 .. MaxId : i # o.id => d[i] = sink.done[i]
  BY <1>1, <1>3, SinkFacts
<1> HIDE DEF d, n
<1>6. sink' \in [queue : Seq(Outputs), active : Outputs \cup {NoOutput}, cancel : BOOLEAN,
                 stop : BOOLEAN, accepted : SUBSET (1 .. MaxId), done : [1 .. MaxId -> Nat]]
  BY <1>4, <1>5 DEF VoiceInv, SinkOK
<1>7. /\ sink'.queue = sink.queue /\ sink'.active = sink.active
      /\ sink'.accepted = sink.accepted /\ sink'.done = d
  BY <1>4 DEF VoiceInv, SinkOK
<1>8. \A i \in 1 .. MaxId : sink'.done[i] <= IF i \in sink'.accepted THEN 1 ELSE 0
  <2> SUFFICES ASSUME NEW i \in 1 .. MaxId
               PROVE  d[i] <= IF i \in sink.accepted THEN 1 ELSE 0
    BY <1>7
  <2>1. sink.done[i] <= IF i \in sink.accepted THEN 1 ELSE 0
    BY SinkFacts
  <2> QED
    BY <1>1, <1>5, <2>1
<1>9. SinkOK'
  BY <1>6, <1>7, <1>8, SinkFacts DEF SinkOK, CompletedAtMostOnce
<1> QED
  BY <1>7, <1>9 DEF Accepted

(* The callback on the sink's worker.                                      *)
LEMMA CallbackStep ==
    ASSUME VoiceInv, pc["sink"] # "idle",
           NEW r \in Results, NEW ret \in {"s_return", "s_clear"},
           Callback("sink", sink.active, r, ret), UNCHANGED <<st, Service>>
    PROVE  VoiceInv'
<1> DEFINE o == sink.active
           v == [loc["sink"] EXCEPT !.out = o, !.gen = o.gen, !.what = r,
                                    !.prompt = FALSE, !.ret = ret]
           l == IF sink.done[o.id] = 0 THEN "o_result" ELSE ret
<1>0. "sink" \in Threads /\ "sink" \notin Callers
  BY DEF Threads, Callers
<1>1. o \in Accepted /\ o \in Outputs /\ o.gen \in Nat
  BY DEF VoiceInv, PlayingOK, Accepted, Outputs
<1>2. /\ SinkOK' /\ Accepted' = Accepted
      /\ sink'.queue = sink.queue /\ sink'.active = o
      /\ sink'.accepted = sink.accepted
  BY <1>1, CompleteOnce DEF Callback
<1>3. UNCHANGED <<st, gen, out, follow, queue, act, lock, ids>>
  BY DEF Service
<1>4. loc["sink"] \in Locals /\ loc["sink"].todo \in Seq(Accepted)
  BY <1>0 DEF VoiceInv, Shape, QueuedOK
<1> HIDE DEF o
<1>5. v \in Locals /\ ~v.prompt /\ v.ret = ret /\ v.todo = loc["sink"].todo
  <2>1. ret \in Returns
    BY DEF Returns
  <2>2. PICK b \in BOOLEAN : b = FALSE
    OBVIOUS
  <2>3. v = [loc["sink"] EXCEPT !.out = o, !.gen = o.gen, !.what = r,
                                !.prompt = b, !.ret = ret]
    BY <2>2
  <2>4. v \in Locals /\ v.prompt = b /\ v.ret = ret /\ v.todo = loc["sink"].todo
    BY <1>1, <1>4, <2>1, <2>3 DEF Locals
  <2> QED
    BY <2>2, <2>4
<1>6. StepTo("sink", l, v)
  BY <1>0 DEF Callback, StepTo, Goto, o, VoiceInv, Shape
<1> HIDE DEF v
<1>7. l \in {"o_result", "s_return", "s_clear"}
  OBVIOUS
<1> HIDE DEF l
<1>8. LocalOK("sink", l, v)
  BY <1>0, <1>5, <1>7 DEF LocalOK, OtherOK, Submitting
<1>9. sink'.queue \in Seq(Accepted') /\ v.todo \in Seq(Accepted')
  BY <1>2, <1>4, <1>5, SinkFacts
<1>10. sink'.active \in Accepted' /\ sink.accepted \subseteq sink'.accepted
  BY <1>1, <1>2
<1> QED
  BY <1>0, <1>2, <1>3, <1>5, <1>6, <1>8, <1>9, <1>10, SinkStep

LEMMA SinkWorkerStep ==
    ASSUME VoiceInv, SinkPlays \/ SinkPlayed \/ SinkReturns \/ SinkClears
    PROVE  VoiceInv'
<1>0. "sink" \in Threads /\ "sink" \notin Callers /\ Shape
  BY DEF Threads, Callers, VoiceInv
<1>1. CASE SinkPlays
  <2>1. /\ sink.queue # << >>
        /\ sink' = [sink EXCEPT !.active = Head(sink.queue), !.queue = Tail(sink.queue),
                                !.cancel = FALSE]
        /\ UNCHANGED <<st, gen, out, follow, queue, act, lock, ids, loc>>
    BY <1>1 DEF SinkPlays, SinkTake, Service
  <2>2. /\ Head(sink.queue) \in Accepted /\ Tail(sink.queue) \in Seq(Accepted)
        /\ Tail(sink.queue) \in Seq(Outputs) /\ Head(sink.queue) \in Outputs
        /\ Len(Tail(sink.queue)) = Len(sink.queue) - 1 /\ Len(sink.queue) \in Nat
    BY <2>1, SinkFacts, HeadTailProperties, LenProperties
  <2>3. PICK b \in BOOLEAN : b = FALSE
    OBVIOUS
  <2>4. sink' \in [queue : Seq(Outputs), active : Outputs \cup {NoOutput}, cancel : BOOLEAN,
                   stop : BOOLEAN, accepted : SUBSET (1 .. MaxId), done : [1 .. MaxId -> Nat]]
    <3>1. sink' = [sink EXCEPT !.active = Head(sink.queue), !.queue = Tail(sink.queue),
                               !.cancel = b]
      BY <2>1, <2>3
    <3> QED
      BY <2>2, <3>1 DEF VoiceInv, SinkOK
  <2>5. /\ sink'.queue = Tail(sink.queue) /\ sink'.active = Head(sink.queue)
        /\ sink'.accepted = sink.accepted /\ sink'.done = sink.done
    BY <2>1 DEF VoiceInv, SinkOK
  <2>6. SinkOK'
    <3>1. Len(sink'.queue) <= Capacity
      BY <2>2, <2>5, SinkFacts, SinkAssumption
    <3> QED
      BY <2>4, <2>5, <3>1, SinkFacts DEF SinkOK, CompletedAtMostOnce
  <2>7. Accepted' = Accepted
    BY <2>5 DEF Accepted
  <2>8. StepTo("sink", "s_play", loc["sink"])
    BY <1>0, <1>1, <2>1, SameLocals DEF SinkPlays, StepTo, Goto
  <2>9. loc["sink"] \in Locals /\ LocalOK("sink", "s_play", loc["sink"])
    BY <1>0 DEF Shape, LocalOK, OtherOK, Submitting
  <2>10. sink'.queue \in Seq(Accepted') /\ loc["sink"].todo \in Seq(Accepted')
         /\ sink'.active \in Accepted' /\ sink.accepted \subseteq sink'.accepted
    BY <1>0, <2>2, <2>5, <2>7 DEF VoiceInv, QueuedOK
  <2> QED
    BY <1>0, <2>1, <2>6, <2>8, <2>9, <2>10, SinkStep
<1>2. CASE SinkPlayed
  <2>1. PICK r \in Results : Callback("sink", sink.active, r, "s_return")
    BY <1>2 DEF SinkPlayed, Results
  <2>2. pc["sink"] # "idle" /\ UNCHANGED <<st, Service>>
    BY <1>2 DEF SinkPlayed, At
  <2> QED
    BY <2>1, <2>2, CallbackStep
<1>3. CASE SinkReturns
  <2>1. pc["sink"] = "s_return" /\ UNCHANGED <<st, Service>> /\ "failed" \in Results
    BY <1>3 DEF SinkReturns, At, Results
  <2>2. CASE Callback("sink", sink.active, "failed", "s_clear")
    BY <2>1, <2>2, CallbackStep
  <2>3. CASE Goto("sink", "s_clear") /\ UNCHANGED <<sink, loc>>
    <3>1. UNCHANGED <<st, gen, out, follow, queue, act, lock, ids>>
      BY <2>1 DEF Service
    <3>2. ServiceOK'
      BY <3>1 DEF VoiceInv, ServiceOK
    <3>3. MayGo("sink", "s_clear", loc["sink"]) /\ Pays("sink", "s_clear", loc["sink"])
      BY <1>0, <2>1 DEF MayGo, Pays, Shape, LocalOK, OtherOK, Submitting
    <3> QED
      BY <1>0, <2>3, <3>1, <3>2, <3>3, MoveStep
  <2> QED
    BY <1>3, <2>2, <2>3 DEF SinkReturns
<1>4. CASE SinkClears
  <2>1. /\ sink' = [sink EXCEPT !.active = NoOutput, !.cancel = FALSE]
        /\ UNCHANGED <<st, gen, out, follow, queue, act, lock, ids>>
        /\ StepTo("sink", "idle", NoLoc)
    BY <1>4 DEF SinkClears, SinkClearActive, Service, StepTo, Goto
  <2>2. PICK b \in BOOLEAN : b = FALSE
    OBVIOUS
  <2>3. sink' \in [queue : Seq(Outputs), active : Outputs \cup {NoOutput}, cancel : BOOLEAN,
                   stop : BOOLEAN, accepted : SUBSET (1 .. MaxId), done : [1 .. MaxId -> Nat]]
    <3>1. sink' = [sink EXCEPT !.active = NoOutput, !.cancel = b]
      BY <2>1, <2>2
    <3> QED
      BY <3>1 DEF VoiceInv, SinkOK
  <2>4. /\ sink'.queue = sink.queue
        /\ sink'.accepted = sink.accepted /\ sink'.done = sink.done
    BY <2>1 DEF VoiceInv, SinkOK
  <2>5. SinkOK'
    BY <2>3, <2>4, SinkFacts DEF SinkOK, CompletedAtMostOnce
  <2>6. Accepted' = Accepted
    BY <2>4 DEF Accepted
  <2>7. LocalOK("sink", "idle", NoLoc)
    BY <1>0 DEF LocalOK, OtherOK, NoLoc, Submitting
  <2>8. sink'.queue \in Seq(Accepted') /\ NoLoc.todo \in Seq(Accepted')
        /\ sink.accepted \subseteq sink'.accepted
    BY <2>4, <2>6, SinkFacts, EmptySeq DEF NoLoc
  <2> QED
    BY <1>0, <2>1, <2>5, <2>7, <2>8, NoLocType, SinkStep
<1> QED
  BY <1>1, <1>2, <1>3, <1>4

-----------------------------------------------------------------------------
(* HandleOutputResult, Interrupt and Stop.                                 *)

LEMMA OutputResultStep ==
    ASSUME VoiceInv, NEW t \in Threads \ Callers, HandleOutputResult(t)
    PROVE  VoiceInv'
<1>0. Shape /\ ~loc[t].prompt /\ loc[t].ret \notin Recovering
  BY ReturnsLeave DEF VoiceInv, Shape, LocalOK, OtherOK
<1>1. pc[t] \in Tails
  BY DEF HandleOutputResult, OutputResult, OutputCompleted, OutputCancelled, At, Tails
<1>2. CASE OutputResult(t)
  <2>1. /\ UNCHANGED <<st, gen, follow, queue, act, lock, ids, sink, loc>>
        /\ out' = out \/ out' = NoOut
    BY <1>2 DEF OutputResult
  <2>2. ServiceOK'
    BY <2>1, NoOutType DEF VoiceInv, ServiceOK
  <2>3. PICK l : l \in Tails \cup {loc[t].ret} /\ Goto(t, l)
    BY <1>2 DEF OutputResult, Return, Tails, Recovering
  <2> QED
    BY <1>0, <1>1, <2>1, <2>2, <2>3, TailStep
<1>3. CASE At(t, "o_completed") /\ Event(t, "PlaybackCompleted", "o_window", loc[t].ret)
  <2>1. /\ MayGo(t, loc[t].ret, loc[t]) /\ Pays(t, loc[t].ret, loc[t])
        /\ MayGo(t, "o_window", loc[t]) /\ Pays(t, "o_window", loc[t])
    <3>1. "o_window" \in Tails
      BY DEF Tails
    <3> QED
      BY <1>0, <1>1, <3>1, TailGo
  <2>2. "PlaybackCompleted" \in DOMAIN EventTable
    BY DEF EventTable
  <2> QED
    BY <1>3, <2>1, <2>2, EventStep
<1>4. CASE At(t, "o_window") /\ OutputCompleted(t)
  <2>1. /\ UNCHANGED <<st, gen, out, queue, act, lock, ids, sink, loc>> /\ Goto(t, loc[t].ret)
        /\ follow' = (follow \/ (Current(t) /\ st = "follow_up"))
    BY <1>4 DEF OutputCompleted, Return, At
  <2>2. follow' \in BOOLEAN
    BY <2>1, Zenon DEF VoiceInv, ServiceOK
  <2>3. ServiceOK'
    BY <2>1, <2>2 DEF VoiceInv, ServiceOK
  <2> QED
    BY <1>0, <1>1, <2>1, <2>3, TailStep
<1>5. CASE OutputCancelled(t)
  <2>1. /\ MayGo(t, loc[t].ret, loc[t]) /\ Pays(t, loc[t].ret, loc[t])
        /\ MayGo(t, "b_snap", loc[t]) /\ Pays(t, "b_snap", loc[t])
    <3>1. "b_snap" \in Tails
      BY DEF Tails
    <3> QED
      BY <1>0, <1>1, <3>1, TailGo
  <2>2. /\ "CancelRequested" \in DOMAIN EventTable
        /\ Event(t, "CancelRequested", "b_snap", loc[t].ret)
    BY <1>5 DEF EventTable, OutputCancelled
  <2> QED
    BY <2>1, <2>2, EventStep
<1> QED
  BY <1>2, <1>3, <1>4, <1>5 DEF HandleOutputResult, OutputCompleted

(* From one of their own labels to another, Interrupt and Stop keep what   *)
(* they must.                                                              *)
Halting == {"n_read", "n_invalidate", "n_discard", "n_check", "n_cancel", "n_action", "n_sink",
            "n_pending"}

LEMMA HaltGo ==
    ASSUME Shape, NEW t \in {"intr", "stop"},
           NEW l, NEW v \in Locals, ~v.prompt, v.ret # "h_done",
           \/ l \in StopOwn \ StopBegins
           \/ v.ret = "n_pending" /\ l = "o_result"
           \/ t = "intr" /\ l \in Halting \cup {"b_snap", "idle"}
    PROVE  /\ MayGo(t, l, v) /\ Pays(t, l, v) /\ LocalOK(t, l, v)
           /\ t \in Threads /\ t \notin Callers /\ t # "sink"
           /\ t = "stop" => l \notin StopBegins
BY DEF MayGo, Pays, LocalOK, OtherOK, StopOwn, StopBegins, Halting, Submitting, Threads, Callers

LEMMA HaltFacts ==
    ASSUME VoiceInv, NEW t \in {"intr", "stop"}
    PROVE  /\ t \in Threads /\ t \notin Callers /\ Shape
           /\ loc[t] \in Locals /\ ~loc[t].prompt /\ loc[t].ret # "h_done"
           /\ loc[t].todo \in Seq(Accepted)
BY DEF VoiceInv, Shape, LocalOK, OtherOK, QueuedOK, Threads, Callers

LEMMA HaltMoves ==
    ASSUME VoiceInv, NEW t \in {"intr", "stop"},
           \/ InvalidateOutput(t) \/ DiscardPending(t) \/ CancelActionCall(t)
           \/ CancelState(t)
    PROVE  VoiceInv'
<1>0. /\ t \in Threads /\ t \notin Callers /\ Shape
      /\ loc[t] \in Locals /\ ~loc[t].prompt /\ loc[t].ret # "h_done"
  BY HaltFacts
<1>1. CASE CancelState(t)
  <2>1. MayGo(t, "n_action", loc[t]) /\ Pays(t, "n_action", loc[t])
    BY <1>0, HaltGo DEF StopOwn, StopBegins
  <2>2. /\ "CancelRequested" \in DOMAIN EventTable
        /\ Event(t, "CancelRequested", "n_action", "n_action")
    BY <1>1 DEF EventTable, CancelState
  <2> QED
    BY <1>0, <2>1, <2>2, EventStep
<1>2. CASE InvalidateOutput(t) \/ DiscardPending(t) \/ CancelActionCall(t)
  <2>1. /\ UNCHANGED <<st, gen, lock, ids, sink, loc>>
        /\ out' = out \/ out' = NoOut
        /\ follow' = follow \/ follow' = FALSE
        /\ queue' = queue \/ queue' = 0
        /\ act' = act \/ act' = [act EXCEPT !.cancel = @ \/ act.active]
    BY <1>2 DEF InvalidateOutput, DiscardPending, CancelActionCall
  <2>2. act' \in [active : BOOLEAN, cancel : BOOLEAN]
    <3>1. PICK b \in BOOLEAN : b = (act.cancel \/ act.active)
      OBVIOUS
    <3>2. act' = act \/ act' = [act EXCEPT !.cancel = b]
      BY <2>1, <3>1
    <3> QED
      BY <3>2 DEF VoiceInv, ServiceOK
  <2>3. ServiceOK'
    <3>1. out' \in [id : 0 .. MaxId, gen : Gens, rec : BOOLEAN]
      BY <2>1, NoOutType DEF VoiceInv, ServiceOK
    <3>2. follow' \in BOOLEAN
      BY <2>1, Zenon DEF VoiceInv, ServiceOK
    <3>3. queue' \in Nat
      BY <2>1 DEF VoiceInv, ServiceOK
    <3> QED
      BY <2>1, <2>2, <3>1, <3>2, <3>3 DEF VoiceInv, ServiceOK
  <2>4. PICK l : /\ l \in {"n_discard", "n_action", "n_sink"} \/ (t = "intr" /\ l = "n_check")
                 /\ Goto(t, l)
    BY <1>2 DEF InvalidateOutput, DiscardPending, CancelActionCall
  <2>5. MayGo(t, l, loc[t]) /\ Pays(t, l, loc[t])
    BY <1>0, <2>4, HaltGo DEF Halting, StopOwn, StopBegins
  <2> QED
    BY <1>0, <2>1, <2>3, <2>4, <2>5, MoveStep
<1> QED
  BY <1>1, <1>2

(* CancelPending swaps the queue out; each output of it is completed.      *)
LEMMA HaltSink ==
    ASSUME VoiceInv, NEW t \in {"intr", "stop"}, CancelOutput(t) \/ CompletePending(t)
    PROVE  VoiceInv'
<1>0. /\ t \in Threads /\ t \notin Callers /\ Shape
      /\ loc[t] \in Locals /\ ~loc[t].prompt /\ loc[t].ret # "h_done"
      /\ loc[t].todo \in Seq(Accepted)
  BY HaltFacts
<1>s. UNCHANGED <<st, gen, out, follow, queue, act, lock, ids>>
  BY DEF CancelOutput, CompletePending, Service
<1>1. CASE CancelOutput(t)
  <2> DEFINE q == IF sink.stop THEN << >> ELSE sink.queue
             v == [loc[t] EXCEPT !.todo = q]
  <2>1. q \in Seq(Outputs) /\ q \in Seq(Accepted)
    BY SinkFacts, EmptySeq
  <2> HIDE DEF q
  <2>2. /\ v \in Locals /\ v.prompt = loc[t].prompt /\ v.ret = loc[t].ret /\ v.todo = q
    BY <1>0, <2>1 DEF Locals
  <2>3. StepTo(t, "n_pending", v)
    BY <1>0, <1>1 DEF CancelOutput, StepTo, Goto, q, Shape
  <2> HIDE DEF v
  <2>4. PICK b \in BOOLEAN : b = (t = "stop")
    OBVIOUS
  <2>5. PICK d \in BOOLEAN : d = (sink.active # NoOutput)
    OBVIOUS
  <2>6. sink' = sink \/ sink' = [sink EXCEPT !.stop = b, !.queue = << >>, !.cancel = d]
    BY <1>1, <2>4, <2>5 DEF CancelOutput, CancelPending
  <2>7. sink' \in [queue : Seq(Outputs), active : Outputs \cup {NoOutput}, cancel : BOOLEAN,
                   stop : BOOLEAN, accepted : SUBSET (1 .. MaxId), done : [1 .. MaxId -> Nat]]
    BY <2>6, EmptySeq DEF VoiceInv, SinkOK
  <2>8. /\ sink'.queue = sink.queue \/ sink'.queue = << >>
        /\ sink'.accepted = sink.accepted /\ sink'.done = sink.done
        /\ sink'.active = sink.active
    BY <2>6 DEF VoiceInv, SinkOK
  <2>9. SinkOK'
    <3>1. Len(sink'.queue) <= Capacity
      BY <2>8, SinkFacts, SinkAssumption, EmptySeq
    <3> QED
      BY <2>7, <2>8, <3>1, SinkFacts DEF SinkOK, CompletedAtMostOnce
  <2>10. Accepted' = Accepted
    BY <2>8 DEF Accepted
  <2>11. sink'.queue \in Seq(Accepted') /\ v.todo \in Seq(Accepted')
         /\ sink.accepted \subseteq sink'.accepted
    BY <2>1, <2>2, <2>8, <2>10, SinkFacts, EmptySeq
  <2>12. LocalOK(t, "n_pending", v) /\ "n_pending" \notin StopBegins /\ t # "sink"
    BY <1>0, <2>2, HaltGo DEF StopOwn, StopBegins
  <2> QED
    BY <1>0, <1>s, <2>2, <2>3, <2>8, <2>9, <2>11, <2>12, SinkStep
<1>2. CASE CompletePending(t) /\ loc[t].todo # << >>
  <2> DEFINE o == Head(loc[t].todo)
             q == Tail(loc[t].todo)
             v == [NoLoc EXCEPT !.out = o, !.gen = o.gen, !.what = "cancelled",
                                !.todo = q, !.ret = "n_pending"]
  <2>1. o \in Accepted /\ q \in Seq(Accepted)
    BY <1>0, <1>2, HeadTailProperties
  <2>2. o \in Outputs /\ o.gen \in Nat /\ q \in Seq(Outputs)
    <3>1. Accepted \subseteq Outputs
      BY DEF Accepted
    <3>2. o \in Outputs /\ q \in Seq(Outputs)
      BY <2>1, <3>1, SeqMonotonic
    <3> QED
      BY <3>2 DEF Outputs
  <2>3. StepTo(t, "o_result", v) /\ sink' = Complete(o)
    BY <1>0, <1>2 DEF CompletePending, StepTo, Goto, Shape
  <2> HIDE DEF o, q
  <2>4. v \in Locals /\ ~v.prompt /\ v.ret = "n_pending" /\ v.todo = q
    BY <2>2, NoLocType DEF NoLoc, Locals, Results, Returns
  <2> HIDE DEF v
  <2>5. /\ SinkOK' /\ Accepted' = Accepted
        /\ sink'.queue = sink.queue /\ sink'.active = sink.active
        /\ sink'.accepted = sink.accepted
    BY <2>1, <2>3, CompleteOnce
  <2>6. sink'.queue \in Seq(Accepted') /\ v.todo \in Seq(Accepted')
         /\ sink.accepted \subseteq sink'.accepted
    BY <2>1, <2>4, <2>5, SinkFacts
  <2>7. LocalOK(t, "o_result", v) /\ "o_result" \notin StopBegins /\ t # "sink"
    BY <1>0, <2>4, HaltGo DEF StopBegins
  <2> QED
    BY <1>0, <1>s, <2>3, <2>4, <2>5, <2>6, <2>7, SinkStep
<1>3. CASE CompletePending(t) /\ loc[t].todo = << >>
  <2>1. PICK l : /\ l = "t_join" \/ (t = "intr" /\ l = "b_snap")
                 /\ StepTo(t, l, NoLoc)
    BY <1>3 DEF CompletePending, StepTo, Goto
  <2>2. sink' = sink
    BY <1>3 DEF CompletePending
  <2>3. ~NoLoc.prompt /\ NoLoc.ret # "h_done" /\ NoLoc.todo = << >>
    BY DEF NoLoc
  <2>4. MayGo(t, l, NoLoc) /\ Pays(t, l, NoLoc)
    BY <1>0, <2>1, <2>3, NoLocType, HaltGo DEF StopOwn, StopBegins
  <2>5. ServiceOK'
    BY <1>s DEF VoiceInv, ServiceOK
  <2> QED
    BY <1>0, <1>s, <2>1, <2>2, <2>3, <2>4, <2>5, QuietStep
<1> QED
  BY <1>1, <1>2, <1>3

-----------------------------------------------------------------------------
(* HandleTranscript.                                                       *)

(* While the response is owed no prompt is asked for.                      *)
LEMMA EarlyGo ==
    ASSUME VoiceInv, NEW c \in Callers, pc[c] \in Early \ {"h_gen"},
           NEW l \in Early \cup Recovering \cup {"h_done"}
    PROVE  /\ CallerOK(l, loc[c]) /\ Debt(l, loc[c]) <= Debt(pc[c], loc[c])
           /\ c \in Threads /\ MayGo(c, l, loc[c]) /\ Pays(c, l, loc[c])
<1>1. c \in Threads /\ loc[c] \in Locals /\ CallerOK(pc[c], loc[c])
  BY CallerFacts
<1>2. CallerOK(l, loc[c])
  BY <1>1 DEF CallerOK, Early, Recovering, Submitting
<1>3. Debt(l, loc[c]) <= Debt(pc[c], loc[c])
  BY DEF Debt
<1> QED
  BY <1>1, <1>2, <1>3, CallerGo DEF Pays

LEMMA EarlyMove ==
    ASSUME VoiceInv, NEW c \in Callers, pc[c] \in Early \ {"h_gen"},
           NEW l \in Early \cup Recovering \cup {"h_done"}, Goto(c, l),
           UNCHANGED <<gen, ids, queue, sink, loc>>, ServiceOK'
    PROVE  VoiceInv'
BY EarlyGo, CallerMove

LEMMA EarlyEvent ==
    ASSUME VoiceInv, NEW c \in Callers, pc[c] \in Early \ {"h_gen"},
           NEW e \in DOMAIN EventTable,
           NEW yes \in Early \cup Recovering \cup {"h_done"},
           NEW no \in Early \cup Recovering \cup {"h_done"}, Event(c, e, yes, no)
    PROVE  VoiceInv'
BY EarlyGo, EventStep

(* What a provider returned, and that its failure asks for a prompt.       *)
LEMMA EarlyWrite ==
    ASSUME VoiceInv, NEW c \in Callers, pc[c] \in Early \ {"h_gen"},
           NEW l, Goto(c, l),
           \/ /\ l \in Early
              /\ \E w \in Results : loc' = [loc EXCEPT ![c].what = w]
           \/ l = "e_begin" /\ loc' = [loc EXCEPT ![c].prompt = TRUE],
           UNCHANGED <<st, gen, out, follow, queue, act, lock, ids, sink>>
    PROVE  VoiceInv'
<1>1. /\ c \in Threads /\ loc[c] \in Locals /\ CallerOK(pc[c], loc[c])
      /\ loc \in [Threads -> Locals] /\ ~loc[c].prompt
  BY CallerFacts DEF VoiceInv, Shape, CallerOK
<1>2. PICK v : /\ v \in Locals /\ v.gen = loc[c].gen /\ v.out = loc[c].out
               /\ v.todo = loc[c].todo /\ v.ret = loc[c].ret
               /\ v.prompt => l = "e_begin"
               /\ loc' = [loc EXCEPT ![c] = v]
  <2>1. CASE l \in Early /\ \E w \in Results : loc' = [loc EXCEPT ![c].what = w]
    <3>1. PICK w \in Results : loc' = [loc EXCEPT ![c].what = w]
      BY <2>1
    <3> DEFINE v == [loc[c] EXCEPT !.what = w]
    <3>2. /\ v \in Locals /\ v.gen = loc[c].gen /\ v.out = loc[c].out
          /\ v.todo = loc[c].todo /\ v.ret = loc[c].ret /\ v.prompt = loc[c].prompt
      BY <1>1 DEF Locals
    <3>3. loc' = [loc EXCEPT ![c] = v]
      BY <1>1, <3>1
    <3> HIDE DEF v
    <3> QED
      BY <1>1, <3>2, <3>3
  <2>2. CASE l = "e_begin" /\ loc' = [loc EXCEPT ![c].prompt = TRUE]
    <3>1. PICK b \in BOOLEAN : b = TRUE
      OBVIOUS
    <3> DEFINE v == [loc[c] EXCEPT !.prompt = b]
    <3>2. /\ v \in Locals /\ v.gen = loc[c].gen /\ v.out = loc[c].out
          /\ v.todo = loc[c].todo /\ v.ret = loc[c].ret
      BY <1>1 DEF Locals
    <3>3. loc' = [loc EXCEPT ![c] = v]
      BY <1>1, <2>2, <3>1
    <3> HIDE DEF v
    <3> QED
      BY <2>2, <3>2, <3>3
  <2> QED
    BY <2>1, <2>2
<1>3. l \in Early \cup Recovering
  BY DEF Recovering
<1>4. CallerOK(l, v)
  BY <1>1, <1>2, <1>3 DEF CallerOK, Early, Recovering, Submitting
<1>5. Debt(l, v) <= Debt(pc[c], loc[c])
  BY DEF Debt
<1>6. MayGo(c, l, v) /\ Pays(c, l, v) /\ StepTo(c, l, v)
  BY <1>2, <1>4, <1>5, CallerGo DEF Pays, StepTo, Goto
<1>7. ServiceOK'
  BY DEF VoiceInv, ServiceOK
<1> QED
  BY <1>1, <1>2, <1>6, <1>7, QuietStep

LEMMA RequestMoves ==
    ASSUME VoiceInv, NEW c \in Callers,
           \/ LockProcessing(c) \/ BeginRequest(c) \/ Route(c) \/ LlmCheck(c)
           \/ OpenRequest(c) \/ SelectAction(c)
           \/ BeginAction(c) \/ UnselectAction(c) \/ EndAction(c)
    PROVE  VoiceInv'
<1> DEFINE To == Early \cup Recovering \cup {"h_done"}
<1>0. pc[c] \in Early \ {"h_gen"}
  BY DEF LockProcessing, BeginRequest, Route, LlmCheck, OpenRequest, SelectAction, BeginAction,
         UnselectAction, EndAction, At, Early
<1>1. CASE LockProcessing(c) \/ LlmCheck(c) \/ (At(c, "h_begin") /\ BeginRequest(c))
  <2>1. /\ UNCHANGED <<st, gen, out, queue, act, ids, sink, loc>>
        /\ lock' \in {lock, c}
        /\ follow' = follow \/ follow' = (follow /\ st # "follow_up")
    BY <1>1 DEF LockProcessing, LlmCheck, BeginRequest, At, Service
  <2>2. PICK l \in To : Goto(c, l)
    BY <1>1 DEF LockProcessing, LlmCheck, BeginRequest, At, Early
  <2>3. follow' \in BOOLEAN
    BY <2>1, Zenon DEF VoiceInv, ServiceOK
  <2>4. ServiceOK'
    BY <2>1, <2>3 DEF VoiceInv, ServiceOK
  <2> QED
    BY <1>0, <2>1, <2>2, <2>4, EarlyMove
<1>2. CASE BeginAction(c) \/ UnselectAction(c) \/ EndAction(c)
  <2>1. /\ UNCHANGED <<st, gen, out, follow, queue, lock, ids, sink, loc>>
        /\ \/ act' = [active |-> TRUE, cancel |-> FALSE]
           \/ act' = [act EXCEPT !.active = FALSE]
    BY <1>2 DEF BeginAction, UnselectAction, EndAction
  <2>2. PICK l \in To : Goto(c, l)
    BY <1>2 DEF BeginAction, UnselectAction, EndAction, Early, Recovering
  <2>3. act' \in [active : BOOLEAN, cancel : BOOLEAN]
    <3>1. PICK y \in BOOLEAN : y = TRUE
      OBVIOUS
    <3>2. PICK n \in BOOLEAN : n = FALSE
      OBVIOUS
    <3>3. act' = [active |-> y, cancel |-> n] \/ act' = [act EXCEPT !.active = n]
      BY <2>1, <3>1, <3>2
    <3> QED
      BY <3>3 DEF VoiceInv, ServiceOK
  <2>4. ServiceOK'
    BY <2>1, <2>3 DEF VoiceInv, ServiceOK
  <2> QED
    BY <1>0, <2>1, <2>2, <2>4, EarlyMove
<1>3. CASE \/ At(c, "h_segment") /\ Event(c, "SpeechSegmentReady", "h_assist", "h_done")
           \/ Route(c) \/ OpenRequest(c) \/ SelectAction(c)
  <2>1. PICK e \in DOMAIN EventTable : \E yes, no \in To : Event(c, e, yes, no)
    BY <1>3 DEF Route, OpenRequest, SelectAction, EventTable, Early, Recovering
  <2> QED
    BY <1>0, <2>1, EarlyEvent
<1> QED
  BY <1>1, <1>2, <1>3 DEF BeginRequest

LEMMA RequestWrites ==
    ASSUME VoiceInv, NEW c \in Callers,
           \/ AssistantAnswers(c) \/ AssistantCheck(c) \/ SendAction(c) \/ RefuseAction(c)
           \/ ActionResult(c)
    PROVE  VoiceInv'
<1>0. pc[c] \in Early \ {"h_gen"}
  BY DEF AssistantAnswers, AssistantCheck, SendAction, RefuseAction, ActionResult, At, Early
<1>1. UNCHANGED <<st, gen, out, follow, queue, act, lock, ids, sink>>
  BY DEF AssistantAnswers, AssistantCheck, SendAction, RefuseAction, ActionResult, Service
<1>2. ServiceOK'
  BY <1>1 DEF VoiceInv, ServiceOK
<1>3. CASE AssistantAnswers(c) \/ SendAction(c) \/ RefuseAction(c)
  <2>1. PICK l \in {"h_answered", "h_acted"} : Goto(c, l)
    BY <1>3 DEF AssistantAnswers, SendAction, RefuseAction
  <2>2. \E w \in Results : loc' = [loc EXCEPT ![c].what = w]
    BY <1>3 DEF AssistantAnswers, SendAction, RefuseAction, Results
  <2>3. l \in Early
    BY DEF Early
  <2> QED
    BY <1>0, <1>1, <2>1, <2>2, <2>3, EarlyWrite
<1>4. CASE Goto(c, "e_begin") /\ loc' = [loc EXCEPT ![c].prompt = TRUE]
  BY <1>0, <1>1, <1>4, EarlyWrite
<1>5. CASE loc' = loc /\ \E l \in {"h_done", "h_routing", "h_respond"} : Goto(c, l)
  <2>1. PICK l \in {"h_done", "h_routing", "h_respond"} : Goto(c, l)
    BY <1>5
  <2>2. l \in Early \cup Recovering \cup {"h_done"}
    BY DEF Early
  <2> QED
    BY <1>0, <1>1, <1>2, <1>5, <2>1, <2>2, EarlyMove
<1> QED
  BY <1>3, <1>4, <1>5 DEF AssistantCheck, ActionResult, SameLoc

(* A transcript is taken: one that was queued, or a client's own.          *)
LEMMA TakeStep ==
    ASSUME VoiceInv, NEW c \in Callers, TakeTranscript(c)
    PROVE  VoiceInv'
<1>0. /\ c \in Threads /\ loc[c] \in Locals /\ CallerOK("idle", loc[c]) /\ pc[c] = "idle"
      /\ Shape /\ Counted /\ ServiceOK
  BY CallerFacts DEF TakeTranscript, At, VoiceInv
<1>1. CallerOK("h_gen", loc[c])
  BY <1>0 DEF CallerOK, Submitting
<1>2. MayGo(c, "h_gen", loc[c]) /\ LocalOK(c, "h_gen", loc[c]) /\ StepTo(c, "h_gen", loc[c])
  BY <1>0, <1>1, CallerGo, SameLocals DEF TakeTranscript, StepTo, Goto
<1>3. Debt("h_gen", loc[c]) = 1 /\ Debt(pc[c], loc[c]) = 0
  BY <1>0 DEF Debt, Early, Recovering
<1>4. ids.resp \in Nat /\ ids.reqs \in Nat /\ queue \in Nat /\ ids.reqs <= MaxRequests
  BY <1>0 DEF ServiceOK, Counted
<1>5. /\ UNCHANGED <<st, gen, out, follow, act, lock, loc, sink>>
      /\ \/ queue > 0 /\ queue' = queue - 1 /\ ids' = ids
         \/ /\ ids.reqs < MaxRequests
            /\ ids' = [ids EXCEPT !.reqs = ids.reqs + 1] /\ queue' = queue
  BY DEF TakeTranscript
<1>6. /\ ids' \in [resp : Nat, reqs : Nat] /\ queue' \in Nat
      /\ ids'.resp = ids.resp
      /\ \/ ids'.reqs = ids.reqs /\ queue' = queue - 1
         \/ /\ ids'.reqs = ids.reqs + 1 /\ queue' = queue
            /\ ids.reqs < MaxRequests
  BY <1>0, <1>4, <1>5 DEF ServiceOK
<1>7. Counted'
  <2>1. ids'.reqs <= MaxRequests
    BY <1>4, <1>6, VoiceAssumption
  <2>2. ids'.resp + queue' + Debt("h_gen", loc[c]) + ids.reqs
          <= ids.resp + queue + Debt(pc[c], loc[c]) + ids'.reqs
    BY <1>3, <1>4, <1>6
  <2> QED
    BY <1>0, <1>2, <1>6, <2>1, <2>2, CountKept
<1>8. ServiceOK'
  BY <1>0, <1>5, <1>6 DEF ServiceOK
<1> QED
  BY <1>0, <1>2, <1>5, <1>7, <1>8, SinkLeftAlone

LEMMA RequestEnds ==
    ASSUME VoiceInv, NEW c \in Callers,
           ReadGeneration(c) \/ UnlockProcessing(c) \/ Respond(c)
    PROVE  VoiceInv'
<1>0. /\ c \in Threads /\ loc[c] \in Locals /\ CallerOK(pc[c], loc[c])
      /\ loc \in [Threads -> Locals] /\ gen \in Gens /\ gen \in Nat
  BY CallerFacts DEF VoiceInv, Shape, ServiceOK, Gens
<1>1. CASE ReadGeneration(c)
  <2> DEFINE v == [NoLoc EXCEPT !.gen = gen, !.ret = "h_done"]
  <2>1. v \in Locals /\ v.gen = gen /\ v.ret = "h_done" /\ ~v.prompt /\ v.todo = << >>
    BY <1>0, NoLocType DEF NoLoc, Locals, Returns
  <2>2. /\ StepTo(c, "h_lock", v) /\ pc[c] = "h_gen"
        /\ UNCHANGED <<st, gen, out, follow, queue, act, lock, ids, sink>>
    BY <1>1 DEF ReadGeneration, StepTo, Goto, At, Service
  <2> HIDE DEF v
  <2>3. CallerOK("h_lock", v) /\ Debt("h_lock", v) <= Debt(pc[c], loc[c])
    BY <1>0, <2>1, <2>2 DEF CallerOK, Debt, Early, Submitting
  <2>4. MayGo(c, "h_lock", v) /\ Pays(c, "h_lock", v)
    BY <2>1, <2>3, CallerGo DEF Pays
  <2>5. ServiceOK'
    BY <2>2 DEF VoiceInv, ServiceOK
  <2> QED
    BY <1>0, <2>1, <2>2, <2>4, <2>5, QuietStep
<1>2. CASE UnlockProcessing(c)
  <2>1. /\ StepTo(c, "idle", NoLoc) /\ lock' = "none"
        /\ UNCHANGED <<st, gen, out, follow, queue, act, ids, sink>>
    BY <1>2 DEF UnlockProcessing, StepTo, Goto
  <2>2. NoLoc.gen \in Gens /\ NoLoc.ret = "idle" /\ NoLoc.todo = << >>
    BY VoiceAssumption DEF NoLoc, Gens
  <2>3. CallerOK("idle", NoLoc) /\ Debt("idle", NoLoc) <= Debt(pc[c], loc[c])
    BY <2>2 DEF CallerOK, Debt, Early, Recovering, Submitting
  <2>4. MayGo(c, "idle", NoLoc) /\ Pays(c, "idle", NoLoc)
    BY <2>3, NoLocType, CallerGo DEF Pays
  <2>5. ServiceOK'
    BY <2>1 DEF VoiceInv, ServiceOK
  <2> QED
    BY <1>0, <2>1, <2>2, <2>4, <2>5, QuietStep
<1>3. CASE At(c, "h_respond") /\ Respond(c)
  <2>1. pc[c] = "h_respond" /\ ~loc[c].prompt
    BY <1>0, <1>3 DEF At, CallerOK, Early
  <2>2. /\ Publish(c) /\ UNCHANGED <<st, gen, out, follow, queue, act, lock, sink>>
        /\ \E l \in {"h_speak", "b_snap"} : Goto(c, l)
    BY <2>1, <1>3 DEF Respond, At
  <2> QED
    BY <2>1, <2>2, PublishStep
<1>4. CASE At(c, "h_speak") /\ Event(c, "ResponseReady", "v_own", "e_begin")
  <2>1. ~loc[c].prompt /\ loc[c].out \in Outputs
    BY <1>0, <1>4 DEF CallerOK, At
  <2>2. CallerOK("v_own", loc[c]) /\ CallerOK("e_begin", loc[c])
    BY <1>0, <2>1 DEF CallerOK, Early, Submitting
  <2>3. Debt("v_own", loc[c]) = 0 /\ Debt("e_begin", loc[c]) = 0 /\ Debt(pc[c], loc[c]) \in Nat
    BY <2>1 DEF Debt, Early, Recovering
  <2>4. /\ MayGo(c, "v_own", loc[c]) /\ MayGo(c, "e_begin", loc[c])
        /\ Pays(c, "v_own", loc[c]) /\ Pays(c, "e_begin", loc[c])
    BY <1>0, <2>2, <2>3, CallerGo DEF Pays
  <2>5. "ResponseReady" \in DOMAIN EventTable
    BY DEF EventTable
  <2> QED
    BY <1>0, <1>4, <2>4, <2>5, EventStep
<1> QED
  BY <1>1, <1>2, <1>3, <1>4 DEF Respond

LEMMA ExpireStep ==
    ASSUME VoiceInv, ExpireFollowUp
    PROVE  VoiceInv'
<1> DEFINE c == "worker"
<1>0. /\ c \in Threads /\ c \in Callers /\ loc[c] \in Locals /\ CallerOK(pc[c], loc[c])
      /\ loc \in [Threads -> Locals] /\ gen \in Gens /\ gen \in Nat
  <2>1. c \in Callers
    BY DEF Callers
  <2> QED
    BY <2>1, CallerFacts DEF VoiceInv, Shape, ServiceOK, Gens
<1>1. CASE /\ At(c, "idle") /\ follow' = FALSE /\ Goto(c, "f_check")
           /\ loc' = [loc EXCEPT ![c].gen = gen]
           /\ UNCHANGED <<st, gen, out, queue, act, lock, ids, sink>>
  <2> DEFINE v == [loc[c] EXCEPT !.gen = gen]
  <2>1. /\ v \in Locals /\ v.gen = gen /\ v.ret = loc[c].ret /\ v.todo = loc[c].todo
    BY <1>0 DEF Locals
  <2>2. StepTo(c, "f_check", v)
    BY <1>0, <1>1 DEF StepTo, Goto
  <2> HIDE DEF v
  <2>3. CallerOK("f_check", v) /\ Debt("f_check", v) <= Debt(pc[c], loc[c])
    BY <1>0, <2>1 DEF CallerOK, Debt, Early, Recovering, Submitting
  <2>4. MayGo(c, "f_check", v) /\ Pays(c, "f_check", v)
    BY <1>0, <2>1, <2>3, CallerGo DEF Pays
  <2>5. ServiceOK'
    BY <1>1 DEF VoiceInv, ServiceOK
  <2> QED
    BY <1>0, <1>1, <2>1, <2>2, <2>4, <2>5, QuietStep
<1>2. CASE /\ loc' = [loc EXCEPT ![c] = NoLoc] /\ \E l \in {"f_expire", "idle"} : Goto(c, l)
           /\ UNCHANGED <<st, Service, sink>>
  <2>1. PICK l \in {"f_expire", "idle"} : StepTo(c, l, NoLoc)
    BY <1>2 DEF StepTo, Goto
  <2>2. NoLoc.gen \in Gens /\ NoLoc.ret = "idle" /\ NoLoc.todo = << >>
    BY VoiceAssumption DEF NoLoc, Gens
  <2>3. CallerOK(l, NoLoc) /\ Debt(l, NoLoc) <= Debt(pc[c], loc[c])
    BY <2>2 DEF CallerOK, Debt, Early, Recovering, Submitting
  <2>4. MayGo(c, l, NoLoc) /\ Pays(c, l, NoLoc)
    BY <1>0, <2>3, NoLocType, CallerGo DEF Pays
  <2>5. UNCHANGED <<st, gen, out, follow, queue, act, lock, ids, sink>>
    BY <1>2 DEF Service
  <2>6. ServiceOK'
    BY <2>5 DEF VoiceInv, ServiceOK
  <2> QED
    BY <1>0, <2>1, <2>2, <2>4, <2>5, <2>6, QuietStep
<1>3. CASE Event(c, "FollowUpExpired", "idle", "idle")
  <2>1. CallerOK("idle", loc[c]) /\ Debt("idle", loc[c]) <= Debt(pc[c], loc[c])
    BY <1>0 DEF CallerOK, Debt, Early, Recovering, Submitting
  <2>2. MayGo(c, "idle", loc[c]) /\ Pays(c, "idle", loc[c])
    BY <1>0, <2>1, CallerGo DEF Pays
  <2>3. "FollowUpExpired" \in DOMAIN EventTable
    BY DEF EventTable
  <2> QED
    BY <1>0, <1>3, <2>2, <2>3, EventStep
<1> QED
  BY <1>1, <1>2, <1>3 DEF ExpireFollowUp

-----------------------------------------------------------------------------
(* The wake word gate, the steps of Interrupt and Stop that are their own, *)
(* and the environment.                                                    *)

LEMMA GateGo ==
    ASSUME VoiceInv, NEW t \in {"gate", "prompt"}, NEW l, l \notin Submitting
    PROVE  t \in Threads /\ MayGo(t, l, loc[t]) /\ Pays(t, l, loc[t])
<1>1. t \in Threads /\ t \notin Callers /\ t # "stop" /\ t # "sink"
  BY DEF Threads, Callers
<1>2. loc[t] \in Locals /\ LocalOK(t, pc[t], loc[t])
  BY <1>1 DEF VoiceInv, Shape
<1> QED
  BY <1>1, <1>2 DEF MayGo, Pays, LocalOK, OtherOK

LEMMA GateStep ==
    ASSUME VoiceInv,
           \/ HearWakeWord \/ NotifyWakeWordDetected \/ StartWakePrompt
           \/ PromptPlayed \/ PromptNotify \/ NotifyWakePromptCompleted
           \/ NotifyWakePromptFailed("gate") \/ NotifyWakePromptFailed("prompt")
    PROVE  VoiceInv'
<1> DEFINE Labels == {"g_notify", "w_failed", "p_done", "p_failed", "p_notify", "idle", "g_prompt",
                      "b_snap"}
<1>0. \A l \in Labels : l \notin Submitting
  BY DEF Submitting
<1>1. CASE \/ NotifyWakeWordDetected \/ NotifyWakePromptCompleted
           \/ NotifyWakePromptFailed("gate") \/ NotifyWakePromptFailed("prompt")
  <2>1. PICK t \in {"gate", "prompt"}, e \in DOMAIN EventTable :
               \E yes, no \in Labels : Event(t, e, yes, no)
    BY <1>1 DEF NotifyWakeWordDetected, NotifyWakePromptCompleted, NotifyWakePromptFailed,
                EventTable
  <2> QED
    BY <1>0, <2>1, GateGo, EventStep
<1>2. CASE \/ HearWakeWord \/ PromptPlayed \/ PromptNotify
           \/ StartWakePrompt /\ Goto("gate", "w_failed")
  <2>1. UNCHANGED <<st, gen, out, follow, queue, act, lock, ids, sink, loc>>
    BY <1>2 DEF HearWakeWord, PromptPlayed, PromptNotify, StartWakePrompt, Service
  <2>2. PICK t \in {"gate", "prompt"} : \E l \in Labels : Goto(t, l)
    BY <1>2 DEF HearWakeWord, PromptPlayed, PromptNotify, StartWakePrompt
  <2>3. ServiceOK'
    BY <2>1 DEF VoiceInv, ServiceOK
  <2> QED
    BY <1>0, <2>1, <2>2, <2>3, GateGo, MoveStep
<1>3. CASE StartWakePrompt /\ pc' = [pc EXCEPT !["prompt"] = "p_play", !["gate"] = "idle"]
  <2>1. UNCHANGED <<st, gen, out, follow, queue, act, lock, ids, sink, loc>>
    BY <1>3 DEF StartWakePrompt, Service
  <2>2. /\ DOMAIN pc' = Threads
        /\ pc'["worker"] = pc["worker"] /\ pc'["rpc"] = pc["rpc"]
        /\ pc'["sink"] = pc["sink"] /\ pc'["stop"] = pc["stop"]
        /\ pc'["intr"] = pc["intr"] /\ pc'["prompt"] = "p_play" /\ pc'["gate"] = "idle"
    <3> DEFINE p == [pc EXCEPT !["prompt"] = "p_play"]
    <3>1. /\ DOMAIN p = Threads /\ p["prompt"] = "p_play"
          /\ \A u \in Threads : u # "prompt" => p[u] = pc[u]
      BY DEF VoiceInv, Shape, Threads
    <3>2. pc' = [p EXCEPT !["gate"] = "idle"]
      BY <1>3
    <3> HIDE DEF p
    <3>3. /\ DOMAIN pc' = Threads /\ pc'["gate"] = "idle"
          /\ \A u \in Threads : u # "gate" => pc'[u] = p[u]
      BY <3>1, <3>2 DEF Threads
    <3>4. "prompt" \in Threads /\ "prompt" # "gate"
      BY DEF Threads
    <3>5. \A u \in {"worker", "rpc", "sink", "stop", "intr"} :
            u \in Threads /\ u # "gate" /\ u # "prompt"
      BY DEF Threads, Callers
    <3>6. \A u \in {"worker", "rpc", "sink", "stop", "intr"} : pc'[u] = pc[u]
      BY <3>1, <3>3, <3>5
    <3>7. pc'["prompt"] = "p_play"
      BY <3>1, <3>3, <3>4
    <3> QED
      BY <3>3, <3>6, <3>7
  <2>3. \A u \in Threads : LocalOK(u, pc[u], loc[u])
    BY DEF VoiceInv, Shape
  <2>4. LocalOK("prompt", "p_play", loc["prompt"]) /\ LocalOK("gate", "idle", loc["gate"])
    BY GateGo DEF MayGo, Submitting
  <2>5. \A u \in Threads : LocalOK(u, pc'[u], loc[u])
    BY <2>2, <2>3, <2>4 DEF Threads, Callers
  <2>6. Shape'
    BY <2>1, <2>2, <2>5 DEF VoiceInv, Shape
  <2>7. ServiceOK' /\ SinkOK' /\ QueuedOK'
    BY <2>1 DEF VoiceInv, ServiceOK, SinkOK, CompletedAtMostOnce, QueuedOK, Accepted
  <2>8. StopYet' /\ PlayingOK' /\ Counted'
    BY <2>1, <2>2 DEF VoiceInv, StopYet, PlayingOK, Accepted, Counted
  <2> QED
    BY <2>6, <2>7, <2>8 DEF VoiceInv
<1> QED
  BY <1>1, <1>2, <1>3 DEF StartWakePrompt

LEMMA InterruptStep ==
    ASSUME VoiceInv, CallInterrupt \/ InterruptRead \/ InterruptCheck
    PROVE  VoiceInv'
<1>0. /\ "intr" \in Threads /\ "intr" \notin Callers /\ Shape
      /\ loc["intr"] \in Locals /\ ~loc["intr"].prompt /\ loc["intr"].ret # "h_done"
  BY HaltFacts
<1>1. CASE CallInterrupt
  <2>1. /\ UNCHANGED <<st, out, follow, queue, act, lock, ids, sink, loc>>
        /\ gen' = gen + 1 /\ gen < MaxInterrupts /\ gen \in Nat
    BY <1>1 DEF CallInterrupt, VoiceInv, ServiceOK, Gens
  <2>2. gen' \in Gens /\ gen' <= MaxInterrupts
    BY <2>1, VoiceAssumption DEF Gens
  <2>3. ServiceOK'
    BY <2>1, <2>2 DEF VoiceInv, ServiceOK
  <2>4. MayGo("intr", "n_read", loc["intr"])
    BY <1>0, HaltGo DEF Halting
  <2>5. StepTo("intr", "n_read", loc["intr"])
    BY <1>0, <1>1, <2>1, SameLocals DEF CallInterrupt, StepTo, Goto
  <2>6. Counted'
    <3>1. /\ ids \in [resp : Nat, reqs : Nat] /\ queue \in Nat /\ ids.reqs <= MaxRequests
          /\ Counted /\ ServiceOK
      BY DEF VoiceInv, ServiceOK, Counted
    <3>2. ids'.resp + queue' + ids.reqs <= ids.resp + queue + ids'.reqs
      BY <2>1, <3>1
    <3>3. LocalOK("intr", "n_read", loc["intr"])
      BY <2>4 DEF MayGo
    <3> QED
      BY <1>0, <2>1, <2>5, <3>1, <3>2, <3>3, CountKept
  <2> QED
    BY <1>0, <2>1, <2>2, <2>3, <2>4, <2>5, <2>6, SinkLeftAlone
<1>2. CASE InterruptRead
  <2> DEFINE w == IF out.id # 0 THEN "active" ELSE "none"
             v == [NoLoc EXCEPT !.what = w]
  <2>1. w \in Results
    BY DEF Results
  <2>2. StepTo("intr", "n_invalidate", v)
    BY <1>2 DEF InterruptRead, StepTo, Goto
  <2> HIDE DEF w
  <2>3. v \in Locals /\ ~v.prompt /\ v.ret = "idle" /\ v.todo = << >>
    BY <2>1, NoLocType DEF NoLoc, Locals
  <2> HIDE DEF v
  <2>4. UNCHANGED <<st, gen, out, follow, queue, act, lock, ids, sink>>
    BY <1>2 DEF InterruptRead, Service
  <2>5. ServiceOK'
    BY <2>4 DEF VoiceInv, ServiceOK
  <2>6. MayGo("intr", "n_invalidate", v) /\ Pays("intr", "n_invalidate", v)
    BY <1>0, <2>3, HaltGo DEF Halting
  <2> QED
    BY <1>0, <2>2, <2>3, <2>4, <2>5, <2>6, QuietStep
<1>3. CASE InterruptCheck
  <2>1. UNCHANGED <<st, gen, out, follow, queue, act, lock, ids, sink, loc>>
    BY <1>3 DEF InterruptCheck, Service
  <2>2. PICK l \in Halting \cup {"idle"} : Goto("intr", l)
    BY <1>3 DEF InterruptCheck, Halting
  <2>3. ServiceOK'
    BY <2>1 DEF VoiceInv, ServiceOK
  <2>4. MayGo("intr", l, loc["intr"]) /\ Pays("intr", l, loc["intr"])
    BY <1>0, HaltGo
  <2> QED
    BY <1>0, <2>1, <2>2, <2>3, <2>4, MoveStep
<1> QED
  BY <1>1, <1>2, <1>3

LEMMA StopStep ==
    ASSUME VoiceInv, CallStop \/ StopState \/ StopGeneration \/ StopJoins
    PROVE  VoiceInv'
<1>0. /\ "stop" \in Threads /\ "stop" \notin Callers /\ Shape
      /\ loc["stop"] \in Locals /\ ~loc["stop"].prompt /\ loc["stop"].ret # "h_done"
  BY HaltFacts
<1>1. \A l \in StopOwn : (l \in StopBegins => pc["stop"] \in StopBegins)
                         => MayGo("stop", l, loc["stop"]) /\ Pays("stop", l, loc["stop"])
  BY <1>0 DEF MayGo, Pays, LocalOK, OtherOK, StopOwn, StopBegins, Submitting
<1>2. CASE CallStop \/ StopJoins
  <2>1. UNCHANGED <<st, gen, out, follow, queue, act, lock, ids, sink, loc>>
    BY <1>2 DEF CallStop, StopJoins, Service
  <2>2. PICK l \in StopOwn : Goto("stop", l) /\ (l \in StopBegins => pc["stop"] \in StopBegins)
    BY <1>2 DEF CallStop, StopJoins, StopOwn, StopBegins, At
  <2>3. ServiceOK'
    BY <2>1 DEF VoiceInv, ServiceOK
  <2> QED
    BY <1>0, <1>1, <2>1, <2>2, <2>3, MoveStep
<1>3. CASE StopState
  <2>1. /\ Event("stop", "ShutdownRequested", "t_gen", "t_gen")
        /\ "ShutdownRequested" \in DOMAIN EventTable
        /\ pc["stop"] \in StopBegins /\ "t_gen" \in StopOwn
    BY <1>3 DEF StopState, At, EventTable, StopBegins, StopOwn
  <2> QED
    BY <1>0, <1>1, <2>1, EventStep
<1>4. CASE StopGeneration
  <2>1. /\ UNCHANGED <<st, out, follow, queue, act, lock, ids, sink, loc>>
        /\ gen' = gen + 1 /\ gen <= MaxInterrupts /\ gen \in Nat
    BY <1>4 DEF StopGeneration, VoiceInv, ServiceOK, Gens, StopYet, StopBegins, At
  <2>2. gen' \in Gens
    BY <2>1, VoiceAssumption DEF Gens
  <2>3. ServiceOK'
    BY <2>1, <2>2 DEF VoiceInv, ServiceOK
  <2>4. MayGo("stop", "n_invalidate", loc["stop"]) /\ "n_invalidate" \notin StopBegins
    BY <1>0, <1>1 DEF StopOwn, StopBegins
  <2>5. StepTo("stop", "n_invalidate", loc["stop"])
    BY <1>0, <1>4, <2>1, SameLocals DEF StopGeneration, StepTo, Goto
  <2>6. LocalOK("stop", "n_invalidate", loc["stop"])
    BY <2>4 DEF MayGo
  <2>7. /\ Shape' /\ pc'["stop"] = "n_invalidate" /\ pc'["sink"] = pc["sink"]
    BY <1>0, <2>5, <2>6, ShapeKept DEF Threads
  <2>8. Counted'
    <3>1. /\ ids \in [resp : Nat, reqs : Nat] /\ queue \in Nat /\ ids.reqs <= MaxRequests
          /\ Counted /\ ServiceOK
      BY DEF VoiceInv, ServiceOK, Counted
    <3>2. ids'.resp + queue' + ids.reqs <= ids.resp + queue + ids'.reqs
      BY <2>1, <3>1
    <3> QED
      BY <1>0, <2>1, <2>5, <2>6, <3>1, <3>2, CountKept
  <2>9. QueuedOK' /\ SinkOK'
    BY <2>1 DEF VoiceInv, QueuedOK, SinkOK, Accepted, CompletedAtMostOnce
  <2>10. StopYet' /\ PlayingOK'
    BY <2>1, <2>4, <2>7 DEF VoiceInv, StopYet, PlayingOK, Accepted
  <2> QED
    BY <2>3, <2>7, <2>8, <2>9, <2>10 DEF VoiceInv
<1> QED
  BY <1>2, <1>3, <1>4

LEMMA SubmitTranscriptStep ==
    ASSUME VoiceInv, SubmitTranscript
    PROVE  VoiceInv'
<1>1. /\ UNCHANGED <<st, gen, out, follow, act, lock, pc, loc, sink>>
      /\ ids.reqs < MaxRequests /\ queue' = queue + 1
      /\ ids' = [ids EXCEPT !.reqs = ids.reqs + 1]
  BY DEF SubmitTranscript
<1>2. ids \in [resp : Nat, reqs : Nat] /\ queue \in Nat
  BY DEF VoiceInv, ServiceOK
<1>3. /\ ids' \in [resp : Nat, reqs : Nat] /\ queue' \in Nat
      /\ ids'.resp = ids.resp /\ ids'.reqs = ids.reqs + 1
  BY <1>1, <1>2
<1>4. ServiceOK'
  BY <1>1, <1>3 DEF VoiceInv, ServiceOK
<1>5. Counted'
  <2>1. \A p, w : Debt(p, w) \in Nat
    BY DEF Debt
  <2> QED
    BY <1>1, <1>2, <1>3, <2>1, VoiceAssumption DEF VoiceInv, Counted
<1>6. Shape' /\ StopYet' /\ PlayingOK' /\ QueuedOK' /\ SinkOK'
  BY <1>1 DEF VoiceInv, Shape, StopYet, PlayingOK, QueuedOK, SinkOK, Accepted,
              CompletedAtMostOnce
<1> QED
  BY <1>4, <1>5, <1>6 DEF VoiceInv

-----------------------------------------------------------------------------
LEMMA VoiceInit ==
    ASSUME Init
    PROVE  VoiceInv
<1>1. /\ DOMAIN pc = Threads /\ \A t \in Threads : pc[t] = "idle" /\ loc[t] = NoLoc
      /\ loc \in [Threads -> Locals]
  BY NoLocType DEF Init
<1>2. NoLoc.gen \in Gens /\ NoLoc.ret = "idle" /\ NoLoc.todo = << >> /\ ~NoLoc.prompt
  BY VoiceAssumption DEF NoLoc, Gens
<1>3. \A t \in Threads : LocalOK(t, "idle", NoLoc)
  BY <1>2 DEF LocalOK, CallerOK, OtherOK, Early, Submitting, StopOwn, StopBegins
<1>4. Shape
  BY <1>1, <1>3 DEF Shape
<1>5. /\ sink.queue = << >> /\ sink.accepted = {} /\ sink.done = [i \in 1 .. MaxId |-> 0]
  BY DEF Init, SinkInit
<1>6. sink \in [queue : Seq(Outputs), active : Outputs \cup {NoOutput}, cancel : BOOLEAN,
                stop : BOOLEAN, accepted : SUBSET (1 .. MaxId), done : [1 .. MaxId -> Nat]]
  BY EmptySeq DEF Init, SinkInit
<1>7. SinkOK
  BY <1>5, <1>6, SinkAssumption, EmptySeq DEF SinkOK, CompletedAtMostOnce
<1>8. QueuedOK
  <2>1. << >> \in Seq(Accepted)
    BY EmptySeq
  <2> QED
    BY <1>1, <1>2, <1>5, <2>1 DEF QueuedOK
<1>9. PlayingOK /\ StopYet
  BY <1>1, VoiceAssumption DEF PlayingOK, StopYet, Threads, Init
<1>10. Counted
  <2>1. Debt("idle", NoLoc) = 0
    BY DEF Debt, Early, Recovering
  <2> QED
    BY <1>1, <2>1, VoiceAssumption DEF Counted, Init, Threads, Callers
<1>11. ServiceOK
  <2>1. 0 \in Gens /\ "idle" \in InteractionState
    BY VoiceAssumption DEF Gens, InteractionState
  <2>2. act \in [active : BOOLEAN, cancel : BOOLEAN]
    BY DEF Init
  <2>3. ids \in [resp : Nat, reqs : Nat]
    BY DEF Init
  <2>4. follow \in BOOLEAN
    BY Zenon DEF Init
  <2> QED
    BY <2>1, <2>2, <2>3, <2>4, NoOutType DEF ServiceOK, Init
<1> QED
  BY <1>4, <1>7, <1>8, <1>9, <1>10, <1>11 DEF VoiceInv

LEMMA SharedStep ==
    ASSUME VoiceInv, NEW t \in Threads, Shared(t)
    PROVE  VoiceInv'
<1>1. CASE SubmitPut(t)
  <2>1. \/ SinkAccepts /\ SinkSubmit(loc[t].out) /\ Return(t)
        \/ Goto(t, "v_rejected") /\ sink' = sink
    BY <1>1 DEF SubmitPut
  <2> QED
    BY <1>1, <2>1, AcceptStep, SubmitStep
<1> QED
  BY <1>1, ReturnToIdleStep, RecoverStep, RecoverPromptStep, SubmitStep DEF Shared

LEMMA VoiceNext ==
    ASSUME VoiceInv, [Next]_vars
    PROVE  VoiceInv'
<1>0. /\ Callers \subseteq Threads
      /\ {"sink", "intr", "stop", "gate", "prompt"} \subseteq Threads \ Callers
  BY DEF Callers, Threads
<1>1. CASE \E c \in Callers : Caller(c)
  <2>1. PICK c \in Callers : Caller(c)
    BY <1>1
  <2>2. CASE HandleTranscript(c)
    BY <2>2, TakeStep, RequestMoves, RequestWrites, RequestEnds DEF HandleTranscript
  <2> QED
    BY <1>0, <2>1, <2>2, SharedStep, ExpireStep DEF Caller
<1>2. CASE Sink
  BY <1>0, <1>2, SinkWorkerStep, OutputResultStep, SharedStep DEF Sink
<1>3. CASE Interrupt
  BY <1>0, <1>3, InterruptStep, HaltMoves, HaltSink, OutputResultStep, SharedStep
     DEF Interrupt, InterruptOrStop
<1>4. CASE Stop
  BY <1>0, <1>4, StopStep, HaltMoves, HaltSink, OutputResultStep, SharedStep
     DEF Stop, InterruptOrStop
<1>5. CASE Gate
  BY <1>0, <1>5, GateStep, SharedStep DEF Gate
<1>6. CASE Prompt
  BY <1>0, <1>6, GateStep, SharedStep DEF Prompt
<1>7. CASE Environment
  BY <1>7, SubmitTranscriptStep, InterruptStep, StopStep, GateStep DEF Environment
<1>8. CASE UNCHANGED vars
  <2>1. UNCHANGED <<st, gen, out, follow, queue, act, lock, ids, pc, loc, sink>>
    BY <1>8 DEF vars
  <2> QED
    BY <2>1 DEF VoiceInv, Shape, StopYet, PlayingOK, QueuedOK, SinkOK, ServiceOK, Counted,
                Accepted, CompletedAtMostOnce
<1> QED
  BY <1>1, <1>2, <1>3, <1>4, <1>5, <1>6, <1>7, <1>8 DEF Next

(* The invariant that carries the two theorems below: a caller publishes   *)
(* one response for each transcript it took, and whatever the sink queues, *)
(* has swapped out or plays is an output that Submit accepted.             *)
THEOREM VoiceInvariant == Spec => []VoiceInv
BY VoiceInit, VoiceNext, PTL DEF Spec

(* Submit's contract, from async_voice_response_sink.cc: with any number   *)
(* of callers, interrupts and a Stop racing the playback worker, the       *)
(* callback of an output runs at most once, and never for an output that   *)
(* Submit turned down.                                                     *)
THEOREM CallbackAtMostOnce == Spec => []CompletedAtMostOnce
<1>1. VoiceInv => CompletedAtMostOnce
  BY DEF VoiceInv, SinkOK
<1> QED
  BY <1>1, VoiceInvariant, PTL

(* The service keeps its types: the sink's queue never exceeds capacity_,  *)
(* no more responses are published than transcripts came in, and the       *)
(* interrupt generation passes the interrupts by the one of Stop at most.  *)
THEOREM VoiceTypes == Spec => []TypeOK
<1>1. VoiceInv => TypeOK
  <2> SUFFICES ASSUME VoiceInv PROVE TypeOK
    OBVIOUS
  <2>1. SinkTypeOK
    BY SinkFacts DEF SinkTypeOK
  <2>2. DOMAIN pc = Threads /\ DOMAIN loc = Threads
    BY DEF VoiceInv, Shape
  <2>3. queue \in 0 .. MaxRequests /\ ids \in [resp : 0 .. MaxId, reqs : 0 .. MaxRequests]
    <3>1. \A p, w : Debt(p, w) \in Nat
      BY DEF Debt
    <3>2. ids \in [resp : Nat, reqs : Nat] /\ queue \in Nat
      BY DEF VoiceInv, ServiceOK
    <3>3. ids.reqs <= MaxRequests /\ queue <= ids.reqs /\ ids.resp <= ids.reqs
      BY <3>1, <3>2, VoiceAssumption DEF VoiceInv, Counted
    <3>4. ids.resp \in 0 .. MaxId /\ ids.reqs \in 0 .. MaxRequests
      BY <3>2, <3>3, VoiceAssumption, SinkAssumption
    <3> QED
      BY <3>2, <3>3, <3>4, VoiceAssumption
  <2> QED
    BY <2>1, <2>2, <2>3 DEF TypeOK, VoiceInv, ServiceOK, Gens
<1> QED
  BY <1>1, VoiceInvariant, PTL
=============================================================================
