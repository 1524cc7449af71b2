---------------------------- MODULE VehicleStreams ----------------------------
(***************************************************************************)
(* Vehicle data on its way from the CAN bus to the screen: the driver's    *)
(* worker and gRPC server, the subscribers of the gateway and of the       *)
(* recorder, the gateway's own server, and its clients, the HMI's stream   *)
(* and the question of the voice service.  Driver and gateway may stop,    *)
(* fail and be started again, streams break at any time, and a stop of a   *)
(* client comes at any point of its loop.                                  *)
(***************************************************************************)
EXTENDS Naturals, Sequences, SequencesExt, Scene

CONSTANTS
    MaxWall,     \* bound: milliseconds of the wall clock in which frames arrive
    MaxVersion,  \* bound: states published by one driver process
    MaxEvents,   \* bound: events published by one driver process
    MaxLives,    \* bound: processes of the driver, and of the gateway
    MaxPipe,     \* bound: messages of a stream on the way
    IdleLimit,   \* max_idle_timeouts
    RingSize,    \* kEventCapacity
    MaxAttempts  \* kMaxAttempts of the voice client

ASSUME StreamsAssumption ==
    /\ IdleLimit \in Nat \ {0} /\ RingSize \in Nat \ {0} /\ MaxPipe \in Nat \ {0}
    /\ MaxAttempts \in Nat \ {0}

VARIABLES
    vdrv,  \* the vehicle driver: life, latest state, ring of events, link; dropped
           \* is the newest event that fell out of the ring
    sub,   \* the two subscribers with a retry loop, and their handler in the driver
    gtw,   \* the gateway's server: what it published last, still fresh or not
    cl,    \* the two clients that keep an active_context_: HMI and sentinel
    ask    \* GatewayVehicleStatusClient of the voice service

streamVars == <<vdrv, sub, gtw, cl, ask>>
Subscribers == {"gateway", "recorder"}
FreshSub == [pc |-> "off", run |-> TRUE, conn |-> 0, seen |-> 0, pipe |-> << >>, last |-> 0]

StreamsInit ==
    /\ vdrv = [phase |-> "off", life |-> 0, wall |-> 0, ts |-> 0, ver |-> 0,
               ring |-> << >>, events |-> 0, dropped |-> 0, link |-> "starting", idle |-> 0]
    /\ sub = [s \in Subscribers |-> FreshSub]
    /\ gtw = [phase |-> "off", life |-> 0, ts |-> 0, ver |-> 0, fresh |-> FALSE]
    /\ cl = [c \in {"hmi", "sentinel"} |->
               [pc |-> "off", run |-> TRUE, ctx |-> FALSE, cancelled |-> FALSE, conn |-> 0,
                seen |-> 0, pipe |-> << >>, got |-> 0, shown |-> FALSE]]
    /\ ask = [pc |-> "idle", tries |-> 0, cancel |-> FALSE, ctx |-> FALSE]

-----------------------------------------------------------------------------
(* VehicleRuntime and the worker, VehicleDataService::RunSocketCan.         *)

Serving(server) == server.phase \in {"up", "failed"}

DriverStarts ==
    /\ Use("vehicle") /\ vdrv.phase = "off" /\ vdrv.life < MaxLives
    /\ vdrv' = [vdrv EXCEPT !.phase = "up", !.life = @ + 1, !.ts = 0, !.ver = 0, !.ring = << >>,
                            !.events = 0, !.dropped = 0, !.link = "starting", !.idle = 0]
    /\ UNCHANGED <<sub, gtw, cl, ask>>

Receives == vdrv.phase = "up" /\ UNCHANGED <<sub, gtw, cl, ask>>

(* A frame that decodes is published with the time of its decoding; two may  *)
(* fall in one millisecond.                                                  *)
VehicleFrame(now) ==
    /\ Receives /\ Use("frames") /\ now \in {vdrv.wall, vdrv.wall + 1} \ {0} /\ now <= MaxWall
    /\ vdrv.ver < MaxVersion
    /\ vdrv' = [vdrv EXCEPT !.wall = now, !.ts = now, !.ver = @ + 1, !.link = "online", !.idle = 0]

ReceiveTimesOut ==
    /\ Receives /\ Use("can") /\ vdrv.idle < IdleLimit
    /\ vdrv' = [vdrv EXCEPT !.idle = @ + 1, !.link = IF vdrv.idle + 1 >= IdleLimit THEN "idle" ELSE @]

ErrorFrame(busOff) ==
    /\ Receives /\ Use("can")
    /\ vdrv' = [vdrv EXCEPT !.link = IF busOff THEN "faulted" ELSE "idle"]

(* The worker returns; the server goes on until the runtime is stopped.      *)
ReceiveFails ==
    /\ Receives /\ Use("can") /\ vdrv' = [vdrv EXCEPT !.phase = "failed", !.link = "faulted"]

PublishEvent ==
    /\ Receives /\ Use("events") /\ vdrv.events < MaxEvents
    /\ LET full == Len(vdrv.ring) = RingSize
           kept == IF full THEN Tail(vdrv.ring) ELSE vdrv.ring
       IN  vdrv' = [vdrv EXCEPT !.events = @ + 1, !.ring = Append(kept, vdrv.events + 1),
                                !.dropped = IF full THEN Head(vdrv.ring) ELSE @]

DriverStops ==
    /\ Use("restart") /\ Serving(vdrv)
    /\ vdrv' = [vdrv EXCEPT !.phase = "off"] /\ UNCHANGED <<sub, gtw, cl, ask>>

-----------------------------------------------------------------------------
(* VehicleStateClient and VehicleStateSubscriber, with SubscribeVehicleState *)
(* in the driver, which begins with whatever is latest.                      *)

SubGoto(s, r) == sub' = [sub EXCEPT ![s] = r]
Attached(r, server) == r.conn = server.life /\ Serving(server)

RecorderStarts ==
    /\ Use("recorder") /\ sub["recorder"].pc = "off"
    /\ SubGoto("recorder", [FreshSub EXCEPT !.pc = "top"]) /\ UNCHANGED <<vdrv, gtw, cl, ask>>

StreamBegins(s) ==
    /\ sub[s].pc = "top"
    /\ SubGoto(s, [sub[s] EXCEPT !.pc = IF sub[s].run THEN "read" ELSE "done",
                                 !.conn = 0, !.pipe = << >>])
    /\ UNCHANGED <<vdrv, gtw, cl, ask>>

StreamJoins(s) ==
    /\ sub[s].pc = "read" /\ sub[s].conn = 0 /\ Serving(vdrv)
    /\ SubGoto(s, [sub[s] EXCEPT !.conn = vdrv.life, !.seen = 0])
    /\ UNCHANGED <<vdrv, gtw, cl, ask>>

SubscribeVehicleState(s) ==
    /\ sub[s].pc = "read" /\ Attached(sub[s], vdrv)
    /\ vdrv.ver > sub[s].seen /\ Len(sub[s].pipe) < MaxPipe
    /\ SubGoto(s, [sub[s] EXCEPT !.seen = vdrv.ver, !.pipe = Append(@, vdrv.ts)])
    /\ UNCHANGED <<vdrv, gtw, cl, ask>>

PublishVehicleState(ts) == gtw' = [gtw EXCEPT !.ts = ts, !.ver = @ + 1, !.fresh = TRUE]

(* A state that is not newer than the last one is passed over.               *)
StreamReads(s) ==
    /\ sub[s].pc = "read" /\ sub[s].pipe # << >>
    /\ LET ts == Head(sub[s].pipe)
           handed == sub[s].run /\ ts > sub[s].last
       IN  /\ SubGoto(s, [sub[s] EXCEPT !.pipe = Tail(@), !.pc = IF sub[s].run THEN @ ELSE "end",
                                        !.last = IF handed THEN ts ELSE @])
           /\ IF handed /\ s = "gateway" THEN PublishVehicleState(ts) ELSE UNCHANGED gtw
    /\ UNCHANGED <<vdrv, cl, ask>>

(* The server goes, the deadline of the stream passes, or the watcher sees   *)
(* the stop and cancels; what was on the way may be lost.                    *)
StreamEnds(s) ==
    /\ sub[s].pc = "read"
    /\ SubGoto(s, [sub[s] EXCEPT !.pc = "end", !.pipe = << >>])
    /\ UNCHANGED <<vdrv, gtw, cl, ask>>

StreamRetries(s) ==
    /\ sub[s].pc = "end"
    /\ SubGoto(s, [sub[s] EXCEPT !.pc = IF sub[s].run THEN "top" ELSE "done"])
    /\ UNCHANGED <<vdrv, gtw, cl, ask>>

SubscriberStops(s) ==
    /\ Use("end") /\ sub[s].run /\ sub[s].pc # "off"
    /\ SubGoto(s, [sub[s] EXCEPT !.run = FALSE]) /\ UNCHANGED <<vdrv, gtw, cl, ask>>

-----------------------------------------------------------------------------
(* TransferRuntime with GatewayGrpcService.                                 *)

GatewayStarts ==
    /\ Use("gateway") /\ gtw.phase = "off" /\ gtw.life < MaxLives
    /\ gtw' = [phase |-> "up", life |-> gtw.life + 1, ts |-> 0, ver |-> 0, fresh |-> FALSE]
    /\ SubGoto("gateway", [FreshSub EXCEPT !.pc = "top"])
    /\ UNCHANGED <<vdrv, cl, ask>>

(* Stop joins the worker first; a process that dies does not.                *)
GatewayStops ==
    /\ Serving(gtw) /\ (sub["gateway"].pc = "done" \/ Use("gateway dies"))
    /\ gtw' = [gtw EXCEPT !.phase = "off"] /\ SubGoto("gateway", FreshSub)
    /\ UNCHANGED <<vdrv, cl, ask>>

GatewayAges ==
    /\ Use("ask") /\ gtw.fresh /\ gtw' = [gtw EXCEPT !.fresh = FALSE]
    /\ UNCHANGED <<vdrv, sub, cl, ask>>

-----------------------------------------------------------------------------
(* A client with an active_context_: GatewayClient of the HMI and            *)
(* ChassisEventClient of the sentinel.  Its stream has no deadline and waits *)
(* for the server; only a server that goes or TryCancel ends it.             *)

Server(c) == IF c = "hmi" THEN gtw ELSE vdrv
ClGoto(c, r) == cl' = [cl EXCEPT ![c] = r] /\ UNCHANGED <<vdrv, sub, gtw, ask>>
At(c, p) == cl[c].pc = p
Over(c) == cl[c].cancelled \/ (cl[c].conn # 0 /\ ~Attached(cl[c], Server(c)))

HmiStarts == Use("hmi") /\ At("hmi", "off") /\ ClGoto("hmi", [cl["hmi"] EXCEPT !.pc = "loop"])

ClientLoops(c) ==
    At(c, "loop") /\ ClGoto(c, [cl[c] EXCEPT !.pc = IF cl[c].run THEN "arm" ELSE "done"])

(* The context is published to Stop only now.                                *)
ClientArms(c) ==
    /\ At(c, "arm")
    /\ ClGoto(c, [cl[c] EXCEPT !.pc = "check", !.ctx = TRUE, !.cancelled = FALSE, !.conn = 0,
                               !.pipe = << >>])

ClientJoins(c) ==
    /\ At(c, "check") \/ At(c, "read") \/ At(c, "finish")
    /\ cl[c].conn = 0 /\ ~cl[c].cancelled /\ Serving(Server(c))
    /\ ClGoto(c, [cl[c] EXCEPT !.conn = Server(c).life,
                               !.seen = IF c = "hmi" THEN 0 ELSE vdrv.events])

ClientChecks(c) ==
    At(c, "check") /\ ClGoto(c, [cl[c] EXCEPT !.pc = IF cl[c].run THEN "read" ELSE "finish"])

ReadEnds(c) == At(c, "read") /\ Over(c) /\ ClGoto(c, [cl[c] EXCEPT !.pc = "finish"])

(* The sentinel's client gives up on a status that is neither UNAVAILABLE    *)
(* nor CANCELLED; a driver that stops in good order ends the stream with OK. *)
GivesUp(c) == c = "sentinel" /\ cl[c].run /\ ~cl[c].cancelled
ClientFinishes(c) ==
    /\ At(c, "finish") /\ Over(c)
    /\ \E pc \in {"loop"} \cup (IF GivesUp(c) THEN {"done"} ELSE {}) :
         ClGoto(c, [cl[c] EXCEPT !.pc = pc, !.ctx = FALSE, !.pipe = << >>, !.shown = FALSE])

(* Stop: the flag, then TryCancel on the context that is there.              *)
ClientStops(c) == [cl[c] EXCEPT !.run = FALSE, !.cancelled = @ \/ cl[c].ctx]

HmiStops ==
    /\ Use("stop") /\ cl["hmi"].run /\ ~At("hmi", "off")
    /\ ClGoto("hmi", ClientStops("hmi"))

(* GatewayGrpcService::SubscribeCockpitEvents.                               *)
SubscribeCockpitEvents ==
    /\ Attached(cl["hmi"], gtw) /\ ~cl["hmi"].cancelled
    /\ gtw.ver > cl["hmi"].seen /\ Len(cl["hmi"].pipe) < MaxPipe
    /\ ClGoto("hmi", [cl["hmi"] EXCEPT !.seen = gtw.ver, !.pipe = Append(@, gtw.ts)])

HmiReads ==
    /\ At("hmi", "read") /\ cl["hmi"].pipe # << >>
    /\ ClGoto("hmi", [cl["hmi"] EXCEPT !.pc = "check", !.pipe = Tail(@),
                                       !.got = Head(cl["hmi"].pipe), !.shown = TRUE])

(* SubscribeChassisEvents: a subscriber that fell behind the ring jumps to   *)
(* its oldest entry.                                                         *)
CaughtUp(seen) == IF seen + 1 < Head(vdrv.ring) THEN Head(vdrv.ring) - 1 ELSE seen

(* The first entry of the ring that is newer (std::find_if).                *)
SubscribeChassisEvents ==
    /\ Attached(cl["sentinel"], vdrv) /\ ~cl["sentinel"].cancelled
    /\ vdrv.ring # << >> /\ vdrv.events > cl["sentinel"].seen /\ Len(cl["sentinel"].pipe) < MaxPipe
    /\ \E i \in 1 .. Len(vdrv.ring) :
         /\ vdrv.ring[i] > CaughtUp(cl["sentinel"].seen)
         /\ \A j \in 1 .. i - 1 : vdrv.ring[j] <= CaughtUp(cl["sentinel"].seen)
         /\ ClGoto("sentinel", [cl["sentinel"] EXCEPT !.seen = vdrv.ring[i],
                                                      !.pipe = Append(@, vdrv.ring[i])])

-----------------------------------------------------------------------------
(* GatewayVehicleStatusClient::GetLatest: attempts with a wait in between,   *)
(* and Cancel, which raises the generation.                                  *)

AskGoto(r) == ask' = r /\ UNCHANGED <<vdrv, sub, gtw, cl>>

AskBegins == Use("ask") /\ ask.pc = "idle" /\ AskGoto([ask EXCEPT !.pc = "try", !.tries = 1])
AskTries ==
    /\ ask.pc = "try"
    /\ AskGoto(IF ask.cancel THEN [ask EXCEPT !.pc = "cancelled"]
               ELSE [ask EXCEPT !.pc = "rpc", !.ctx = TRUE])
(* GetLatestVehicleState answers; without a server the deadline does.        *)
AskAnswered ==
    /\ ask.pc = "rpc" /\ Serving(gtw)
    /\ AskGoto([ask EXCEPT !.ctx = FALSE, !.pc = IF ask.cancel THEN "cancelled"
                                          ELSE IF gtw.ts # 0 /\ gtw.fresh THEN "ok" ELSE "again"])
AskExpires ==
    /\ ask.pc = "rpc"
    /\ AskGoto([ask EXCEPT !.ctx = FALSE, !.pc = IF ask.cancel THEN "cancelled" ELSE "again"])
AskWaits ==
    /\ ask.pc = "again"
    /\ AskGoto(IF ask.tries = MaxAttempts THEN [ask EXCEPT !.pc = "failed"]
               ELSE IF ask.cancel THEN [ask EXCEPT !.pc = "cancelled"]
               ELSE [ask EXCEPT !.pc = "try", !.tries = @ + 1])
AskDeadline == ask.pc \in {"try", "again"} /\ AskGoto([ask EXCEPT !.pc = "failed"])
AskCancelled == ask.pc \in {"try", "rpc", "again"} /\ ~ask.cancel /\ AskGoto([ask EXCEPT !.cancel = TRUE])

-----------------------------------------------------------------------------
SubSteps(s) == StreamBegins(s) \/ StreamReads(s) \/ StreamRetries(s)
ClientSteps(c) == ClientLoops(c) \/ ClientArms(c) \/ ClientChecks(c) \/ ReadEnds(c) \/ ClientFinishes(c)
AskSteps == AskTries \/ AskAnswered \/ AskExpires \/ AskWaits

StreamsNext ==
    \/ DriverStarts \/ DriverStops \/ ReceiveTimesOut \/ ReceiveFails \/ PublishEvent
    \/ \E now \in 1 .. MaxWall : VehicleFrame(now)
    \/ \E busOff \in BOOLEAN : ErrorFrame(busOff)
    \/ \E s \in Subscribers : \/ SubSteps(s) \/ StreamJoins(s) \/ SubscribeVehicleState(s)
                              \/ StreamEnds(s) \/ SubscriberStops(s)
    \/ RecorderStarts \/ GatewayStarts \/ GatewayStops \/ GatewayAges
    \/ \E c \in {"hmi", "sentinel"} : ClientSteps(c) \/ ClientJoins(c)
    \/ HmiStarts \/ HmiStops \/ SubscribeCockpitEvents \/ HmiReads \/ SubscribeChassisEvents
    \/ AskBegins \/ AskSteps \/ AskDeadline \/ AskCancelled

(* Threads take their steps; a stream with a deadline ends some time.        *)
StreamsFairness ==
    /\ \A s \in Subscribers : WF_streamVars(SubSteps(s)) /\ WF_streamVars(StreamEnds(s))
    /\ \A c \in {"hmi", "sentinel"} : WF_streamVars(ClientSteps(c))
    /\ WF_streamVars(AskSteps)

-----------------------------------------------------------------------------
(* What the screen shows never goes back in time, whatever restarts between  *)
(* the bus and the HMI, and an event reaches the sentinel's stream in order, *)
(* once, skipping only what fell out of the ring (VehicleGrpcService,        *)
(* VehicleStateClient, GatewayGrpcService, GatewayClient).                   *)
StreamsInOrder ==
    [][/\ cl'["hmi"].got >= cl["hmi"].got
       /\ LET old == cl["sentinel"] new == cl'["sentinel"]
          IN  Len(new.pipe) > Len(old.pipe) =>
                 /\ new.seen > old.seen /\ Last(new.pipe) = new.seen
                 /\ \A v \in old.seen + 1 .. new.seen - 1 : v <= vdrv.dropped]_streamVars

(* Whoever was told to stop, stopped: the subscribers by their watcher, the     *)
(* voice question by its generation, the HMI's stream by TryCancel, unless   *)
(* Stop came before the context it should have cancelled.                    *)
MissedCancel(c) == cl[c].ctx /\ ~cl[c].cancelled
StreamsStopped ==
    /\ \A s \in Subscribers : ~sub[s].run => sub[s].pc \in {"done", "off"}
    /\ ~cl["hmi"].run => At("hmi", "done") \/ MissedCancel("hmi")
    /\ ask.cancel => ask.pc \in {"cancelled", "failed", "ok"}
=============================================================================
