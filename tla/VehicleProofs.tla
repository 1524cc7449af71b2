---------------------------- MODULE VehicleProofs ----------------------------
(***************************************************************************)
(* Proofs about what comes from the vehicle and goes to it: the streams of *)
(* its states and events, the camera's video for RTSP, and chassis safety, *)
(* for every value of their constants.                                     *)
(***************************************************************************)
EXTENDS Services, FiniteSetTheorems, SequenceTheorems, WellFoundedInduction, TLAPS

-----------------------------------------------------------------------------
(* The vehicle's streams.                                                  *)

Clients == {"hmi", "sentinel"}
DriverStates ==
    [phase : {"off", "up", "failed"}, life : Nat, wall : Nat, ts : Nat, ver : Nat, ring : Seq(Nat),
     events : Nat, dropped : Nat, link : {"starting", "online", "idle", "faulted"}, idle : Nat]
SubscriberRecords ==
    [pc : {"off", "top", "read", "end", "done"}, run : BOOLEAN, conn : Nat, seen : Nat,
     pipe : Seq(Nat), last : Nat]
GatewayRecords == [phase : {"off", "up"}, life : Nat, ts : Nat, ver : Nat, fresh : BOOLEAN]
ClientRecords ==
    [pc : {"off", "loop", "arm", "check", "read", "finish", "done"}, run : BOOLEAN, ctx : BOOLEAN,
     cancelled : BOOLEAN, conn : Nat, seen : Nat, pipe : Seq(Nat), got : Nat, shown : BOOLEAN]

StreamTypes ==
    /\ vdrv \in DriverStates /\ sub \in [Subscribers -> SubscriberRecords]
    /\ gtw \in GatewayRecords /\ cl \in [Clients -> ClientRecords]

(* The ring holds the events that have not fallen out of it, one after the *)
(* other, and the latest state has the time of the latest frame.           *)
IsWindow(ring, dropped, events) ==
    /\ dropped + Len(ring) = events
    /\ \A i \in 1 .. Len(ring) : ring[i] = dropped + i
RingIsWindow(v) == IsWindow(v.ring, v.dropped, v.events)
LatestIsNow(v) == v.ver # 0 => v.ts = v.wall
DriverOK(v) == RingIsWindow(v) /\ LatestIsNow(v)

(* What is on the way to the screen is in order, and the newest of it, Top, *)
(* is no newer than what the gateway published last; a gateway that has     *)
(* published nothing yet will be given nothing older.                       *)
Top(c) == IF c.pipe = << >> THEN c.got ELSE c.pipe[Len(c.pipe)]
Ascends(c) ==
    /\ \A i \in 1 .. Len(c.pipe) : c.got <= c.pipe[i]
    /\ \A i, j \in 1 .. Len(c.pipe) : i <= j => c.pipe[i] <= c.pipe[j]
GatewayOK(v, g, s) ==
    /\ s.pc # "off" => g.phase = "up"
    /\ s.pc = "off" => s.pipe = << >>
    /\ g.phase = "up" => s.last = g.ts
    /\ g.ver = 0 => g.ts = 0
    /\ g.ts <= v.wall
    /\ \A i \in 1 .. Len(s.pipe) : s.pipe[i] <= v.wall
ScreenOK(v, g, s, c) ==
    /\ Ascends(c) /\ Top(c) <= v.wall
    /\ g.ver # 0 => Top(c) <= g.ts
    /\ g.ver = 0 => \A i \in 1 .. Len(s.pipe) : Top(c) <= s.pipe[i]

StreamInv ==
    /\ StreamTypes /\ DriverOK(vdrv)
    /\ GatewayOK(vdrv, gtw, sub["gateway"])
    /\ ScreenOK(vdrv, gtw, sub["gateway"], cl["hmi"])

(* StreamsInOrder of one step.                                             *)
PassedOver(old, new, driver) ==
    Len(new.pipe) > Len(old.pipe) =>
        /\ new.seen > old.seen /\ Last(new.pipe) = new.seen
        /\ \A v \in old.seen + 1 .. new.seen - 1 : v <= driver.dropped
StepInOrder ==
    /\ cl'["hmi"].got >= cl["hmi"].got
    /\ PassedOver(cl["sentinel"], cl'["sentinel"], vdrv)

LEMMA Appended ==
    ASSUME NEW S, NEW s \in Seq(S), NEW x \in S, NEW t, t = Append(s, x)
    PROVE  /\ t \in Seq(S) /\ t # << >> /\ Len(t) = Len(s) + 1 /\ Len(t) \in Nat \ {0}
           /\ t[Len(t)] = x /\ t[Len(s) + 1] = x
           /\ \A i \in 1 .. Len(t) : i = Len(t) \/ (i \in 1 .. Len(s) /\ t[i] = s[i])
  OBVIOUS

LEMMA Popped ==
    ASSUME NEW S, NEW s \in Seq(S), s # << >>
    PROVE  /\ Len(s) \in Nat \ {0} /\ Head(s) = s[1] /\ Head(s) \in S
           /\ Tail(s) \in Seq(S) /\ Len(Tail(s)) = Len(s) - 1
           /\ \A i \in 1 .. Len(Tail(s)) : i + 1 \in 1 .. Len(s) /\ Tail(s)[i] = s[i + 1]
  OBVIOUS

LEMMA Elements ==
    ASSUME NEW S, NEW s \in Seq(S)
    PROVE  /\ Len(s) \in Nat /\ \A i \in 1 .. Len(s) : s[i] \in S
           /\ s # << >> => Len(s) \in 1 .. Len(s) /\ s[Len(s)] \in S
  OBVIOUS

LEMMA StreamsBegin ==
    ASSUME StreamsInit PROVE StreamInv
  <1>1. << >> \in Seq(Nat) /\ Len(<< >>) = 0
    OBVIOUS
  <1>2. vdrv \in DriverStates /\ DriverOK(vdrv)
    BY <1>1 DEF StreamsInit, DriverStates, DriverOK, RingIsWindow, IsWindow, LatestIsNow
  <1>3. FreshSub \in SubscriberRecords
    BY <1>1 DEF FreshSub, SubscriberRecords
  <1>4. sub \in [Subscribers -> SubscriberRecords] /\ sub["gateway"] = FreshSub
    BY <1>3 DEF StreamsInit, Subscribers
  <1>5. gtw \in GatewayRecords
    BY DEF StreamsInit, GatewayRecords
  <1>6. cl \in [Clients -> ClientRecords]
    BY <1>1 DEF StreamsInit, ClientRecords, Clients
  <1>7. GatewayOK(vdrv, gtw, sub["gateway"])
    <2>1. /\ gtw.phase = "off" /\ gtw.ts = 0 /\ vdrv.wall = 0 /\ FreshSub.pc = "off"
          /\ FreshSub.pipe = << >>
      BY DEF StreamsInit, FreshSub
    <2> QED BY <1>1, <1>4, <2>1 DEF GatewayOK
  <1>8. ScreenOK(vdrv, gtw, sub["gateway"], cl["hmi"])
    BY <1>1, <1>4 DEF ScreenOK, Top, Ascends, StreamsInit, FreshSub
  <1> QED BY <1>2, <1>4, <1>5, <1>6, <1>7, <1>8 DEF StreamInv, StreamTypes

LEMMA NothingNew ==
    ASSUME StreamTypes, cl' = cl PROVE StepInOrder
  <1>1. cl["hmi"] \in ClientRecords /\ cl["sentinel"] \in ClientRecords
    BY DEF StreamTypes, Clients
  <1> QED BY <1>1 DEF StepInOrder, PassedOver, ClientRecords

LEMMA StreamsUntouched ==
    ASSUME StreamInv, UNCHANGED streamVars PROVE StreamInv' /\ StepInOrder
  <1>1. StreamInv'
    BY DEF StreamInv, StreamTypes, streamVars
  <1> QED BY <1>1, NothingNew DEF streamVars, StreamInv

-----------------------------------------------------------------------------
(* The driver.                                                             *)

LEMMA DriverMoves ==
    ASSUME StreamInv, vdrv' \in DriverStates, DriverOK(vdrv'), vdrv'.wall >= vdrv.wall,
           UNCHANGED <<sub, gtw, cl>>
    PROVE  StreamInv' /\ StepInOrder
  <1>1. vdrv.wall \in Nat /\ vdrv'.wall \in Nat /\ gtw.ts \in Nat
    BY DEF StreamInv, StreamTypes, DriverStates, GatewayRecords
  <1>2. sub["gateway"] \in SubscriberRecords /\ cl["hmi"] \in ClientRecords
    BY DEF StreamInv, StreamTypes, Subscribers, Clients
  <1>3. \A i \in 1 .. Len(sub["gateway"].pipe) : sub["gateway"].pipe[i] \in Nat
    BY <1>2 DEF SubscriberRecords
  <1>4. Top(cl["hmi"]) \in Nat
    BY <1>2 DEF ClientRecords, Top
  <1>5. GatewayOK(vdrv', gtw, sub["gateway"])
    BY <1>1, <1>3 DEF StreamInv, GatewayOK
  <1>6. ScreenOK(vdrv', gtw, sub["gateway"], cl["hmi"])
    BY <1>1, <1>4 DEF StreamInv, ScreenOK
  <1>7. StreamInv'
    BY <1>5, <1>6 DEF StreamInv, StreamTypes
  <1> QED BY <1>7, NothingNew DEF StreamInv

LEMMA FirstLeaves ==
    ASSUME NEW ring \in Seq(Nat), NEW d \in Nat, NEW n \in Nat, IsWindow(ring, d, n), ring # << >>
    PROVE  /\ Tail(ring) \in Seq(Nat) /\ Head(ring) \in Nat
           /\ IsWindow(Tail(ring), Head(ring), n)
  <1> DEFINE k == Tail(ring)
             g == Head(ring)
  <1>1. /\ Len(ring) \in Nat \ {0} /\ g = ring[1] /\ k \in Seq(Nat) /\ Len(k) = Len(ring) - 1
        /\ \A i \in 1 .. Len(k) : i + 1 \in 1 .. Len(ring) /\ k[i] = ring[i + 1]
    BY Popped
  <1> HIDE DEF k, g
  <1>2. g = d + 1 /\ g \in Nat
    BY <1>1 DEF IsWindow
  <1>3. g + Len(k) = n
    <2>1. d + Len(ring) = n
      BY DEF IsWindow
    <2>2. Len(ring) \in Nat /\ Len(k) = Len(ring) - 1
      BY <1>1
    <2> QED BY <1>2, <2>1, <2>2
  <1>4. ASSUME NEW i \in 1 .. Len(k) PROVE k[i] = g + i
    <2>1. i + 1 \in 1 .. Len(ring) /\ k[i] = ring[i + 1]
      BY <1>1
    <2>2. ring[i + 1] = d + (i + 1)
      BY <2>1 DEF IsWindow
    <2> QED BY <1>2, <2>1, <2>2
  <1>5. IsWindow(k, g, n)
    BY <1>3, <1>4 DEF IsWindow
  <1> QED BY <1>1, <1>2, <1>5 DEF k, g

LEMMA NextJoins ==
    ASSUME NEW ring \in Seq(Nat), NEW d \in Nat, NEW n \in Nat, IsWindow(ring, d, n),
           NEW r, r = Append(ring, n + 1)
    PROVE  r \in Seq(Nat) /\ IsWindow(r, d, n + 1)
  <1>1. n + 1 \in Nat /\ Len(ring) \in Nat /\ d + Len(ring) = n
    BY Elements DEF IsWindow
  <1>2. /\ r \in Seq(Nat) /\ Len(r) = Len(ring) + 1 /\ r[Len(r)] = n + 1
        /\ \A i \in 1 .. Len(r) : i = Len(r) \/ (i \in 1 .. Len(ring) /\ r[i] = ring[i])
    BY <1>1, Appended
  <1>3. d + Len(r) = n + 1
    <2>1. Len(r) = Len(ring) + 1
      BY <1>2
    <2> QED BY <1>1, <2>1
  <1>4. ASSUME NEW i \in 1 .. Len(r) PROVE r[i] = d + i
    <2>1. CASE i = Len(r)
      BY <1>2, <1>3, <2>1
    <2>2. CASE i # Len(r)
      BY <1>2, <2>2 DEF IsWindow
    <2> QED BY <2>1, <2>2
  <1> QED BY <1>2, <1>3, <1>4 DEF IsWindow

LEMMA EventPublished ==
    ASSUME StreamInv, PublishEvent PROVE StreamInv' /\ StepInOrder
  <1> DEFINE full == Len(vdrv.ring) = RingSize
             kept == IF full THEN Tail(vdrv.ring) ELSE vdrv.ring
             gone == IF full THEN Head(vdrv.ring) ELSE vdrv.dropped
             ring == Append(kept, vdrv.events + 1)
             n == vdrv.events + 1
  <1>1. vdrv' = [vdrv EXCEPT !.events = n, !.ring = ring, !.dropped = gone]
    BY DEF PublishEvent
  <1>2. vdrv \in DriverStates /\ RingIsWindow(vdrv) /\ LatestIsNow(vdrv)
    BY DEF StreamInv, StreamTypes, DriverOK
  <1>3. vdrv.ring \in Seq(Nat) /\ vdrv.events \in Nat /\ vdrv.dropped \in Nat /\ n \in Nat
    BY <1>2 DEF DriverStates
  <1>4. full => vdrv.ring # << >>
    BY <1>3, StreamsAssumption
  <1>5. \/ kept = vdrv.ring /\ gone = vdrv.dropped
        \/ vdrv.ring # << >> /\ kept = Tail(vdrv.ring) /\ gone = Head(vdrv.ring)
    BY <1>4
  <1> HIDE DEF kept, gone, full
  <1>6. ring = Append(kept, vdrv.events + 1)
    OBVIOUS
  <1> HIDE DEF ring
  <1>7. IsWindow(vdrv.ring, vdrv.dropped, vdrv.events)
    BY <1>2 DEF RingIsWindow
  <1>8. kept \in Seq(Nat) /\ gone \in Nat /\ IsWindow(kept, gone, vdrv.events)
    BY <1>3, <1>5, <1>7, FirstLeaves
  <1>9. ring \in Seq(Nat) /\ gone \in Nat /\ IsWindow(ring, gone, n)
    BY <1>3, <1>6, <1>8, NextJoins
  <1> HIDE DEF n
  <1>10. vdrv' \in DriverStates /\ vdrv'.wall = vdrv.wall
    BY <1>1, <1>2, <1>3, <1>9 DEF DriverStates
  <1>11. DriverOK(vdrv')
    BY <1>1, <1>2, <1>9 DEF DriverStates, DriverOK, RingIsWindow, LatestIsNow
  <1>12. vdrv.wall \in Nat /\ UNCHANGED <<sub, gtw, cl>>
    BY <1>2 DEF DriverStates, PublishEvent, Receives
  <1> QED BY <1>10, <1>11, <1>12, DriverMoves

LEMMA DriverSteps ==
    ASSUME StreamInv,
           \/ DriverStarts \/ DriverStops \/ ReceiveTimesOut \/ ReceiveFails
           \/ \E now \in 1 .. MaxWall : VehicleFrame(now)
           \/ \E busOff \in BOOLEAN : ErrorFrame(busOff)
    PROVE  StreamInv' /\ StepInOrder
  <1>1. /\ vdrv \in DriverStates /\ RingIsWindow(vdrv) /\ LatestIsNow(vdrv)
    BY DEF StreamInv, StreamTypes, DriverOK
  <1>2. vdrv.wall \in Nat /\ vdrv.life \in Nat /\ vdrv.idle \in Nat /\ vdrv.ver \in Nat
        /\ vdrv.life + 1 \in Nat /\ vdrv.idle + 1 \in Nat /\ vdrv.ver + 1 \in Nat
    BY <1>1 DEF DriverStates
  <1>3. << >> \in Seq(Nat) /\ Len(<< >>) = 0 /\ 0 \in Nat
    OBVIOUS
  <1>4. CASE DriverStarts
    <2>1. vdrv' \in DriverStates /\ vdrv'.wall = vdrv.wall
      BY <1>1, <1>2, <1>3, <1>4 DEF DriverStarts, DriverStates
    <2>2. DriverOK(vdrv')
      BY <1>1, <1>3, <1>4 DEF DriverStarts, DriverStates, DriverOK, RingIsWindow, IsWindow,
                                   LatestIsNow
    <2> QED BY <1>2, <1>4, <2>1, <2>2, DriverMoves DEF DriverStarts
  <1>5. ASSUME NEW now \in 1 .. MaxWall, VehicleFrame(now) PROVE StreamInv' /\ StepInOrder
    <2>1. now \in Nat /\ now >= vdrv.wall
      <3>1. now \in {vdrv.wall, vdrv.wall + 1}
        BY <1>5 DEF VehicleFrame
      <3> QED BY <1>2, <3>1
    <2> DEFINE n == vdrv.ver + 1
    <2>2. n \in Nat
      BY <1>2
    <2>3. vdrv' = [vdrv EXCEPT !.wall = now, !.ts = now, !.ver = n, !.link = "online", !.idle = 0]
      BY <1>5 DEF VehicleFrame
    <2> HIDE DEF n
    <2>4. vdrv' \in DriverStates /\ vdrv'.wall = now
      BY <1>1, <1>3, <2>1, <2>2, <2>3 DEF DriverStates
    <2>5. DriverOK(vdrv')
      BY <1>1, <2>3 DEF DriverStates, DriverOK, RingIsWindow, LatestIsNow
    <2> QED BY <1>5, <2>1, <2>4, <2>5, DriverMoves DEF VehicleFrame, Receives
  <1>6. CASE DriverStops \/ ReceiveTimesOut \/ ReceiveFails
             \/ \E busOff \in BOOLEAN : ErrorFrame(busOff)
    <2>1. \E ph \in {"off", "up", "failed"}, li \in {"starting", "online", "idle", "faulted"} :
             \E d \in Nat : vdrv' = [vdrv EXCEPT !.phase = ph, !.link = li, !.idle = d]
      <3>1. vdrv = [vdrv EXCEPT !.phase = vdrv.phase, !.link = vdrv.link, !.idle = vdrv.idle]
        BY <1>1 DEF DriverStates
      <3>2. vdrv.phase \in {"off", "up", "failed"}
            /\ vdrv.link \in {"starting", "online", "idle", "faulted"}
        BY <1>1 DEF DriverStates
      <3>3. CASE DriverStops
        <4>1. vdrv' = [vdrv EXCEPT !.phase = "off", !.link = vdrv.link, !.idle = vdrv.idle]
          BY <1>1, <3>3 DEF DriverStops, DriverStates
        <4> QED BY <1>2, <3>2, <4>1
      <3>4. CASE ReceiveTimesOut
        <4> DEFINE li == IF vdrv.idle + 1 >= IdleLimit THEN "idle" ELSE vdrv.link
                   d == vdrv.idle + 1
        <4>1. li \in {"starting", "online", "idle", "faulted"}
          BY <3>2
        <4>2. vdrv' = [vdrv EXCEPT !.idle = d, !.link = li]
          BY <3>4 DEF ReceiveTimesOut
        <4>3. d \in Nat
          BY <1>2
        <4> HIDE DEF li, d
        <4>4. vdrv' = [vdrv EXCEPT !.phase = vdrv.phase, !.link = li, !.idle = d]
          BY <1>1, <4>2 DEF DriverStates
        <4> QED BY <3>2, <4>1, <4>3, <4>4
      <3>5. CASE ReceiveFails
        <4>1. vdrv' = [vdrv EXCEPT !.phase = "failed", !.link = "faulted", !.idle = vdrv.idle]
          BY <1>1, <3>5 DEF ReceiveFails, DriverStates
        <4> QED BY <1>2, <4>1
      <3>6. ASSUME NEW busOff \in BOOLEAN, ErrorFrame(busOff)
            PROVE  \E ph \in {"off", "up", "failed"}, li \in {"starting", "online", "idle", "faulted"} :
                     \E d \in Nat : vdrv' = [vdrv EXCEPT !.phase = ph, !.link = li, !.idle = d]
        <4> DEFINE li == IF busOff THEN "faulted" ELSE "idle"
        <4>1. li \in {"starting", "online", "idle", "faulted"}
          OBVIOUS
        <4>2. vdrv' = [vdrv EXCEPT !.link = li]
          BY <3>6 DEF ErrorFrame
        <4> HIDE DEF li
        <4>3. vdrv' = [vdrv EXCEPT !.phase = vdrv.phase, !.link = li, !.idle = vdrv.idle]
          BY <1>1, <4>2 DEF DriverStates
        <4> QED BY <1>2, <3>2, <4>1, <4>3
      <3> QED BY <1>6, <3>3, <3>4, <3>5, <3>6
    <2>2. vdrv' \in DriverStates /\ vdrv'.wall = vdrv.wall
      BY <1>1, <2>1 DEF DriverStates
    <2>3. DriverOK(vdrv')
      BY <1>1, <2>1 DEF DriverStates, DriverOK, RingIsWindow, LatestIsNow
    <2>4. UNCHANGED <<sub, gtw, cl>>
      BY <1>6 DEF DriverStops, ReceiveTimesOut, ReceiveFails, ErrorFrame, Receives
    <2> QED BY <1>2, <2>2, <2>3, <2>4, DriverMoves
  <1> QED BY <1>4, <1>5, <1>6

-----------------------------------------------------------------------------
(* The subscribers and the gateway.                                        *)

LEMMA SubscriberMoves ==
    ASSUME StreamInv, NEW s \in Subscribers, NEW r \in SubscriberRecords,
           sub' = [sub EXCEPT ![s] = r], UNCHANGED <<vdrv, cl>>, gtw' \in GatewayRecords,
           s = "gateway" => GatewayOK(vdrv, gtw', r) /\ ScreenOK(vdrv, gtw', r, cl["hmi"]),
           s # "gateway" => gtw' = gtw
    PROVE  StreamInv' /\ StepInOrder
  <1>1. sub' \in [Subscribers -> SubscriberRecords]
    BY DEF StreamInv, StreamTypes
  <1>2. sub'["gateway"] = IF s = "gateway" THEN r ELSE sub["gateway"]
    BY DEF StreamInv, StreamTypes, Subscribers
  <1>3. GatewayOK(vdrv, gtw', sub'["gateway"]) /\ ScreenOK(vdrv, gtw', sub'["gateway"], cl["hmi"])
    BY <1>2 DEF StreamInv
  <1>4. StreamInv'
    BY <1>1, <1>3 DEF StreamInv, StreamTypes
  <1> QED BY <1>4, NothingNew DEF StreamInv

LEMMA SubscriberQuiet ==
    ASSUME StreamInv, NEW s \in Subscribers, NEW r \in SubscriberRecords,
           sub' = [sub EXCEPT ![s] = r], UNCHANGED <<vdrv, gtw, cl>>,
           r.pipe = sub[s].pipe \/ r.pipe = << >>, r.last = sub[s].last,
           r.pc # "off", sub[s].pc # "off"
    PROVE  StreamInv' /\ StepInOrder
  <1>1. gtw \in GatewayRecords /\ Len(<< >>) = 0
    BY DEF StreamInv, StreamTypes
  <1>2. s = "gateway" => GatewayOK(vdrv, gtw, r) /\ ScreenOK(vdrv, gtw, r, cl["hmi"])
    BY <1>1 DEF StreamInv, GatewayOK, ScreenOK
  <1> QED BY <1>1, <1>2, SubscriberMoves

LEMMA StateIsSent ==
    ASSUME StreamInv, NEW s \in Subscribers, SubscribeVehicleState(s)
    PROVE  StreamInv' /\ StepInOrder
  <1> DEFINE p == Append(sub[s].pipe, vdrv.ts)
             r == [sub[s] EXCEPT !.seen = vdrv.ver, !.pipe = p]
  <1>1. sub' = [sub EXCEPT ![s] = r] /\ UNCHANGED <<vdrv, gtw, cl>>
    BY DEF SubscribeVehicleState, SubGoto
  <1>2. sub[s] \in SubscriberRecords /\ vdrv \in DriverStates /\ gtw \in GatewayRecords
        /\ cl["hmi"] \in ClientRecords
    BY DEF StreamInv, StreamTypes, Clients
  <1>3. /\ sub[s].pipe \in Seq(Nat) /\ sub[s].seen \in Nat /\ vdrv.ver \in Nat
        /\ vdrv.ts \in Nat /\ vdrv.wall \in Nat
    BY <1>2 DEF SubscriberRecords, DriverStates
  <1>4. vdrv.ts = vdrv.wall
    BY <1>3 DEF SubscribeVehicleState, StreamInv, DriverOK, LatestIsNow
  <1>5. /\ p \in Seq(Nat) /\ Len(p) = Len(sub[s].pipe) + 1 /\ p[Len(p)] = vdrv.wall
        /\ \A i \in 1 .. Len(p) : i = Len(p) \/ (i \in 1 .. Len(sub[s].pipe) /\ p[i] = sub[s].pipe[i])
    <2>1. p = Append(sub[s].pipe, vdrv.wall)
      BY <1>4
    <2> HIDE DEF p
    <2>2. sub[s].pipe \in Seq(Nat) /\ vdrv.wall \in Nat
      BY <1>3
    <2> QED BY <2>1, <2>2, Appended
  <1> HIDE DEF p
  <1>6. r \in SubscriberRecords /\ r.pipe = p /\ r.last = sub[s].last /\ r.pc = sub[s].pc
    BY <1>2, <1>3, <1>5 DEF SubscriberRecords
  <1> HIDE DEF r
  <1>7. sub[s].pc # "off"
    BY DEF SubscribeVehicleState
  <1>8. ASSUME s = "gateway" PROVE GatewayOK(vdrv, gtw, r) /\ ScreenOK(vdrv, gtw, r, cl["hmi"])
    <2>1. GatewayOK(vdrv, gtw, r)
      <3>1. GatewayOK(vdrv, gtw, sub[s])
        BY <1>8 DEF StreamInv
      <3>2. \A i \in 1 .. Len(p) : p[i] <= vdrv.wall
        <4>1. \A i \in 1 .. Len(sub[s].pipe) : sub[s].pipe[i] <= vdrv.wall
          BY <3>1 DEF GatewayOK
        <4>2. vdrv.wall <= vdrv.wall
          BY <1>3
        <4> QED BY <1>5, <4>1, <4>2
      <3> QED BY <1>6, <1>7, <3>1, <3>2 DEF GatewayOK
    <2>2. Top(cl["hmi"]) <= vdrv.wall
      BY DEF StreamInv, ScreenOK
    <2> QED BY <1>5, <1>6, <1>8, <2>1, <2>2 DEF StreamInv, ScreenOK
  <1> QED BY <1>1, <1>2, <1>6, <1>8, SubscriberMoves

LEMMA FirstTaken ==
    ASSUME NEW q \in Seq(Nat), q # << >>
    PROVE  /\ Head(q) \in Nat /\ 1 \in 1 .. Len(q) /\ Head(q) = q[1]
           /\ Tail(q) \in Seq(Nat) /\ Len(Tail(q)) = Len(q) - 1
           /\ \A i \in 1 .. Len(Tail(q)) : i + 1 \in 1 .. Len(q) /\ Tail(q)[i] = q[i + 1]
  <1>1. /\ Head(q) \in Nat /\ Tail(q) \in Seq(Nat) /\ Len(Tail(q)) = Len(q) - 1
        /\ \A i \in 1 .. Len(Tail(q)) : Tail(q)[i] = q[i + 1]
    BY HeadTailProperties
  <1>2. Len(q) \in Nat /\ Len(q) # 0 /\ Head(q) = q[1]
    OBVIOUS
  <1>3. 1 \in 1 .. Len(q) /\ \A i \in 1 .. Len(q) - 1 : i + 1 \in 1 .. Len(q)
    BY <1>2
  <1> QED BY <1>1, <1>2, <1>3

LEMMA StateIsRead ==
    ASSUME StreamInv, NEW s \in Subscribers, StreamReads(s)
    PROVE  StreamInv' /\ StepInOrder
  <1> DEFINE ts == Head(sub[s].pipe)
             handed == sub[s].run /\ ts > sub[s].last
             pc == IF sub[s].run THEN sub[s].pc ELSE "end"
             last == IF handed THEN ts ELSE sub[s].last
             rest == Tail(sub[s].pipe)
             r == [sub[s] EXCEPT !.pipe = rest, !.pc = pc, !.last = last]
             n == gtw.ver + 1
             hands == handed /\ s = "gateway"
             given == [gtw EXCEPT !.ts = ts, !.ver = n, !.fresh = TRUE]
  <1>1. /\ sub' = [sub EXCEPT ![s] = r] /\ UNCHANGED <<vdrv, cl>>
        /\ gtw' = IF hands THEN given ELSE gtw
    BY DEF StreamReads, SubGoto, PublishVehicleState
  <1>2. sub[s] \in SubscriberRecords /\ vdrv \in DriverStates /\ gtw \in GatewayRecords
        /\ cl["hmi"] \in ClientRecords
    BY DEF StreamInv, StreamTypes, Clients
  <1>3. /\ sub[s].pipe \in Seq(Nat) /\ sub[s].pipe # << >> /\ sub[s].pc = "read"
        /\ sub[s].last \in Nat /\ vdrv.wall \in Nat /\ gtw.ver \in Nat /\ gtw.ts \in Nat /\ n \in Nat
    <2>1. sub[s].pc = "read" /\ sub[s].pipe # << >>
      BY DEF StreamReads
    <2>2. sub[s].pipe \in Seq(Nat) /\ sub[s].last \in Nat
      BY <1>2 DEF SubscriberRecords
    <2>3. vdrv.wall \in Nat
      BY <1>2 DEF DriverStates
    <2>4. gtw.ver \in Nat /\ gtw.ts \in Nat
      BY <1>2 DEF GatewayRecords
    <2> QED BY <2>1, <2>2, <2>3, <2>4
  <1>4. Top(cl["hmi"]) \in Nat
    BY <1>2 DEF ClientRecords, Top
  <1>5. /\ ts \in Nat /\ 1 \in 1 .. Len(sub[s].pipe) /\ ts = sub[s].pipe[1]
        /\ rest \in Seq(Nat) /\ Len(rest) = Len(sub[s].pipe) - 1
        /\ \A i \in 1 .. Len(rest) : i + 1 \in 1 .. Len(sub[s].pipe) /\ rest[i] = sub[s].pipe[i + 1]
    BY <1>3, FirstTaken
  <1> HIDE DEF ts, rest
  <1>6. /\ pc \in {"read", "end"} /\ last \in Nat
    BY <1>3, <1>5
  <1>7. last = IF handed THEN ts ELSE sub[s].last
    OBVIOUS
  <1>8. handed => ts > sub[s].last
    OBVIOUS
  <1> HIDE DEF pc, last, handed
  <1>9. r \in SubscriberRecords /\ r.pipe = rest /\ r.last = last /\ r.pc = pc
    BY <1>2, <1>5, <1>6 DEF SubscriberRecords
  <1>10. given \in GatewayRecords /\ given.ts = ts /\ given.ver = n /\ given.phase = gtw.phase
    BY <1>2, <1>3, <1>5 DEF GatewayRecords
  <1> HIDE DEF r, given
  <1>11. gtw' \in GatewayRecords /\ (s # "gateway" => gtw' = gtw)
    BY <1>1, <1>2, <1>10
  <1>12. ASSUME s = "gateway" PROVE GatewayOK(vdrv, gtw', r) /\ ScreenOK(vdrv, gtw', r, cl["hmi"])
    <2>1. GatewayOK(vdrv, gtw, sub[s]) /\ ScreenOK(vdrv, gtw, sub[s], cl["hmi"])
      BY <1>12 DEF StreamInv
    <2>2. gtw.phase = "up" /\ sub[s].last = gtw.ts
      BY <1>3, <2>1 DEF GatewayOK
    <2>3. ts <= vdrv.wall /\ \A i \in 1 .. Len(rest) : rest[i] <= vdrv.wall
      BY <1>5, <2>1 DEF GatewayOK
    <2>4. gtw.ver = 0 => Top(cl["hmi"]) <= ts /\ \A i \in 1 .. Len(rest) : Top(cl["hmi"]) <= rest[i]
      BY <1>5, <2>1 DEF ScreenOK
    <2>5. CASE handed
      <3>1. gtw' = given
        BY <1>1, <1>12, <2>5
      <3>2. GatewayOK(vdrv, given, r)
        BY <1>3, <1>6, <1>7, <1>9, <1>10, <2>2, <2>3, <2>5 DEF GatewayOK
      <3>3. Top(cl["hmi"]) <= ts
        <4>1. ts > gtw.ts
          BY <1>8, <2>2, <2>5
        <4>2. gtw.ver = 0 => Top(cl["hmi"]) <= ts
          BY <2>4
        <4>3. gtw.ver # 0 => Top(cl["hmi"]) <= gtw.ts
          BY <1>3, <2>1 DEF ScreenOK
        <4>4. ts \in Nat /\ gtw.ts \in Nat
          BY <1>3, <1>5
        <4> QED BY <1>4, <4>1, <4>2, <4>3, <4>4
      <3>4. given.ver # 0
        BY <1>3, <1>10
      <3> QED BY <1>10, <2>1, <3>1, <3>2, <3>3, <3>4 DEF ScreenOK
    <2>6. CASE ~handed
      <3>1. gtw' = gtw
        BY <1>1, <2>6
      <3>2. GatewayOK(vdrv, gtw, r)
        BY <1>6, <1>7, <1>9, <2>1, <2>2, <2>3, <2>6 DEF GatewayOK
      <3> QED BY <1>9, <2>1, <2>4, <3>1, <3>2 DEF ScreenOK
    <2> QED BY <2>5, <2>6
  <1> QED BY <1>1, <1>9, <1>11, <1>12, SubscriberMoves

LEMMA SubscriberSteps ==
    ASSUME StreamInv, NEW s \in Subscribers,
           StreamBegins(s) \/ StreamJoins(s) \/ StreamEnds(s) \/ StreamRetries(s) \/ SubscriberStops(s)
    PROVE  StreamInv' /\ StepInOrder
  <1>1. sub[s] \in SubscriberRecords /\ vdrv.life \in Nat
    BY DEF StreamInv, StreamTypes, DriverStates
  <1>2. << >> \in Seq(Nat) /\ 0 \in Nat
    OBVIOUS
  <1>3. PICK r : /\ r \in SubscriberRecords /\ sub' = [sub EXCEPT ![s] = r]
                 /\ r.pipe = sub[s].pipe \/ r.pipe = << >>
                 /\ r.last = sub[s].last /\ r.pc # "off" /\ sub[s].pc # "off"
    <2>1. CASE StreamBegins(s)
      <3> DEFINE pc == IF sub[s].run THEN "read" ELSE "done"
                 r == [sub[s] EXCEPT !.pc = pc, !.conn = 0, !.pipe = << >>]
      <3>1. sub' = [sub EXCEPT ![s] = r] /\ sub[s].pc = "top"
        BY <2>1 DEF StreamBegins, SubGoto
      <3>2. pc \in {"read", "done"}
        OBVIOUS
      <3> HIDE DEF pc
      <3>3. r \in SubscriberRecords /\ r.pipe = << >> /\ r.last = sub[s].last /\ r.pc = pc
        BY <1>1, <1>2, <3>2 DEF SubscriberRecords
      <3> QED BY <3>1, <3>2, <3>3
    <2>2. CASE StreamJoins(s)
      <3> DEFINE r == [sub[s] EXCEPT !.conn = vdrv.life, !.seen = 0]
      <3>1. sub' = [sub EXCEPT ![s] = r] /\ sub[s].pc = "read"
        BY <2>2 DEF StreamJoins, SubGoto
      <3>2. r \in SubscriberRecords /\ r.pipe = sub[s].pipe /\ r.last = sub[s].last /\ r.pc = sub[s].pc
        BY <1>1, <1>2 DEF SubscriberRecords
      <3> QED BY <3>1, <3>2
    <2>3. CASE StreamEnds(s)
      <3> DEFINE r == [sub[s] EXCEPT !.pc = "end", !.pipe = << >>]
      <3>1. sub' = [sub EXCEPT ![s] = r] /\ sub[s].pc = "read"
        BY <2>3 DEF StreamEnds, SubGoto
      <3>2. r \in SubscriberRecords /\ r.pipe = << >> /\ r.last = sub[s].last /\ r.pc = "end"
        BY <1>1, <1>2 DEF SubscriberRecords
      <3> QED BY <3>1, <3>2
    <2>4. CASE StreamRetries(s)
      <3> DEFINE pc == IF sub[s].run THEN "top" ELSE "done"
                 r == [sub[s] EXCEPT !.pc = pc]
      <3>1. sub' = [sub EXCEPT ![s] = r] /\ sub[s].pc = "end"
        BY <2>4 DEF StreamRetries, SubGoto
      <3>2. pc \in {"top", "done"}
        OBVIOUS
      <3> HIDE DEF pc
      <3>3. r \in SubscriberRecords /\ r.pipe = sub[s].pipe /\ r.last = sub[s].last /\ r.pc = pc
        BY <1>1, <3>2 DEF SubscriberRecords
      <3> QED BY <3>1, <3>2, <3>3
    <2>5. CASE SubscriberStops(s)
      <3> DEFINE r == [sub[s] EXCEPT !.run = FALSE]
      <3>1. sub' = [sub EXCEPT ![s] = r] /\ sub[s].pc # "off"
        BY <2>5 DEF SubscriberStops, SubGoto
      <3>2. r \in SubscriberRecords /\ r.pipe = sub[s].pipe /\ r.last = sub[s].last /\ r.pc = sub[s].pc
        BY <1>1 DEF SubscriberRecords
      <3> QED BY <3>1, <3>2
    <2> QED BY <2>1, <2>2, <2>3, <2>4, <2>5
  <1>4. UNCHANGED <<vdrv, gtw, cl>>
    BY DEF StreamBegins, StreamJoins, StreamEnds, StreamRetries, SubscriberStops
  <1> QED BY <1>3, <1>4, SubscriberQuiet

LEMMA GatewaySteps ==
    ASSUME StreamInv, RecorderStarts \/ GatewayStarts \/ GatewayStops \/ GatewayAges
    PROVE  StreamInv' /\ StepInOrder
  <1>1. /\ FreshSub \in SubscriberRecords /\ FreshSub.pipe = << >> /\ FreshSub.last = 0
        /\ FreshSub.pc = "off" /\ Len(<< >>) = 0
    BY DEF FreshSub, SubscriberRecords
  <1>2. /\ sub \in [Subscribers -> SubscriberRecords] /\ gtw \in GatewayRecords
        /\ sub["gateway"] \in SubscriberRecords /\ "gateway" \in Subscribers /\ "recorder" \in Subscribers
        /\ vdrv.wall \in Nat
    BY DEF StreamInv, StreamTypes, Subscribers, DriverStates
  <1>3. GatewayOK(vdrv, gtw, sub["gateway"]) /\ ScreenOK(vdrv, gtw, sub["gateway"], cl["hmi"])
    BY DEF StreamInv
  <1> DEFINE begun == [FreshSub EXCEPT !.pc = "top"]
  <1>4. /\ begun \in SubscriberRecords /\ begun.pipe = << >> /\ begun.last = 0 /\ begun.pc = "top"
    BY <1>1 DEF FreshSub, SubscriberRecords
  <1>5. CASE RecorderStarts
    <2>1. sub' = [sub EXCEPT !["recorder"] = begun] /\ UNCHANGED <<vdrv, gtw, cl>>
      BY <1>5 DEF RecorderStarts, SubGoto
    <2> HIDE DEF begun
    <2> QED BY <1>2, <1>4, <2>1, SubscriberMoves
  <1>6. CASE GatewayStarts
    <2> DEFINE n == gtw.life + 1
               up == [phase |-> "up", life |-> n, ts |-> 0, ver |-> 0, fresh |-> FALSE]
    <2>1. sub' = [sub EXCEPT !["gateway"] = begun] /\ gtw' = up /\ UNCHANGED <<vdrv, cl>>
      BY <1>6 DEF GatewayStarts, SubGoto
    <2>2. n \in Nat
      BY <1>2 DEF GatewayRecords
    <2> HIDE DEF n, begun
    <2>3. up \in GatewayRecords /\ up.phase = "up" /\ up.ts = 0 /\ up.ver = 0
      BY <2>2 DEF GatewayRecords
    <2> HIDE DEF up
    <2>4. GatewayOK(vdrv, up, begun) /\ ScreenOK(vdrv, up, begun, cl["hmi"])
      BY <1>1, <1>2, <1>3, <1>4, <2>3 DEF GatewayOK, ScreenOK
    <2> QED BY <1>2, <1>4, <2>1, <2>3, <2>4, SubscriberMoves
  <1>7. CASE GatewayStops
    <2> DEFINE off == [gtw EXCEPT !.phase = "off"]
    <2>1. sub' = [sub EXCEPT !["gateway"] = FreshSub] /\ gtw' = off /\ UNCHANGED <<vdrv, cl>>
      BY <1>7 DEF GatewayStops, SubGoto
    <2>2. off \in GatewayRecords /\ off.phase = "off" /\ off.ts = gtw.ts /\ off.ver = gtw.ver
      BY <1>2 DEF GatewayRecords
    <2> HIDE DEF off
    <2>3. GatewayOK(vdrv, off, FreshSub) /\ ScreenOK(vdrv, off, FreshSub, cl["hmi"])
      BY <1>1, <1>3, <2>2 DEF GatewayOK, ScreenOK
    <2> QED BY <1>1, <1>2, <2>1, <2>2, <2>3, SubscriberMoves
  <1>8. CASE GatewayAges
    <2> DEFINE aged == [gtw EXCEPT !.fresh = FALSE]
    <2>1. gtw' = aged /\ UNCHANGED <<vdrv, sub, cl>>
      BY <1>8 DEF GatewayAges
    <2>2. /\ aged \in GatewayRecords /\ aged.phase = gtw.phase /\ aged.ts = gtw.ts
          /\ aged.ver = gtw.ver
      BY <1>2 DEF GatewayRecords
    <2> HIDE DEF aged
    <2>3. GatewayOK(vdrv, aged, sub["gateway"]) /\ ScreenOK(vdrv, aged, sub["gateway"], cl["hmi"])
      BY <1>3, <2>2 DEF GatewayOK, ScreenOK
    <2>4. sub' = [sub EXCEPT !["gateway"] = sub["gateway"]]
      BY <1>2, <2>1
    <2> QED BY <1>2, <2>1, <2>2, <2>3, <2>4, SubscriberMoves
  <1> QED BY <1>5, <1>6, <1>7, <1>8

-----------------------------------------------------------------------------
(* The clients.                                                            *)

LEMMA ClientMoves ==
    ASSUME StreamInv, NEW c \in Clients, NEW r \in ClientRecords, cl' = [cl EXCEPT ![c] = r],
           UNCHANGED <<vdrv, sub, gtw>>,
           c = "hmi" => /\ ScreenOK(vdrv, gtw, sub["gateway"], r)
                        /\ r.got >= cl["hmi"].got,
           c = "sentinel" => PassedOver(cl["sentinel"], r, vdrv)
    PROVE  StreamInv' /\ StepInOrder
  <1>1. cl \in [Clients -> ClientRecords] /\ cl["hmi"] \in ClientRecords
        /\ cl["sentinel"] \in ClientRecords
    BY DEF StreamInv, StreamTypes, Clients
  <1>2. /\ cl' \in [Clients -> ClientRecords]
        /\ cl'["hmi"] = IF c = "hmi" THEN r ELSE cl["hmi"]
        /\ cl'["sentinel"] = IF c = "sentinel" THEN r ELSE cl["sentinel"]
    BY <1>1 DEF Clients
  <1>3. ScreenOK(vdrv, gtw, sub["gateway"], cl'["hmi"])
    BY <1>2 DEF StreamInv
  <1>4. StreamInv'
    BY <1>2, <1>3 DEF StreamInv, StreamTypes
  <1>5. cl["hmi"].got \in Nat /\ cl["sentinel"].pipe \in Seq(Nat)
    BY <1>1 DEF ClientRecords
  <1>6. cl'["hmi"].got >= cl["hmi"].got
    BY <1>2, <1>5
  <1>7. PassedOver(cl["sentinel"], cl'["sentinel"], vdrv)
    BY <1>2, <1>5 DEF PassedOver
  <1> QED BY <1>4, <1>6, <1>7 DEF StepInOrder

LEMMA ClientQuiet ==
    ASSUME StreamInv, NEW c \in Clients, NEW r \in ClientRecords, cl' = [cl EXCEPT ![c] = r],
           UNCHANGED <<vdrv, sub, gtw>>,
           r.pipe = cl[c].pipe \/ r.pipe = << >>, r.got = cl[c].got
    PROVE  StreamInv' /\ StepInOrder
  <1>1. cl[c] \in ClientRecords /\ vdrv \in DriverStates /\ gtw \in GatewayRecords
        /\ sub["gateway"] \in SubscriberRecords
    BY DEF StreamInv, StreamTypes, Subscribers
  <1>2. /\ cl[c].pipe \in Seq(Nat) /\ cl[c].got \in Nat /\ Len(<< >>) = 0 /\ vdrv.wall \in Nat
        /\ gtw.ts \in Nat /\ sub["gateway"].pipe \in Seq(Nat)
    BY <1>1 DEF ClientRecords, DriverStates, GatewayRecords, SubscriberRecords
  <1>3. ASSUME c = "hmi" PROVE ScreenOK(vdrv, gtw, sub["gateway"], r)
    <2>1. ScreenOK(vdrv, gtw, sub["gateway"], cl[c])
      BY <1>3 DEF StreamInv
    <2>2. CASE r.pipe = cl[c].pipe
      BY <2>1, <2>2 DEF ScreenOK, Ascends, Top
    <2>3. CASE r.pipe = << >> /\ cl[c].pipe # << >>
      <3>1. Len(cl[c].pipe) \in 1 .. Len(cl[c].pipe)
        BY <1>2, <2>3
      <3>2. Top(cl[c]) \in Nat /\ Top(r) <= Top(cl[c]) /\ Top(r) \in Nat
        <4>1. Top(r) = cl[c].got
          BY <2>3 DEF Top
        <4>2. Top(cl[c]) = cl[c].pipe[Len(cl[c].pipe)]
          BY <2>3 DEF Top
        <4>3. cl[c].got <= cl[c].pipe[Len(cl[c].pipe)]
          BY <2>1, <3>1 DEF ScreenOK, Ascends
        <4>4. cl[c].pipe[Len(cl[c].pipe)] \in Nat
          BY <1>2, <3>1, Elements
        <4> QED BY <1>2, <4>1, <4>2, <4>3, <4>4
      <3>3. Ascends(r)
        BY <1>2, <2>3 DEF Ascends
      <3>4. \A i \in 1 .. Len(sub["gateway"].pipe) : sub["gateway"].pipe[i] \in Nat
        BY <1>2, Elements
      <3>5. Top(r) <= vdrv.wall /\ (gtw.ver # 0 => Top(r) <= gtw.ts)
        BY <1>2, <2>1, <3>2 DEF ScreenOK
      <3>6. ASSUME gtw.ver = 0, NEW i \in 1 .. Len(sub["gateway"].pipe)
            PROVE  Top(r) <= sub["gateway"].pipe[i]
        <4>1. Top(cl[c]) <= sub["gateway"].pipe[i] /\ sub["gateway"].pipe[i] \in Nat
          BY <2>1, <3>4, <3>6 DEF ScreenOK
        <4> QED BY <3>2, <4>1
      <3> QED BY <3>3, <3>5, <3>6 DEF ScreenOK
    <2> QED BY <2>2, <2>3
  <1>4. c = "sentinel" => PassedOver(cl["sentinel"], r, vdrv)
    BY <1>2 DEF PassedOver
  <1>5. c = "hmi" => r.got >= cl["hmi"].got
    BY <1>2
  <1> QED BY <1>3, <1>4, <1>5, ClientMoves

(* The steps of a client that put nothing into its pipe and read nothing   *)
(* from it.                                                                *)
QuietSteps(c) ==
    ClientLoops(c) \/ ClientArms(c) \/ ClientChecks(c) \/ ReadEnds(c) \/ ClientFinishes(c)
        \/ ClientJoins(c)

LEMMA ClientGoesOn ==
    ASSUME StreamInv, NEW c \in Clients, QuietSteps(c)
    PROVE  StreamInv' /\ StepInOrder
  <1>1. cl[c] \in ClientRecords /\ vdrv.life \in Nat /\ vdrv.events \in Nat /\ gtw.life \in Nat
    BY DEF StreamInv, StreamTypes, DriverStates, GatewayRecords
  <1>2. << >> \in Seq(Nat) /\ 0 \in Nat
    OBVIOUS
  <1>3. PICK r : /\ r \in ClientRecords /\ cl' = [cl EXCEPT ![c] = r]
                 /\ r.pipe = cl[c].pipe \/ r.pipe = << >>
                 /\ r.got = cl[c].got
    <2>1. CASE ClientLoops(c)
      <3> DEFINE pc == IF cl[c].run THEN "arm" ELSE "done"
                 r == [cl[c] EXCEPT !.pc = pc]
      <3>1. cl' = [cl EXCEPT ![c] = r] /\ pc \in {"arm", "done"}
        BY <2>1 DEF ClientLoops, ClGoto
      <3> HIDE DEF pc
      <3>2. r \in ClientRecords /\ r.pipe = cl[c].pipe /\ r.got = cl[c].got
        BY <1>1, <3>1 DEF ClientRecords
      <3> QED BY <3>1, <3>2
    <2>2. CASE ClientArms(c)
      <3> DEFINE r == [cl[c] EXCEPT !.pc = "check", !.ctx = TRUE, !.cancelled = FALSE,
                                    !.conn = 0, !.pipe = << >>]
      <3>1. cl' = [cl EXCEPT ![c] = r]
        BY <2>2 DEF ClientArms, ClGoto
      <3>2. r \in ClientRecords /\ r.pipe = << >> /\ r.got = cl[c].got
        BY <1>1, <1>2 DEF ClientRecords
      <3> QED BY <3>1, <3>2
    <2>3. CASE ClientChecks(c)
      <3> DEFINE pc == IF cl[c].run THEN "read" ELSE "finish"
                 r == [cl[c] EXCEPT !.pc = pc]
      <3>1. cl' = [cl EXCEPT ![c] = r] /\ pc \in {"read", "finish"}
        BY <2>3 DEF ClientChecks, ClGoto
      <3> HIDE DEF pc
      <3>2. r \in ClientRecords /\ r.pipe = cl[c].pipe /\ r.got = cl[c].got
        BY <1>1, <3>1 DEF ClientRecords
      <3> QED BY <3>1, <3>2
    <2>4. CASE ReadEnds(c)
      <3> DEFINE r == [cl[c] EXCEPT !.pc = "finish"]
      <3>1. cl' = [cl EXCEPT ![c] = r]
        BY <2>4 DEF ReadEnds, ClGoto
      <3>2. r \in ClientRecords /\ r.pipe = cl[c].pipe /\ r.got = cl[c].got
        BY <1>1 DEF ClientRecords
      <3> QED BY <3>1, <3>2
    <2>5. CASE ClientFinishes(c)
      <3>1. PICK pc \in {"loop", "done"} :
              cl' = [cl EXCEPT ![c] = [cl[c] EXCEPT !.pc = pc, !.ctx = FALSE, !.pipe = << >>,
                                                   !.shown = FALSE]]
        BY <2>5 DEF ClientFinishes, ClGoto
      <3> DEFINE r == [cl[c] EXCEPT !.pc = pc, !.ctx = FALSE, !.pipe = << >>, !.shown = FALSE]
      <3>2. r \in ClientRecords /\ r.pipe = << >> /\ r.got = cl[c].got
        BY <1>1, <1>2 DEF ClientRecords
      <3> QED BY <3>1, <3>2
    <2>6. CASE ClientJoins(c)
      <3> DEFINE life == Server(c).life
                 seen == IF c = "hmi" THEN 0 ELSE vdrv.events
                 r == [cl[c] EXCEPT !.conn = life, !.seen = seen]
      <3>1. cl' = [cl EXCEPT ![c] = r]
        BY <2>6 DEF ClientJoins, ClGoto
      <3>2. life \in Nat /\ seen \in Nat
        BY <1>1, <1>2 DEF Server
      <3> HIDE DEF life, seen
      <3>3. r \in ClientRecords /\ r.pipe = cl[c].pipe /\ r.got = cl[c].got
        BY <1>1, <3>2 DEF ClientRecords
      <3> QED BY <3>1, <3>3
    <2> QED BY <2>1, <2>2, <2>3, <2>4, <2>5, <2>6 DEF QuietSteps
  <1>4. UNCHANGED <<vdrv, sub, gtw>>
    BY DEF QuietSteps, ClientLoops, ClientArms, ClientChecks, ReadEnds, ClientFinishes, ClientJoins,
           ClGoto
  <1> QED BY <1>3, <1>4, ClientQuiet

(* The threads that start and stop a client.                               *)
LEMMA ClientIsTold ==
    ASSUME StreamInv, NEW c \in Clients,
           \/ ClGoto(c, [cl[c] EXCEPT !.pc = "loop"])
           \/ ClGoto(c, [cl[c] EXCEPT !.run = FALSE])
           \/ ClGoto(c, ClientStops(c))
    PROVE  StreamInv' /\ StepInOrder
  <1>1. cl[c] \in ClientRecords
    BY DEF StreamInv, StreamTypes
  <1> DEFINE over == cl[c].cancelled \/ cl[c].ctx
  <1>2. over \in BOOLEAN
    BY <1>1 DEF ClientRecords
  <1>3. ClientStops(c) = [cl[c] EXCEPT !.run = FALSE, !.cancelled = over]
    BY DEF ClientStops
  <1> HIDE DEF over
  <1>4. PICK r : /\ r \in ClientRecords /\ ClGoto(c, r)
                 /\ r.pipe = cl[c].pipe /\ r.got = cl[c].got
    <2>1. CASE ClGoto(c, [cl[c] EXCEPT !.pc = "loop"])
      <3> DEFINE r == [cl[c] EXCEPT !.pc = "loop"]
      <3>1. r \in ClientRecords /\ r.pipe = cl[c].pipe /\ r.got = cl[c].got
        BY <1>1 DEF ClientRecords
      <3> QED BY <2>1, <3>1
    <2>2. CASE ClGoto(c, [cl[c] EXCEPT !.run = FALSE])
      <3> DEFINE r == [cl[c] EXCEPT !.run = FALSE]
      <3>1. r \in ClientRecords /\ r.pipe = cl[c].pipe /\ r.got = cl[c].got
        BY <1>1 DEF ClientRecords
      <3> QED BY <2>2, <3>1
    <2>3. CASE ClGoto(c, ClientStops(c))
      <3> DEFINE r == [cl[c] EXCEPT !.run = FALSE, !.cancelled = over]
      <3>1. r \in ClientRecords /\ r.pipe = cl[c].pipe /\ r.got = cl[c].got
        BY <1>1, <1>2 DEF ClientRecords
      <3>2. ClGoto(c, r)
        BY <1>3, <2>3
      <3> QED BY <3>1, <3>2
    <2> QED BY <2>1, <2>2, <2>3
  <1>5. cl' = [cl EXCEPT ![c] = r] /\ UNCHANGED <<vdrv, sub, gtw>>
    BY <1>4 DEF ClGoto
  <1> QED BY <1>4, <1>5, ClientQuiet

LEMMA ScreenIsSent ==
    ASSUME StreamInv, SubscribeCockpitEvents PROVE StreamInv' /\ StepInOrder
  <1> DEFINE p == Append(cl["hmi"].pipe, gtw.ts)
             r == [cl["hmi"] EXCEPT !.seen = gtw.ver, !.pipe = p]
  <1>1. cl' = [cl EXCEPT !["hmi"] = r] /\ UNCHANGED <<vdrv, sub, gtw>>
    BY DEF SubscribeCockpitEvents, ClGoto
  <1>2. cl["hmi"] \in ClientRecords /\ gtw \in GatewayRecords
    BY DEF StreamInv, StreamTypes, Clients
  <1>3. /\ cl["hmi"].pipe \in Seq(Nat) /\ cl["hmi"].got \in Nat /\ cl["hmi"].seen \in Nat
        /\ gtw.ver \in Nat /\ gtw.ts \in Nat
    BY <1>2 DEF ClientRecords, GatewayRecords
  <1>4. gtw.ver # 0
    BY <1>3 DEF SubscribeCockpitEvents
  <1>5. ScreenOK(vdrv, gtw, sub["gateway"], cl["hmi"]) /\ gtw.ts <= vdrv.wall
    BY DEF StreamInv, GatewayOK
  <1>6. Top(cl["hmi"]) <= gtw.ts /\ Ascends(cl["hmi"])
    BY <1>4, <1>5 DEF ScreenOK
  <1>0. p = Append(cl["hmi"].pipe, gtw.ts)
    OBVIOUS
  <1> HIDE DEF p
  <1>7. /\ p \in Seq(Nat) /\ p # << >> /\ Len(p) = Len(cl["hmi"].pipe) + 1 /\ p[Len(p)] = gtw.ts
        /\ \A i \in 1 .. Len(p) :
             i = Len(p) \/ (i \in 1 .. Len(cl["hmi"].pipe) /\ p[i] = cl["hmi"].pipe[i])
    <2>1. cl["hmi"].pipe \in Seq(Nat) /\ gtw.ts \in Nat
      BY <1>3
    <2> QED BY <1>0, <2>1, Appended
  <1>8. cl["hmi"].got <= gtw.ts
    <2>1. CASE cl["hmi"].pipe = << >>
      BY <1>6, <2>1 DEF Top
    <2>2. CASE cl["hmi"].pipe # << >>
      <3>1. cl["hmi"].pipe \in Seq(Nat)
        BY <1>3
      <3>2. /\ Len(cl["hmi"].pipe) \in 1 .. Len(cl["hmi"].pipe)
            /\ cl["hmi"].pipe[Len(cl["hmi"].pipe)] \in Nat
        BY <2>2, <3>1, Elements
      <3>3. cl["hmi"].got <= cl["hmi"].pipe[Len(cl["hmi"].pipe)]
        BY <1>6, <3>2 DEF Ascends
      <3>4. cl["hmi"].pipe[Len(cl["hmi"].pipe)] <= gtw.ts
        BY <1>6, <2>2 DEF Top
      <3> QED BY <1>3, <3>2, <3>3, <3>4
    <2> QED BY <2>1, <2>2
  <1>9. \A i \in 1 .. Len(cl["hmi"].pipe) : cl["hmi"].pipe[i] <= gtw.ts
    <2> SUFFICES ASSUME NEW i \in 1 .. Len(cl["hmi"].pipe) PROVE cl["hmi"].pipe[i] <= gtw.ts
      OBVIOUS
    <2>0. cl["hmi"].pipe \in Seq(Nat)
      BY <1>3
    <2>1. /\ cl["hmi"].pipe # << >> /\ Len(cl["hmi"].pipe) \in 1 .. Len(cl["hmi"].pipe)
          /\ i <= Len(cl["hmi"].pipe)
      BY <2>0
    <2>2. cl["hmi"].pipe[i] <= cl["hmi"].pipe[Len(cl["hmi"].pipe)]
      BY <1>6, <2>1 DEF Ascends
    <2>3. cl["hmi"].pipe[Len(cl["hmi"].pipe)] \in Nat /\ cl["hmi"].pipe[i] \in Nat
      BY <2>0, <2>1, Elements
    <2>4. cl["hmi"].pipe[Len(cl["hmi"].pipe)] <= gtw.ts
      BY <1>6, <2>1 DEF Top
    <2>5. gtw.ts \in Nat
      BY <1>3
    <2> QED BY <2>2, <2>3, <2>4, <2>5
  <1>10. r \in ClientRecords /\ r.pipe = p /\ r.got = cl["hmi"].got
    BY <1>2, <1>3, <1>7 DEF ClientRecords
  <1> HIDE DEF r
  <1>11. Ascends(r)
    <2>1. \A i \in 1 .. Len(p) : r.got <= p[i]
      BY <1>3, <1>6, <1>7, <1>8, <1>10 DEF Ascends
    <2>2. \A i, j \in 1 .. Len(p) : i <= j => p[i] <= p[j]
      <3> SUFFICES ASSUME NEW i \in 1 .. Len(p), NEW j \in 1 .. Len(p), i <= j PROVE p[i] <= p[j]
        OBVIOUS
      <3>1. CASE j = Len(p)
        <4>1. p[j] = gtw.ts
          BY <1>7, <3>1
        <4>2. i = Len(p) \/ (i \in 1 .. Len(cl["hmi"].pipe) /\ p[i] = cl["hmi"].pipe[i])
          BY <1>7
        <4>3. p[i] = gtw.ts \/ p[i] <= gtw.ts
          BY <1>7, <1>9, <4>2
        <4>4. gtw.ts <= gtw.ts
          BY <1>3
        <4> QED BY <4>1, <4>3, <4>4
      <3>2. CASE j # Len(p)
        <4>1. j \in 1 .. Len(cl["hmi"].pipe) /\ p[j] = cl["hmi"].pipe[j]
          BY <1>7, <3>2
        <4>2. i # Len(p)
          BY <1>3, <1>7, <4>1
        <4>3. i \in 1 .. Len(cl["hmi"].pipe) /\ p[i] = cl["hmi"].pipe[i]
          BY <1>7, <4>2
        <4> QED BY <1>6, <4>1, <4>3 DEF Ascends
      <3> QED BY <3>1, <3>2
    <2> QED BY <1>10, <2>1, <2>2 DEF Ascends
  <1>12. Top(r) = gtw.ts
    BY <1>7, <1>10 DEF Top
  <1>13. ScreenOK(vdrv, gtw, sub["gateway"], r)
    BY <1>3, <1>4, <1>5, <1>11, <1>12 DEF ScreenOK
  <1>14. r.got >= cl["hmi"].got
    BY <1>3, <1>10
  <1> QED BY <1>1, <1>10, <1>13, <1>14, ClientMoves DEF Clients

LEMMA ScreenIsRead ==
    ASSUME StreamInv, HmiReads PROVE StreamInv' /\ StepInOrder
  <1> DEFINE old == cl["hmi"]
             rest == Tail(old.pipe)
             first == Head(old.pipe)
             r == [old EXCEPT !.pc = "check", !.pipe = rest, !.got = first, !.shown = TRUE]
  <1>1. cl' = [cl EXCEPT !["hmi"] = r] /\ UNCHANGED <<vdrv, sub, gtw>> /\ old.pipe # << >>
    BY DEF HmiReads, ClGoto
  <1>2. old \in ClientRecords /\ ScreenOK(vdrv, gtw, sub["gateway"], old)
    BY DEF StreamInv, StreamTypes, Clients
  <1> HIDE DEF old
  <1>3. old.pipe \in Seq(Nat) /\ old.got \in Nat
    BY <1>2 DEF ClientRecords
  <1>4. /\ first \in Nat /\ Len(old.pipe) \in Nat \ {0} /\ first = old.pipe[1]
        /\ rest \in Seq(Nat) /\ Len(rest) = Len(old.pipe) - 1
        /\ \A i \in 1 .. Len(rest) : i + 1 \in 1 .. Len(old.pipe) /\ rest[i] = old.pipe[i + 1]
    BY <1>1, <1>3
  <1> HIDE DEF first, rest
  <1>5. r \in ClientRecords /\ r.pipe = rest /\ r.got = first
    BY <1>2, <1>4 DEF ClientRecords
  <1> HIDE DEF r
  <1>6. Ascends(old)
    BY <1>2 DEF ScreenOK
  <1>7. first >= old.got
    BY <1>3, <1>4, <1>6 DEF Ascends
  <1>8. Ascends(r)
    <2>1. ASSUME NEW i \in 1 .. Len(rest) PROVE first <= rest[i]
      <3>1. i + 1 \in 1 .. Len(old.pipe) /\ rest[i] = old.pipe[i + 1] /\ first = old.pipe[1]
        BY <1>4
      <3>2. Len(old.pipe) \in Nat \ {0} /\ i \in Nat
        BY <1>4
      <3>3. 1 \in 1 .. Len(old.pipe) /\ 1 <= i + 1
        BY <3>2
      <3>4. old.pipe[1] <= old.pipe[i + 1]
        BY <1>6, <3>1, <3>3 DEF Ascends
      <3> QED BY <3>1, <3>4
    <2>2. \A i, j \in 1 .. Len(rest) : i <= j => rest[i] <= rest[j]
      <3> SUFFICES ASSUME NEW i \in 1 .. Len(rest), NEW j \in 1 .. Len(rest), i <= j
                   PROVE  rest[i] <= rest[j]
        OBVIOUS
      <3>1. /\ rest[i] = old.pipe[i + 1] /\ rest[j] = old.pipe[j + 1]
            /\ i + 1 \in 1 .. Len(old.pipe) /\ j + 1 \in 1 .. Len(old.pipe) /\ i + 1 <= j + 1
        BY <1>4
      <3> QED BY <1>6, <3>1 DEF Ascends
    <2> QED BY <1>5, <2>1, <2>2 DEF Ascends
  <1>9. Top(r) = Top(old)
    <2>1. CASE rest = << >>
      <3>1. Len(old.pipe) = 1
        BY <1>4, <2>1
      <3> QED BY <1>1, <1>4, <1>5, <2>1, <3>1 DEF Top
    <2>2. CASE rest # << >>
      <3>1. Len(rest) \in 1 .. Len(rest) /\ Len(rest) + 1 = Len(old.pipe)
        BY <1>4, <2>2
      <3>2. rest[Len(rest)] = old.pipe[Len(old.pipe)]
        BY <1>4, <3>1
      <3> QED BY <1>1, <1>5, <2>2, <3>2 DEF Top
    <2> QED BY <2>1, <2>2
  <1>10. ScreenOK(vdrv, gtw, sub["gateway"], r)
    BY <1>2, <1>8, <1>9 DEF ScreenOK
  <1> QED BY <1>1, <1>5, <1>7, <1>10, ClientMoves DEF Clients, old

LEMMA Behind ==
    ASSUME NEW d \in Nat, NEW x \in Nat, NEW h, h = d + 1, x < d
    PROVE  x + 1 < h /\ h - 1 = d
  OBVIOUS

LEMMA EventIsSent ==
    ASSUME StreamInv, SubscribeChassisEvents PROVE StreamInv' /\ StepInOrder
  <1> DEFINE old == cl["sentinel"]
  <1>1. PICK i \in 1 .. Len(vdrv.ring) :
           /\ vdrv.ring[i] > CaughtUp(old.seen)
           /\ \A j \in 1 .. i - 1 : vdrv.ring[j] <= CaughtUp(old.seen)
           /\ ClGoto("sentinel", [old EXCEPT !.seen = vdrv.ring[i],
                                             !.pipe = Append(@, vdrv.ring[i])])
    BY DEF SubscribeChassisEvents
  <1> DEFINE v == vdrv.ring[i]
             p == Append(old.pipe, v)
             r == [old EXCEPT !.seen = v, !.pipe = p]
  <1>2. cl' = [cl EXCEPT !["sentinel"] = r] /\ UNCHANGED <<vdrv, sub, gtw>>
    BY <1>1 DEF ClGoto
  <1>3. old \in ClientRecords /\ vdrv \in DriverStates /\ RingIsWindow(vdrv)
    BY DEF StreamInv, StreamTypes, Clients, DriverOK
  <1>4. /\ old.pipe \in Seq(Nat) /\ old.seen \in Nat /\ vdrv.ring \in Seq(Nat)
        /\ vdrv.dropped \in Nat /\ Len(vdrv.ring) \in Nat
    <2>1. old.pipe \in Seq(Nat) /\ old.seen \in Nat
      BY <1>3 DEF ClientRecords
    <2>2. vdrv.ring \in Seq(Nat) /\ vdrv.dropped \in Nat
      BY <1>3 DEF DriverStates
    <2> QED BY <2>1, <2>2, Elements
  <1>5. /\ v = vdrv.dropped + i /\ v \in Nat /\ Head(vdrv.ring) = vdrv.dropped + 1
        /\ \A j \in 1 .. i - 1 : vdrv.ring[j] = vdrv.dropped + j
    BY <1>3, <1>4 DEF RingIsWindow, IsWindow
  <1>6. v > old.seen /\ \A n \in old.seen + 1 .. v - 1 : n <= vdrv.dropped
    <2>1. CASE old.seen < vdrv.dropped
      <3>1. CaughtUp(old.seen) = vdrv.dropped
        <4>1. old.seen + 1 < Head(vdrv.ring) /\ Head(vdrv.ring) - 1 = vdrv.dropped
          <5>1. Head(vdrv.ring) = vdrv.dropped + 1
            BY <1>5
          <5> QED BY <1>4, <2>1, <5>1, Behind
        <4> QED BY <4>1 DEF CaughtUp
      <3>2. i = 1
        <4> SUFFICES ASSUME i # 1 PROVE FALSE
          OBVIOUS
        <4>1. 1 \in 1 .. i - 1
          BY <1>4
        <4>2. vdrv.ring[1] <= vdrv.dropped
          BY <1>1, <3>1, <4>1
        <4>3. vdrv.ring[1] = vdrv.dropped + 1
          BY <1>5, <4>1
        <4>4. vdrv.dropped \in Nat
          BY <1>4
        <4> QED BY <4>2, <4>3, <4>4
      <3> QED BY <1>4, <1>5, <2>1, <3>2
    <2>2. CASE old.seen >= vdrv.dropped
      <3>1. CaughtUp(old.seen) = old.seen
        <4>1. Head(vdrv.ring) = vdrv.dropped + 1
          BY <1>5
        <4>2. vdrv.dropped \in Nat /\ old.seen \in Nat
          BY <1>4
        <4>3. ~(old.seen + 1 < Head(vdrv.ring))
          BY <2>2, <4>1, <4>2
        <4> QED BY <4>3 DEF CaughtUp
      <3>2. v > old.seen
        BY <1>1, <3>1
      <3>3. vdrv.dropped + i <= old.seen + 1
        <4>1. CASE i = 1
          BY <1>4, <2>2, <4>1
        <4>2. CASE i # 1
          <5>1. i - 1 \in 1 .. i - 1
            BY <1>4, <4>2
          <5>2. vdrv.dropped + (i - 1) <= old.seen
            BY <1>1, <1>5, <3>1, <5>1
          <5> QED BY <1>4, <5>2
        <4> QED BY <4>1, <4>2
      <3>4. v <= old.seen + 1
        BY <1>5, <3>3
      <3>5. v \in Nat /\ old.seen \in Nat
        BY <1>4, <1>5
      <3> HIDE DEF v
      <3> QED BY <3>2, <3>4, <3>5
    <2> QED BY <1>4, <2>1, <2>2
  <1>0. p = Append(old.pipe, v)
    OBVIOUS
  <1> HIDE DEF v, p, old
  <1>7. p \in Seq(Nat) /\ Len(p) \in Nat \ {0} /\ p[Len(p)] = v
    <2>1. old.pipe \in Seq(Nat) /\ v \in Nat
      BY <1>4, <1>5
    <2> QED BY <1>0, <2>1, Appended
  <1>8. r \in ClientRecords /\ r.pipe = p /\ r.seen = v
    BY <1>3, <1>5, <1>7 DEF ClientRecords
  <1> HIDE DEF r
  <1>9. PassedOver(old, r, vdrv)
    BY <1>6, <1>7, <1>8 DEF PassedOver, Last
  <1> QED BY <1>2, <1>8, <1>9, ClientMoves DEF Clients, old

LEMMA EventIsRead ==
    ASSUME StreamInv, SentinelReads PROVE StreamInv' /\ StepInOrder
  <1> DEFINE old == cl["sentinel"]
             rest == Tail(old.pipe)
             first == Head(old.pipe)
             r == [old EXCEPT !.pc = "check", !.pipe = rest, !.got = first]
  <1>1. cl' = [cl EXCEPT !["sentinel"] = r] /\ UNCHANGED <<vdrv, sub, gtw>> /\ old.pipe # << >>
    BY DEF SentinelReads, ClGoto
  <1>2. old \in ClientRecords
    BY DEF StreamInv, StreamTypes, Clients
  <1> HIDE DEF old
  <1>3. old.pipe \in Seq(Nat)
    BY <1>2 DEF ClientRecords
  <1>4. /\ first \in Nat /\ Len(old.pipe) \in Nat \ {0}
        /\ rest \in Seq(Nat) /\ Len(rest) = Len(old.pipe) - 1
    BY <1>1, <1>3
  <1> HIDE DEF first, rest
  <1>5. r \in ClientRecords /\ r.pipe = rest
    BY <1>2, <1>4 DEF ClientRecords
  <1> HIDE DEF r
  <1>6. PassedOver(old, r, vdrv)
    BY <1>4, <1>5 DEF PassedOver
  <1> QED BY <1>1, <1>5, <1>6, ClientMoves DEF Clients, old

LEMMA StreamsStep ==
    ASSUME StreamInv, StreamsNext PROVE StreamInv' /\ StepInOrder
  <1>1. CASE DriverStarts \/ DriverStops \/ ReceiveTimesOut \/ ReceiveFails \/ PublishEvent
             \/ (\E now \in 1 .. MaxWall : VehicleFrame(now))
             \/ (\E busOff \in BOOLEAN : ErrorFrame(busOff))
    BY <1>1, DriverSteps, EventPublished
  <1>2. ASSUME NEW s \in Subscribers,
               SubSteps(s) \/ StreamJoins(s) \/ SubscribeVehicleState(s) \/ StreamEnds(s)
                 \/ SubscriberStops(s)
        PROVE  StreamInv' /\ StepInOrder
    BY <1>2, SubscriberSteps, StateIsSent, StateIsRead DEF SubSteps
  <1>3. CASE RecorderStarts \/ GatewayStarts \/ GatewayStops \/ GatewayAges
    BY <1>3, GatewaySteps
  <1>4. ASSUME NEW c \in Clients, ClientSteps(c) \/ ClientJoins(c)
        PROVE  StreamInv' /\ StepInOrder
    BY <1>4, ClientGoesOn DEF ClientSteps, QuietSteps
  <1>5. CASE HmiStarts \/ HmiStops
    BY <1>5, ClientIsTold DEF HmiStarts, HmiStops, Clients
  <1>6. CASE SubscribeCockpitEvents \/ HmiReads \/ SubscribeChassisEvents
    BY <1>6, ScreenIsSent, ScreenIsRead, EventIsSent
  <1>7. CASE AskBegins \/ AskSteps \/ AskDeadline \/ AskCancelled
    <2>1. UNCHANGED <<vdrv, sub, gtw, cl>>
      BY <1>7 DEF AskBegins, AskSteps, AskTries, AskAnswered, AskExpires, AskWaits, AskDeadline,
                  AskCancelled, AskGoto
    <2>2. StreamInv'
      BY <2>1 DEF StreamInv, StreamTypes
    <2> QED BY <2>1, <2>2, NothingNew DEF StreamInv
  <1> QED BY <1>1, <1>2, <1>3, <1>4, <1>5, <1>6, <1>7 DEF StreamsNext, Clients

LEMMA SentinelStep ==
    ASSUME StreamInv, SentinelNext PROVE StreamInv' /\ StepInOrder
  <1>1. CASE StreamsNext
    BY <1>1, StreamsStep
  <1>2. CASE EventsStart
    BY <1>2, ClientIsTold DEF EventsStart, Clients
  <1>3. CASE SentinelReads
    BY <1>3, EventIsRead
  <1>4. CASE SentinelStops \/ StopEvents
    BY <1>4, ClientIsTold DEF SentinelStops, StopEvents, Clients
  <1>5. CASE UNCHANGED streamVars
    BY <1>5, StreamsUntouched
  <1>6. SentinelNext =>
           \/ StreamsNext \/ EventsStart \/ SentinelReads \/ SentinelStops \/ StopEvents
           \/ UNCHANGED streamVars
    BY DEF SentinelNext, SentinelStarts, SenGoto, Arm, DisarmBegins, DisarmEnds, CooldownElapses,
           RunSteps, RunTop, RunPops, RunWaits, RunCalls, RunCallFails, RunFinishes, RunJudges,
           RunAnswered, StopSteps, StopFlag, StopQueue, StopJoins, StopJoinsEvents
  <1> QED BY <1>1, <1>2, <1>3, <1>4, <1>5, <1>6

-----------------------------------------------------------------------------
(* The camera's video.                                                     *)

Fragments == {<< >>} \cup (Nat \X Nat)
DatagramRecords ==
    [frame : Nat, index : Nat, total : Nat, pts : Nat, key : BOOLEAN, serial : Nat, opens : Nat]
PacketRecords == [serials : SUBSET (Nat \X Nat), key : BOOLEAN, pts : Nat]
PublisherRecords ==
    [opens : Nat, serial : Nat, frame : Nat,
     packet : [serial : Nat, total : Nat, sent : Nat, key : BOOLEAN, pts : Nat]]
RtspRecords ==
    [pc : {"none", "receive", "ended"}, loop : {"none", "starting", "running", "ended"},
     frame : Nat, expected : Nat, fragments : Seq(Fragments), key : BOOLEAN, pts : Nat,
     origin : Nat, last : Nat, haveInput : BOOLEAN, pending : PacketRecords, source : Nat,
     viewers : Nat, pushed : PacketRecords, stopping : BOOLEAN,
     stop : {"none", "quit", "join", "returned"}]
VideoTypes ==
    /\ publisher \in PublisherRecords /\ datagrams \in Seq(DatagramRecords) /\ rtsp \in RtspRecords

(* The packet that is being sent, and a datagram.                          *)
PublisherOK(p) ==
    p.packet # Idle =>
        /\ p.packet.sent < p.packet.total /\ p.packet.serial = p.serial /\ p.packet.serial # 0
        /\ p.frame = p.packet.pts + 1
DatagramOK(d) == d.pts = d.frame /\ d.index \in 1 .. d.total

(* A fragment that was collected, as the datagram it came in, and the next *)
(* datagram the publisher will send, of this packet or of the next one.    *)
Collected(r, i) ==
    [opens |-> r.fragments[i][1], serial |-> r.fragments[i][2], frame |-> r.frame, index |-> i,
     total |-> r.expected]
Filled(r) == {i \in 1 .. r.expected : r.fragments[i] # << >>}
Coming(p) ==
    IF p.packet = Idle
    THEN [opens |-> p.opens, serial |-> p.serial + 1, frame |-> p.frame, index |-> 1, total |-> 0]
    ELSE [opens |-> p.opens, serial |-> p.serial, frame |-> p.frame - 1,
          index |-> p.packet.sent + 1, total |-> p.packet.total]

(* x is sent before y.  In one opening of the publisher frames and serials *)
(* keep step.                                                              *)
Before(x, y) ==
    /\ x.opens <= y.opens /\ x.serial <= y.serial
    /\ x.opens = y.opens => x.serial + y.frame = y.serial + x.frame
    /\ x.serial = y.serial => x.opens = y.opens /\ x.total = y.total /\ x.index < y.index

QueueOK(p, q) ==
    /\ \A i \in 1 .. Len(q) : DatagramOK(q[i]) /\ Before(q[i], Coming(p))
    /\ \A i, j \in 1 .. Len(q) : i < j => Before(q[i], q[j])
CollectionOK(p, q, r) ==
    r.expected # 0 =>
        /\ Len(r.fragments) = r.expected /\ r.pts = r.frame
        /\ \A i \in Filled(r) :
              /\ Before(Collected(r, i), Coming(p))
              /\ \A j \in 1 .. Len(q) : Before(Collected(r, i), q[j])
        /\ \A i, j \in Filled(r) :
              r.fragments[i][1] = r.fragments[j][1] => r.fragments[i] = r.fragments[j]

(* What the media was given as P came before x; x can only have the rest   *)
(* of a packet that went into a mixed one.  While no more than one opening *)
(* of the publisher is concerned the time stamps go on.                    *)
Span(r) == IF r.last > r.origin THEN r.last - r.origin ELSE 0
Gone(P, x, r) ==
    \A f \in P.serials :
       /\ f[1] <= x.opens /\ f[2] <= x.serial
       /\ f[2] = x.serial => Mixed(P) /\ x.index > 1
       /\ ~Mixed(P) /\ f[1] = x.opens =>
             r.haveInput /\ r.last < x.frame /\ P.pts <= Span(r)
Whole(P) == P = NoPacket \/ (P.serials # {} /\ (Mixed(P) \/ \A f, g \in P.serials : f = g))
PacketOK(P, p, q, r) ==
    /\ Whole(P) /\ Gone(P, Coming(p), r)
    /\ \A i \in 1 .. Len(q) : Gone(P, q[i], r)
    /\ r.expected # 0 => \A i \in Filled(r) : Gone(P, Collected(r, i), r)

VideoOK(p, q, r) ==
    /\ PublisherOK(p) /\ QueueOK(p, q) /\ CollectionOK(p, q, r)
    /\ PacketOK(r.pushed, p, q, r) /\ PacketOK(r.pending, p, q, r)
VideoInv == VideoTypes /\ VideoOK(publisher, datagrams, rtsp)

(* What these say of an item of the video, a datagram or a fragment.       *)
IsItem(x) ==
    /\ x.opens \in Nat /\ x.serial \in Nat /\ x.frame \in Nat /\ x.index \in Nat \ {0}
    /\ x.total \in Nat
SameItem(x, y) ==
    /\ x.opens = y.opens /\ x.serial = y.serial /\ x.frame = y.frame /\ x.index = y.index
    /\ x.total = y.total

(* n is sent after m, or some time later.                                  *)
Follows(m, n) ==
    \/ /\ n.opens = m.opens /\ n.serial = m.serial /\ n.frame = m.frame
       /\ n.index = 1 /\ m.index = 1
    \/ /\ n.opens = m.opens /\ n.serial = m.serial /\ n.frame = m.frame
       /\ n.total = m.total /\ n.index >= m.index
    \/ /\ n.opens = m.opens /\ n.serial = m.serial + 1 /\ n.frame = m.frame + 1 /\ n.index = 1
    \/ /\ n.opens = m.opens + 1 /\ n.index = 1
       /\ n.serial = m.serial + 1 \/ (n.serial = m.serial /\ m.index = 1)

LEMMA BeforeLater ==
    ASSUME NEW x, NEW m, NEW n, IsItem(x), IsItem(m), IsItem(n), Before(x, m), Follows(m, n)
    PROVE  Before(x, n)
  BY DEF IsItem, Before, Follows

(* m itself is before what follows it, unless it stays the next one.       *)
LEMMA GoneLater ==
    ASSUME NEW P \in PacketRecords, NEW m, NEW n, NEW r, IsItem(m), IsItem(n), Follows(m, n),
           Gone(P, m, r), r \in RtspRecords
    PROVE  Gone(P, n, r)
  <1>1. SUFFICES ASSUME NEW f \in P.serials
        PROVE  /\ f[1] <= n.opens /\ f[2] <= n.serial
               /\ f[2] = n.serial => Mixed(P) /\ n.index > 1
               /\ ~Mixed(P) /\ f[1] = n.opens =>
                     r.haveInput /\ r.last < n.frame /\ P.pts <= Span(r)
    BY DEF Gone
  <1>2. f[1] \in Nat /\ f[2] \in Nat
    BY DEF PacketRecords
  <1>3. r.last \in Nat
    BY DEF RtspRecords
  <1>4. /\ f[1] <= m.opens /\ f[2] <= m.serial
        /\ f[2] = m.serial => Mixed(P) /\ m.index > 1
        /\ ~Mixed(P) /\ f[1] = m.opens =>
              r.haveInput /\ r.last < m.frame /\ P.pts <= Span(r)
    BY DEF Gone
  <1> QED BY <1>2, <1>3, <1>4 DEF IsItem, Follows

LEMMA SameBefore ==
    ASSUME NEW x, NEW y, SameItem(x, y)
    PROVE  /\ \A z : Before(x, z) <=> Before(y, z)
           /\ \A z : Before(z, x) <=> Before(z, y)
           /\ \A P, r : Gone(P, x, r) <=> Gone(P, y, r)
           /\ IsItem(x) <=> IsItem(y)
  <1>1. \A z : Before(x, z) <=> Before(y, z)
    BY DEF SameItem, Before
  <1>2. \A z : Before(z, x) <=> Before(z, y)
    BY DEF SameItem, Before
  <1>3. \A P, r : Gone(P, x, r) <=> Gone(P, y, r)
    BY DEF SameItem, Gone
  <1>4. IsItem(x) <=> IsItem(y)
    BY DEF SameItem, IsItem
  <1> QED BY <1>1, <1>2, <1>3, <1>4

LEMMA ComingIsItem ==
    ASSUME NEW p \in PublisherRecords, PublisherOK(p)
    PROVE  IsItem(Coming(p))
  BY DEF PublisherRecords, PublisherOK, IsItem, Coming

LEMMA QueuedIsItem ==
    ASSUME NEW d \in DatagramRecords, DatagramOK(d)
    PROVE  IsItem(d)
  BY DEF DatagramRecords, DatagramOK, IsItem

LEMMA CollectedIsItem ==
    ASSUME NEW r \in RtspRecords, r.expected # 0, Len(r.fragments) = r.expected,
           NEW i \in Filled(r)
    PROVE  /\ IsItem(Collected(r, i)) /\ i \in 1 .. r.expected
           /\ r.fragments[i] \in Nat \X Nat
           /\ r.fragments[i] = <<Collected(r, i).opens, Collected(r, i).serial>>
  <1>1. i \in 1 .. r.expected /\ r.fragments[i] # << >>
    BY DEF Filled
  <1>2. r.expected \in Nat /\ r.frame \in Nat /\ r.fragments \in Seq(Fragments)
    BY DEF RtspRecords
  <1>3. r.fragments[i] \in Fragments
    BY <1>1, <1>2
  <1>4. r.fragments[i] \in Nat \X Nat
    BY <1>1, <1>3 DEF Fragments
  <1>5. r.fragments[i][1] \in Nat /\ r.fragments[i][2] \in Nat
        /\ r.fragments[i] = <<r.fragments[i][1], r.fragments[i][2]>>
    BY <1>4
  <1> QED BY <1>1, <1>2, <1>4, <1>5 DEF IsItem, Collected

LEMMA NothingGone ==
    ASSUME NEW x, NEW r PROVE Gone(NoPacket, x, r)
  BY DEF Gone, NoPacket

LEMMA NoPacketIsOne == NoPacket \in PacketRecords
  BY DEF NoPacket, PacketRecords

LEMMA NoPacketOK ==
    ASSUME NEW p, NEW q, NEW r PROVE PacketOK(NoPacket, p, q, r)
  BY NothingGone DEF PacketOK, Whole

LEMMA VideoBegins ==
    ASSUME VideoInit PROVE VideoInv
  <1>1. << >> \in Seq(DatagramRecords) /\ << >> \in Seq(Fragments) /\ Len(<< >>) = 0
    OBVIOUS
  <1>2. publisher \in PublisherRecords
    BY DEF VideoInit, PublisherRecords, Idle
  <1>3. rtsp \in RtspRecords
    BY <1>1, NoPacketIsOne DEF VideoInit, RtspRecords
  <1>4. PublisherOK(publisher) /\ rtsp.expected = 0 /\ rtsp.pushed = NoPacket
        /\ rtsp.pending = NoPacket
    BY DEF VideoInit, PublisherOK
  <1>5. QueueOK(publisher, datagrams)
    BY <1>1 DEF VideoInit, QueueOK
  <1>6. CollectionOK(publisher, datagrams, rtsp)
    BY <1>4 DEF CollectionOK
  <1>7. VideoOK(publisher, datagrams, rtsp)
    BY <1>4, <1>5, <1>6, NoPacketOK DEF VideoOK
  <1> QED BY <1>1, <1>2, <1>3, <1>7 DEF VideoInv, VideoTypes, VideoInit

(* VideoInOrder of one step.                                               *)
ShownInOrder(old, new) ==
    /\ \A s \in Serials(old), t \in Serials(new) : s < t \/ (s = t /\ Mixed(old) /\ Mixed(new))
    /\ Openings(new) = Openings(old) => old.pts <= new.pts
VideoStepInOrder ==
    rtsp'.pushed # rtsp.pushed /\ rtsp'.pushed # NoPacket =>
       /\ Mixed(rtsp'.pushed) \/ Cardinality(Serials(rtsp'.pushed)) = 1
       /\ rtsp'.source = rtsp.source => ShownInOrder(rtsp.pushed, rtsp'.pushed)

LEMMA WholeIsOne ==
    ASSUME NEW P, Whole(P), P # NoPacket
    PROVE  Mixed(P) \/ Cardinality(Serials(P)) = 1
  <1>1. SUFFICES ASSUME ~Mixed(P) PROVE Cardinality(Serials(P)) = 1
    OBVIOUS
  <1>2. PICK f : f \in P.serials /\ \A g \in P.serials : g = f
    BY <1>1 DEF Whole
  <1>3. Serials(P) = {f[2]}
    BY <1>2 DEF Serials
  <1> QED BY <1>3, FS_Singleton

-----------------------------------------------------------------------------
(* The publisher.                                                          *)

LEMMA PacketStays ==
    ASSUME NEW P \in PacketRecords, NEW p \in PublisherRecords, NEW n \in PublisherRecords, NEW q,
           NEW r \in RtspRecords, PublisherOK(p), PublisherOK(n), Follows(Coming(p), Coming(n)),
           PacketOK(P, p, q, r)
    PROVE  PacketOK(P, n, q, r)
  <1>1. IsItem(Coming(p)) /\ IsItem(Coming(n))
    BY ComingIsItem
  <1>2. Gone(P, Coming(n), r)
    BY <1>1, GoneLater DEF PacketOK
  <1> QED BY <1>2 DEF PacketOK

LEMMA PublisherMoves ==
    ASSUME VideoInv, publisher' \in PublisherRecords, PublisherOK(publisher'),
           Follows(Coming(publisher), Coming(publisher')), UNCHANGED <<datagrams, rtsp>>
    PROVE  VideoInv' /\ VideoStepInOrder
  <1> DEFINE p == publisher
             n == publisher'
             q == datagrams
             r == rtsp
  <1>1. /\ p \in PublisherRecords /\ n \in PublisherRecords /\ PublisherOK(p) /\ PublisherOK(n)
        /\ q \in Seq(DatagramRecords) /\ r \in RtspRecords /\ Follows(Coming(p), Coming(n))
        /\ q' = q /\ r' = r
    BY DEF VideoInv, VideoTypes, VideoOK
  <1>2. /\ QueueOK(p, q) /\ CollectionOK(p, q, r) /\ PacketOK(r.pushed, p, q, r)
        /\ PacketOK(r.pending, p, q, r)
    BY DEF VideoInv, VideoOK
  <1> HIDE DEF p, n, q, r
  <1>3. IsItem(Coming(p)) /\ IsItem(Coming(n))
    BY <1>1, ComingIsItem
  <1>4. ASSUME NEW x, IsItem(x), Before(x, Coming(p)) PROVE Before(x, Coming(n))
    BY <1>1, <1>3, <1>4, BeforeLater
  <1>5. QueueOK(n, q)
    <2>1. ASSUME NEW i \in 1 .. Len(q) PROVE Before(q[i], Coming(n))
      <3>1. IsItem(q[i]) /\ Before(q[i], Coming(p))
        BY <1>1, <1>2, QueuedIsItem DEF QueueOK
      <3> QED BY <1>4, <3>1
    <2> QED BY <1>2, <2>1 DEF QueueOK
  <1>6. CollectionOK(n, q, r)
    <2>1. ASSUME r.expected # 0, NEW i \in Filled(r) PROVE Before(Collected(r, i), Coming(n))
      <3>1. Before(Collected(r, i), Coming(p)) /\ Len(r.fragments) = r.expected
        BY <1>2, <2>1 DEF CollectionOK
      <3>2. IsItem(Collected(r, i))
        BY <1>1, <2>1, <3>1, CollectedIsItem
      <3> QED BY <1>4, <3>1, <3>2
    <2> QED BY <1>2, <2>1 DEF CollectionOK
  <1>7. PacketOK(r.pushed, n, q, r) /\ PacketOK(r.pending, n, q, r)
    <2>1. r.pushed \in PacketRecords /\ r.pending \in PacketRecords
      BY <1>1 DEF RtspRecords
    <2> QED BY <1>1, <1>2, <2>1, PacketStays
  <1>8. VideoOK(n, q, r)
    BY <1>1, <1>5, <1>6, <1>7 DEF VideoOK
  <1>9. VideoInv'
    BY <1>1, <1>8 DEF VideoInv, VideoTypes, n, q, r
  <1> QED BY <1>9 DEF VideoStepInOrder

LEMMA RestFollows ==
    ASSUME NEW p \in PublisherRecords, NEW n, NEW k, PublisherOK(p), p.packet # Idle,
           k = Idle \/ (p.packet.sent + 1 # p.packet.total
                          /\ k = [p.packet EXCEPT !.sent = p.packet.sent + 1]),
           n = [p EXCEPT !.packet = k]
    PROVE  n \in PublisherRecords /\ PublisherOK(n) /\ Follows(Coming(p), Coming(n))
  <1> DEFINE Packets == [serial : Nat, total : Nat, sent : Nat, key : BOOLEAN, pts : Nat]
  <1>1. /\ p.packet \in Packets /\ p.opens \in Nat /\ p.serial \in Nat /\ p.frame \in Nat
        /\ p.packet.sent < p.packet.total /\ p.packet.serial = p.serial /\ p.packet.serial # 0
        /\ p.frame = p.packet.pts + 1
    BY DEF PublisherRecords, PublisherOK
  <1>2. /\ Coming(p).opens = p.opens /\ Coming(p).serial = p.serial
        /\ Coming(p).frame = p.frame - 1 /\ Coming(p).index = p.packet.sent + 1
        /\ Coming(p).total = p.packet.total
    BY DEF Coming
  <1>3. CASE k = Idle
    <2>1. k \in Packets
      BY <1>3 DEF Idle
    <2>2. n \in PublisherRecords /\ n.packet = Idle /\ n.opens = p.opens /\ n.serial = p.serial
          /\ n.frame = p.frame
      BY <1>3, <2>1 DEF PublisherRecords
    <2>3. Coming(n).opens = p.opens /\ Coming(n).serial = p.serial + 1
          /\ Coming(n).frame = p.frame /\ Coming(n).index = 1
      BY <2>2 DEF Coming
    <2> QED BY <1>1, <1>2, <2>2, <2>3 DEF Follows, PublisherOK
  <1>4. CASE p.packet.sent + 1 # p.packet.total
               /\ k = [p.packet EXCEPT !.sent = p.packet.sent + 1]
    <2> DEFINE m == p.packet.sent + 1
    <2>1. m \in Nat /\ m < p.packet.total
      BY <1>1, <1>4
    <2>2. k = [p.packet EXCEPT !.sent = m]
      BY <1>4
    <2> HIDE DEF m
    <2>3. k \in Packets /\ k.sent = m /\ k.total = p.packet.total /\ k.serial = p.packet.serial
          /\ k.pts = p.packet.pts
      BY <1>1, <2>1, <2>2
    <2>4. k # Idle
      BY <1>1, <2>3 DEF Idle
    <2>5. n \in PublisherRecords /\ n.packet = k /\ n.opens = p.opens /\ n.serial = p.serial
          /\ n.frame = p.frame
      BY <2>3 DEF PublisherRecords
    <2>6. Coming(n).opens = p.opens /\ Coming(n).serial = p.serial
          /\ Coming(n).frame = p.frame - 1 /\ Coming(n).index = m + 1
          /\ Coming(n).total = p.packet.total
      BY <2>3, <2>4, <2>5 DEF Coming
    <2>7. PublisherOK(n)
      BY <1>1, <2>1, <2>3, <2>5 DEF PublisherOK
    <2>8. m = p.packet.sent + 1
      BY DEF m
    <2> QED BY <1>1, <1>2, <2>5, <2>6, <2>7, <2>8 DEF Follows
  <1> QED BY <1>3, <1>4

LEMMA RestIs ==
    ASSUME NEW p, p = publisher
    PROVE  RestOfPacket = Idle \/ (p.packet.sent + 1 # p.packet.total
                          /\ RestOfPacket = [p.packet EXCEPT !.sent = p.packet.sent + 1])
  BY DEF RestOfPacket

LEMMA PublisherGoesOn ==
    ASSUME VideoInv,
           \/ OpenPublisher
           \/ \E rest \in BOOLEAN : FragmentLost(rest)
           \/ \E total \in 1 .. MaxFragments, key \in BOOLEAN : PublishPacket(total, key)
    PROVE  VideoInv' /\ VideoStepInOrder
  <1> DEFINE p == publisher
             Packets == [serial : Nat, total : Nat, sent : Nat, key : BOOLEAN, pts : Nat]
  <1>1. p \in PublisherRecords /\ PublisherOK(p)
    BY DEF VideoInv, VideoTypes, VideoOK
  <1>2. p.packet \in Packets /\ p.opens \in Nat /\ p.serial \in Nat /\ p.frame \in Nat
    BY <1>1 DEF PublisherRecords
  <1>3. CASE OpenPublisher
    <2> DEFINE o == p.opens + 1
               n == [p EXCEPT !.opens = o, !.frame = 0, !.packet = Idle]
    <2>1. publisher' = n /\ UNCHANGED <<datagrams, rtsp>>
      BY <1>3 DEF OpenPublisher
    <2>6. o \in Nat /\ o = p.opens + 1 /\ Idle \in Packets
      BY <1>2 DEF Idle
    <2> HIDE DEF o
    <2>2. /\ n \in PublisherRecords /\ n.packet = Idle /\ n.opens = p.opens + 1
          /\ n.serial = p.serial /\ n.frame = 0
      BY <1>1, <1>2, <2>6 DEF PublisherRecords
    <2>3. PublisherOK(n)
      BY <2>2 DEF PublisherOK
    <2>4. Follows(Coming(p), Coming(n))
      BY <1>1, <1>2, <2>2 DEF Follows, Coming, PublisherOK
    <2> QED BY <2>1, <2>2, <2>3, <2>4, PublisherMoves
  <1>4. ASSUME NEW rest \in BOOLEAN, FragmentLost(rest) PROVE VideoInv' /\ VideoStepInOrder
    <2> DEFINE k == IF rest THEN Idle ELSE RestOfPacket
               n == [p EXCEPT !.packet = k]
    <2>1. publisher' = n /\ UNCHANGED <<datagrams, rtsp>> /\ p.packet # Idle
      BY <1>4 DEF FragmentLost
    <2>2. k = Idle \/ (p.packet.sent + 1 # p.packet.total
                          /\ k = [p.packet EXCEPT !.sent = p.packet.sent + 1])
      BY RestIs
    <2> HIDE DEF k
    <2>3. n \in PublisherRecords /\ PublisherOK(n) /\ Follows(Coming(p), Coming(n))
      BY <1>1, <2>1, <2>2, RestFollows
    <2> QED BY <2>1, <2>3, PublisherMoves
  <1>5. ASSUME NEW total \in 1 .. MaxFragments, NEW key \in BOOLEAN, PublishPacket(total, key)
        PROVE  VideoInv' /\ VideoStepInOrder
    <2> DEFINE k == [serial |-> p.serial + 1, total |-> total, sent |-> 0, key |-> key,
                     pts |-> p.frame]
               s == p.serial + 1
               e == p.frame + 1
               n == [p EXCEPT !.serial = s, !.frame = e, !.packet = k]
    <2>1. publisher' = n /\ UNCHANGED <<datagrams, rtsp>> /\ p.packet = Idle
      BY <1>5 DEF PublishPacket
    <2>2. total \in Nat \ {0}
      OBVIOUS
    <2>3. /\ k \in Packets /\ k # Idle /\ k.serial = p.serial + 1 /\ k.sent = 0
          /\ k.total = total /\ k.pts = p.frame
      BY <1>2, <2>2 DEF Idle
    <2>7. s \in Nat /\ e \in Nat /\ s = p.serial + 1 /\ e = p.frame + 1
      BY <1>2
    <2> HIDE DEF k, s, e
    <2>4. /\ n \in PublisherRecords /\ n.packet = k /\ n.opens = p.opens
          /\ n.serial = p.serial + 1 /\ n.frame = p.frame + 1
      BY <1>1, <1>2, <2>3, <2>7 DEF PublisherRecords
    <2>5. PublisherOK(n)
      BY <1>2, <2>2, <2>3, <2>4 DEF PublisherOK
    <2>6. Follows(Coming(p), Coming(n))
      BY <1>2, <2>1, <2>3, <2>4 DEF Follows, Coming
    <2> QED BY <2>1, <2>4, <2>5, <2>6, PublisherMoves
  <1> QED BY <1>3, <1>4, <1>5

LEMMA DatagramIs ==
    ASSUME NEW p, p = publisher, p \in PublisherRecords, PublisherOK(p), p.packet # Idle
    PROVE  /\ Datagram \in DatagramRecords /\ DatagramOK(Datagram)
           /\ SameItem(Datagram, Coming(p))
  <1> DEFINE Packets == [serial : Nat, total : Nat, sent : Nat, key : BOOLEAN, pts : Nat]
  <1>1. /\ p.packet \in Packets /\ p.opens \in Nat /\ p.serial \in Nat /\ p.frame \in Nat
        /\ p.packet.sent < p.packet.total /\ p.packet.serial = p.serial
        /\ p.frame = p.packet.pts + 1
    BY DEF PublisherRecords, PublisherOK
  <1>2. p.frame - 1 \in Nat /\ p.frame - 1 = p.packet.pts
        /\ p.packet.sent + 1 \in 1 .. p.packet.total
    BY <1>1
  <1>3. SameItem(Datagram, Coming(p))
    BY <1>1 DEF SameItem, Datagram, Coming
  <1>4. Datagram \in DatagramRecords
    BY <1>1, <1>2 DEF Datagram, DatagramRecords
  <1>5. DatagramOK(Datagram)
    BY <1>2 DEF Datagram, DatagramOK
  <1> QED BY <1>3, <1>4, <1>5

(* What goes into the socket behind everything that is there.              *)
LEMMA QueueGrows ==
    ASSUME NEW p \in PublisherRecords, NEW q \in Seq(DatagramRecords), NEW r \in RtspRecords,
           NEW d \in DatagramRecords, NEW t, PublisherOK(p), VideoOK(p, q, r), DatagramOK(d),
           SameItem(d, Coming(p)), t = Append(q, d)
    PROVE  /\ t \in Seq(DatagramRecords)
           /\ \A i \in 1 .. Len(t) : DatagramOK(t[i])
           /\ \A i, j \in 1 .. Len(t) : i < j => Before(t[i], t[j])
           /\ \A i \in 1 .. Len(t) : t[i] = d \/ Before(t[i], Coming(p))
           /\ r.expected # 0 =>
                \A i \in Filled(r), j \in 1 .. Len(t) : Before(Collected(r, i), t[j])
           /\ \A P \in {r.pushed, r.pending} : \A j \in 1 .. Len(t) : Gone(P, t[j], r)
  <1>1. /\ t \in Seq(DatagramRecords) /\ Len(t) \in Nat \ {0} /\ t[Len(t)] = d
        /\ \A i \in 1 .. Len(t) : i = Len(t) \/ (i \in 1 .. Len(q) /\ t[i] = q[i])
    BY Appended
  <1>2. Len(q) \in Nat /\ Len(t) = Len(q) + 1
    BY Appended, Elements
  <1>3. /\ \A z : Before(z, d) <=> Before(z, Coming(p))
        /\ \A P, s : Gone(P, d, s) <=> Gone(P, Coming(p), s)
    BY SameBefore
  <1>4. /\ QueueOK(p, q) /\ CollectionOK(p, q, r) /\ PacketOK(r.pushed, p, q, r)
        /\ PacketOK(r.pending, p, q, r)
    BY DEF VideoOK
  <1>5. ASSUME NEW i \in 1 .. Len(t)
        PROVE  DatagramOK(t[i]) /\ (t[i] = d \/ Before(t[i], Coming(p)))
    BY <1>1, <1>4 DEF QueueOK
  <1>6. ASSUME NEW i \in 1 .. Len(t), NEW j \in 1 .. Len(t), i < j PROVE Before(t[i], t[j])
    <2>1. i \in 1 .. Len(q) /\ t[i] = q[i]
      BY <1>1, <1>2, <1>6
    <2>2. CASE j = Len(t)
      BY <1>1, <1>3, <1>4, <2>1, <2>2 DEF QueueOK
    <2>3. CASE j # Len(t)
      BY <1>1, <1>4, <1>6, <2>1, <2>3 DEF QueueOK
    <2> QED BY <2>2, <2>3
  <1>7. ASSUME r.expected # 0, NEW i \in Filled(r), NEW j \in 1 .. Len(t)
        PROVE  Before(Collected(r, i), t[j])
    BY <1>1, <1>3, <1>4, <1>7 DEF CollectionOK
  <1>8. ASSUME NEW P \in {r.pushed, r.pending}, NEW j \in 1 .. Len(t) PROVE Gone(P, t[j], r)
    <2>1. PacketOK(P, p, q, r)
      BY <1>4
    <2> QED BY <1>1, <1>3, <2>1 DEF PacketOK
  <1> QED BY <1>1, <1>5, <1>6, <1>7, <1>8

LEMMA FragmentSent ==
    ASSUME VideoInv, SendFragment PROVE VideoInv' /\ VideoStepInOrder
  <1> DEFINE p == publisher
             q == datagrams
             r == rtsp
             d == Datagram
             t == Append(q, d)
             k == RestOfPacket
             n == [p EXCEPT !.packet = k]
  <1>1. publisher' = n /\ datagrams' = t /\ rtsp' = r /\ p.packet # Idle
    BY DEF SendFragment
  <1>2. /\ p \in PublisherRecords /\ PublisherOK(p) /\ q \in Seq(DatagramRecords)
        /\ r \in RtspRecords /\ VideoOK(p, q, r)
    BY DEF VideoInv, VideoTypes, VideoOK
  <1>3. k = Idle \/ (p.packet.sent + 1 # p.packet.total
                       /\ k = [p.packet EXCEPT !.sent = p.packet.sent + 1])
    BY RestIs
  <1>4. d \in DatagramRecords /\ DatagramOK(d) /\ SameItem(d, Coming(p))
    BY <1>1, <1>2, DatagramIs
  <1>5. t = Append(q, d)
    OBVIOUS
  <1> HIDE DEF k, t, d
  <1>6. n \in PublisherRecords /\ PublisherOK(n) /\ Follows(Coming(p), Coming(n))
    BY <1>1, <1>2, <1>3, RestFollows
  <1> HIDE DEF n, p, q, r
  <1>7. /\ t \in Seq(DatagramRecords)
        /\ \A i \in 1 .. Len(t) : DatagramOK(t[i])
        /\ \A i, j \in 1 .. Len(t) : i < j => Before(t[i], t[j])
        /\ \A i \in 1 .. Len(t) : t[i] = d \/ Before(t[i], Coming(p))
        /\ r.expected # 0 => \A i \in Filled(r), j \in 1 .. Len(t) : Before(Collected(r, i), t[j])
        /\ \A P \in {r.pushed, r.pending} : \A j \in 1 .. Len(t) : Gone(P, t[j], r)
    BY <1>2, <1>4, <1>5, QueueGrows
  <1>8. IsItem(Coming(p)) /\ IsItem(Coming(n)) /\ IsItem(d)
    BY <1>2, <1>4, <1>6, ComingIsItem, QueuedIsItem
  <1>9. Before(d, Coming(n))
    <2>1. Before(Coming(p), Coming(n))
      <3>1. Coming(n).index = p.packet.sent + 2 \/ Coming(n).serial = p.serial + 1
        BY <1>1, <1>2, <1>3 DEF n, Coming, PublisherRecords
      <3>2. Coming(p).index = p.packet.sent + 1 /\ Coming(p).serial = p.serial
        BY <1>1, <1>2 DEF Coming, PublisherOK
      <3>3. p.packet.sent \in Nat /\ p.serial \in Nat
        BY <1>2 DEF PublisherRecords
      <3> QED BY <1>6, <1>8, <3>1, <3>2, <3>3 DEF Before, Follows, IsItem
    <2> QED BY <1>4, <2>1, SameBefore
  <1>10. ASSUME NEW x, IsItem(x), Before(x, Coming(p)) PROVE Before(x, Coming(n))
    BY <1>6, <1>8, <1>10, BeforeLater
  <1>11. QueueOK(n, t)
    <2>1. ASSUME NEW i \in 1 .. Len(t) PROVE Before(t[i], Coming(n))
      <3>1. t[i] \in DatagramRecords
        BY <1>7
      <3>2. IsItem(t[i])
        BY <1>7, <3>1, QueuedIsItem
      <3> QED BY <1>7, <1>9, <1>10, <3>2
    <2> QED BY <1>7, <2>1 DEF QueueOK
  <1>12. CollectionOK(n, t, r)
    <2>1. ASSUME r.expected # 0, NEW i \in Filled(r) PROVE Before(Collected(r, i), Coming(n))
      <3>1. Before(Collected(r, i), Coming(p)) /\ Len(r.fragments) = r.expected
        BY <1>2, <2>1 DEF VideoOK, CollectionOK
      <3>2. IsItem(Collected(r, i))
        BY <1>2, <2>1, <3>1, CollectedIsItem
      <3> QED BY <1>10, <3>1, <3>2
    <2> QED BY <1>2, <1>7, <2>1 DEF VideoOK, CollectionOK
  <1>13. ASSUME NEW P \in {r.pushed, r.pending} PROVE PacketOK(P, n, t, r)
    <2>1. PacketOK(P, p, q, r) /\ P \in PacketRecords
      BY <1>2 DEF VideoOK, RtspRecords
    <2>2. PacketOK(P, n, q, r)
      BY <1>2, <1>6, <2>1, PacketStays
    <2> QED BY <1>7, <2>2 DEF PacketOK
  <1>14. VideoOK(n, t, r)
    BY <1>6, <1>11, <1>12, <1>13 DEF VideoOK
  <1>15. VideoInv'
    BY <1>1, <1>2, <1>6, <1>7, <1>14 DEF VideoInv, VideoTypes
  <1> QED BY <1>1, <1>15 DEF VideoStepInOrder, r

-----------------------------------------------------------------------------
(* The receiver and the viewers.                                           *)

(* What the collection and the time stamps of s are, they are in r.        *)
SameCollection(r, s) ==
    /\ r.expected = s.expected /\ r.fragments = s.fragments /\ r.frame = s.frame
    /\ r.pts = s.pts /\ r.origin = s.origin /\ r.last = s.last /\ r.haveInput = s.haveInput

LEMMA CollectionKept ==
    ASSUME NEW p, NEW q, NEW r, NEW s, SameCollection(r, s)
    PROVE  /\ CollectionOK(p, q, r) <=> CollectionOK(p, q, s)
           /\ \A P : PacketOK(P, p, q, r) <=> PacketOK(P, p, q, s)
  <1>1. /\ Filled(r) = Filled(s) /\ r.expected = s.expected /\ Span(r) = Span(s)
        /\ \A i : Collected(r, i) = Collected(s, i)
    BY DEF SameCollection, Filled, Span, Collected
  <1>2. \A P, x : Gone(P, x, r) <=> Gone(P, x, s)
    BY <1>1 DEF SameCollection, Gone
  <1>3. CollectionOK(p, q, r) <=> CollectionOK(p, q, s)
    BY <1>1 DEF SameCollection, CollectionOK
  <1>4. \A P : PacketOK(P, p, q, r) <=> PacketOK(P, p, q, s)
    BY <1>1, <1>2 DEF PacketOK
  <1> QED BY <1>3, <1>4

LEMMA QueueCut ==
    ASSUME NEW p, NEW q, NEW r, VideoOK(p, q, r)
    PROVE  VideoOK(p, << >>, r)
  <1>1. Len(<< >>) = 0
    OBVIOUS
  <1> QED BY <1>1 DEF VideoOK, QueueOK, CollectionOK, PacketOK

LEMMA RtspMoves ==
    ASSUME VideoInv, rtsp' \in RtspRecords, SameCollection(rtsp', rtsp), publisher' = publisher,
           datagrams' = datagrams \/ datagrams' = << >>,
           \/ rtsp'.pushed = rtsp.pushed \/ rtsp'.pushed = NoPacket
           \/ rtsp'.pushed = rtsp.pending /\ rtsp'.source # rtsp.source,
           rtsp'.pending = rtsp.pending \/ rtsp'.pending = NoPacket
    PROVE  VideoInv' /\ VideoStepInOrder
  <1> DEFINE p == publisher
             q == datagrams
             r == rtsp
             s == rtsp'
             t == datagrams'
  <1>1. /\ p \in PublisherRecords /\ q \in Seq(DatagramRecords) /\ VideoOK(p, q, r)
        /\ s \in RtspRecords /\ publisher' = p /\ SameCollection(s, r)
    BY DEF VideoInv, VideoTypes
  <1>2. t \in Seq(DatagramRecords) /\ VideoOK(p, t, r)
    <2>1. << >> \in Seq(DatagramRecords)
      OBVIOUS
    <2> QED BY <1>1, <2>1, QueueCut
  <1> HIDE DEF p, q, r, s, t
  <1>3. /\ s.pushed \in {r.pushed, r.pending, NoPacket} /\ s.pending \in {r.pending, NoPacket}
    BY DEF r, s
  <1>4. /\ PublisherOK(p) /\ QueueOK(p, t) /\ CollectionOK(p, t, r) /\ PacketOK(r.pushed, p, t, r)
        /\ PacketOK(r.pending, p, t, r)
    BY <1>2 DEF VideoOK
  <1>5. CollectionOK(p, t, s) /\ PacketOK(s.pushed, p, t, s) /\ PacketOK(s.pending, p, t, s)
    BY <1>1, <1>3, <1>4, NoPacketOK, CollectionKept
  <1>6. VideoOK(p, t, s)
    BY <1>4, <1>5 DEF VideoOK
  <1>7. VideoInv'
    BY <1>1, <1>2, <1>6 DEF VideoInv, VideoTypes, s, t
  <1>8. ASSUME s.pushed # r.pushed, s.pushed # NoPacket
        PROVE  /\ Mixed(s.pushed) \/ Cardinality(Serials(s.pushed)) = 1
               /\ s.source # r.source
    <2>1. s.source # r.source
      BY <1>8 DEF r, s
    <2>2. Whole(s.pushed)
      BY <1>5 DEF PacketOK
    <2> QED BY <1>8, <2>1, <2>2, WholeIsOne
  <1>9. VideoStepInOrder
    BY <1>8 DEF VideoStepInOrder, r, s
  <1> QED BY <1>7, <1>9

LEMMA RtspSteady ==
    ASSUME VideoInv,
           \/ StartRtsp \/ MainLoopRuns \/ RtspQuits \/ ReceiverEnds \/ RtspJoins
           \/ MediaConfigure \/ MediaUnprepared \/ RtspStop
    PROVE  VideoInv' /\ VideoStepInOrder
  <1>1. /\ rtsp \in RtspRecords /\ rtsp.pushed \in PacketRecords /\ rtsp.pending \in PacketRecords
        /\ rtsp.viewers \in Nat /\ rtsp.viewers + 1 \in Nat /\ rtsp.viewers + 1 # 0
    BY DEF VideoInv, VideoTypes, RtspRecords
  <1>2. CASE StartRtsp
    BY <1>1, <1>2, RtspMoves DEF StartRtsp, RtspGoto, RtspRecords, SameCollection
  <1>3. CASE MainLoopRuns
    BY <1>1, <1>3, RtspMoves DEF MainLoopRuns, RtspGoto, RtspRecords, SameCollection
  <1>4. CASE RtspQuits
    <2> DEFINE l == IF rtsp.loop = "running" THEN "ended" ELSE rtsp.loop
    <2>1. rtsp' = [rtsp EXCEPT !.stop = "join", !.loop = l] /\ UNCHANGED <<publisher, datagrams>>
      BY <1>1, <1>4 DEF RtspQuits, RtspGoto, RtspRecords
    <2>2. l \in {"none", "starting", "running", "ended"}
      BY <1>1 DEF RtspRecords
    <2> HIDE DEF l
    <2> QED BY <1>1, <2>1, <2>2, RtspMoves DEF RtspRecords, SameCollection
  <1>5. CASE ReceiverEnds
    BY <1>1, <1>5, RtspMoves DEF ReceiverEnds, RtspGoto, RtspRecords, SameCollection
  <1>6. CASE RtspJoins
    BY <1>1, <1>6, RtspMoves, NoPacketIsOne DEF RtspJoins, RtspGoto, RtspRecords, SameCollection
  <1>7. CASE MediaConfigure
    <2> DEFINE n == rtsp.viewers + 1
               new == IF rtsp.source = 1 THEN 2 ELSE 1
    <2>1. /\ n \in Nat /\ new \in Nat /\ new # rtsp.source /\ UNCHANGED <<publisher, datagrams>>
          /\ rtsp' = [rtsp EXCEPT !.viewers = n, !.source = new, !.pushed = rtsp.pending,
                                  !.pending = NoPacket]
      BY <1>1, <1>7 DEF MediaConfigure, RtspGoto, RtspRecords
    <2> HIDE DEF n, new
    <2> QED BY <1>1, <2>1, RtspMoves, NoPacketIsOne DEF RtspRecords, SameCollection
  <1>8. CASE MediaUnprepared
    BY <1>1, <1>8, RtspMoves, NoPacketIsOne
       DEF MediaUnprepared, RtspGoto, RtspRecords, SameCollection
  <1>9. CASE RtspStop
    BY <1>1, <1>9, RtspMoves DEF RtspStop, RtspRecords, SameCollection
  <1> QED BY <1>2, <1>3, <1>4, <1>5, <1>6, <1>7, <1>8, <1>9

(* d comes before everything in p and q, and after what r has collected    *)
(* and given to the media.                                                 *)
Arrives(d, p, q, r) ==
    /\ d \in DatagramRecords /\ DatagramOK(d) /\ Before(d, Coming(p))
    /\ \A j \in 1 .. Len(q) : Before(d, q[j])
    /\ r.expected # 0 => \A i \in Filled(r) : Before(Collected(r, i), d)
    /\ Gone(r.pushed, d, r) /\ Gone(r.pending, d, r)

LEMMA QueueShrinks ==
    ASSUME NEW p, NEW q \in Seq(DatagramRecords), NEW r, VideoOK(p, q, r), q # << >>,
           NEW d, NEW t, d = Head(q), t = Tail(q)
    PROVE  t \in Seq(DatagramRecords) /\ VideoOK(p, t, r) /\ Arrives(d, p, t, r)
  <1>1. /\ Len(q) \in Nat \ {0} /\ d = q[1] /\ d \in DatagramRecords
        /\ t \in Seq(DatagramRecords) /\ Len(t) = Len(q) - 1
        /\ \A i \in 1 .. Len(t) : i + 1 \in 1 .. Len(q) /\ t[i] = q[i + 1]
    BY Popped
  <1>2. 1 \in 1 .. Len(q)
    BY <1>1
  <1>3. /\ PublisherOK(p) /\ QueueOK(p, q) /\ CollectionOK(p, q, r) /\ PacketOK(r.pushed, p, q, r)
        /\ PacketOK(r.pending, p, q, r)
    BY DEF VideoOK
  <1>4. QueueOK(p, t)
    <2>1. ASSUME NEW i \in 1 .. Len(t) PROVE DatagramOK(t[i]) /\ Before(t[i], Coming(p))
      BY <1>1, <1>3 DEF QueueOK
    <2>2. ASSUME NEW i \in 1 .. Len(t), NEW j \in 1 .. Len(t), i < j PROVE Before(t[i], t[j])
      <3>1. i + 1 \in 1 .. Len(q) /\ j + 1 \in 1 .. Len(q) /\ i + 1 < j + 1
        BY <1>1, <2>2
      <3> QED BY <1>1, <1>3, <3>1 DEF QueueOK
    <2> QED BY <2>1, <2>2 DEF QueueOK
  <1>5. CollectionOK(p, t, r)
    BY <1>1, <1>3 DEF CollectionOK
  <1>6. PacketOK(r.pushed, p, t, r) /\ PacketOK(r.pending, p, t, r)
    BY <1>1, <1>3 DEF PacketOK
  <1>7. VideoOK(p, t, r)
    BY <1>3, <1>4, <1>5, <1>6 DEF VideoOK
  <1>8. ASSUME NEW j \in 1 .. Len(t) PROVE Before(d, t[j])
    <2>1. j + 1 \in 1 .. Len(q) /\ 1 < j + 1
      BY <1>1
    <2> QED BY <1>1, <1>2, <1>3, <2>1 DEF QueueOK
  <1>9. Arrives(d, p, t, r)
    <2>1. DatagramOK(d) /\ Before(d, Coming(p))
      BY <1>1, <1>2, <1>3 DEF QueueOK
    <2>2. r.expected # 0 => \A i \in Filled(r) : Before(Collected(r, i), d)
      BY <1>1, <1>2, <1>3 DEF CollectionOK
    <2>3. Gone(r.pushed, d, r) /\ Gone(r.pending, d, r)
      BY <1>1, <1>2, <1>3 DEF PacketOK
    <2> QED BY <1>1, <1>8, <2>1, <2>2, <2>3 DEF Arrives
  <1> QED BY <1>1, <1>7, <1>9

(* s is r with d collected.                                                *)
Joined(r, s, d) ==
    /\ s.expected = d.total /\ s.frame = d.frame /\ s.pts = d.frame /\ Len(s.fragments) = d.total
    /\ s.origin = r.origin /\ s.last = r.last /\ s.haveInput = r.haveInput
    /\ s.pushed = r.pushed /\ s.pending = r.pending /\ s.source = r.source
    /\ s.fragments[d.index] = <<d.opens, d.serial>>
    /\ \A i \in 1 .. d.total :
          \/ i = d.index \/ s.fragments[i] = << >>
          \/ /\ r.expected = d.total /\ r.frame = d.frame /\ s.fragments[i] = r.fragments[i]

LEMMA FragmentJoins ==
    ASSUME rtsp \in RtspRecords, NEW d \in DatagramRecords, DatagramOK(d), NEW s, NEW p, NEW q,
           CollectionOK(p, q, rtsp),
           s = [Collection(d) EXCEPT !.fragments[d.index] = <<d.opens, d.serial>>]
    PROVE  s \in RtspRecords /\ Joined(rtsp, s, d)
  <1> DEFINE c == Collection(d)
             v == <<d.opens, d.serial>>
             g == [c.fragments EXCEPT ![d.index] = v]
  <1>1. /\ d.opens \in Nat /\ d.serial \in Nat /\ d.frame \in Nat /\ d.total \in Nat
        /\ d.key \in BOOLEAN /\ d.pts = d.frame /\ d.index \in 1 .. d.total
    BY DEF DatagramRecords, DatagramOK
  <1>2. v \in Fragments
    BY <1>1 DEF Fragments
  <1>3. /\ c \in RtspRecords /\ c.expected = d.total /\ c.frame = d.frame /\ c.pts = d.frame
        /\ Len(c.fragments) = d.total
        /\ c.origin = rtsp.origin /\ c.last = rtsp.last /\ c.haveInput = rtsp.haveInput
        /\ c.pushed = rtsp.pushed /\ c.pending = rtsp.pending /\ c.source = rtsp.source
        /\ \A i \in 1 .. d.total :
              \/ c.fragments[i] = << >>
              \/ /\ rtsp.expected = d.total /\ rtsp.frame = d.frame
                 /\ c.fragments[i] = rtsp.fragments[i]
    <2>1. CASE d.frame # rtsp.frame \/ d.total # rtsp.expected
      <3> DEFINE e == [i \in 1 .. d.total |-> << >>]
      <3>1. c = [rtsp EXCEPT !.frame = d.frame, !.expected = d.total, !.key = d.key,
                             !.pts = d.pts, !.fragments = e]
        BY <2>1 DEF Collection
      <3>2. e \in Seq(Fragments) /\ Len(e) = d.total /\ \A i \in 1 .. d.total : e[i] = << >>
        BY <1>1 DEF Fragments
      <3> HIDE DEF e, c
      <3> QED BY <1>1, <3>1, <3>2 DEF RtspRecords
    <2>2. CASE d.frame = rtsp.frame /\ d.total = rtsp.expected
      <3>1. c = rtsp
        BY <2>2 DEF Collection
      <3>2. rtsp.expected # 0
        BY <1>1, <2>2
      <3> QED BY <2>2, <3>1, <3>2 DEF CollectionOK
    <2> QED BY <2>1, <2>2
  <1>4. s = [c EXCEPT !.fragments = g]
    OBVIOUS
  <1> HIDE DEF c, v
  <1>5. c.fragments \in Seq(Fragments) /\ d.index \in 1 .. Len(c.fragments)
    BY <1>1, <1>3 DEF RtspRecords
  <1>6. /\ g \in Seq(Fragments) /\ Len(g) = Len(c.fragments) /\ g[d.index] = v
        /\ \A i \in 1 .. Len(c.fragments) : i # d.index => g[i] = c.fragments[i]
    BY <1>2, <1>5
  <1> HIDE DEF g
  <1>7. /\ s \in RtspRecords /\ s.fragments = g
        /\ s.expected = c.expected /\ s.frame = c.frame /\ s.pts = c.pts
        /\ s.origin = c.origin /\ s.last = c.last /\ s.haveInput = c.haveInput
        /\ s.pushed = c.pushed /\ s.pending = c.pending /\ s.source = c.source
    BY <1>3, <1>4, <1>6 DEF RtspRecords
  <1> QED BY <1>3, <1>6, <1>7 DEF Joined, v

LEMMA CollectionGrows ==
    ASSUME NEW p, NEW q, NEW r \in RtspRecords, NEW s \in RtspRecords, NEW d, VideoOK(p, q, r),
           Arrives(d, p, q, r), Joined(r, s, d)
    PROVE  VideoOK(p, q, s) /\ s.expected # 0
  <1>1. /\ PublisherOK(p) /\ QueueOK(p, q) /\ CollectionOK(p, q, r) /\ PacketOK(r.pushed, p, q, r)
        /\ PacketOK(r.pending, p, q, r)
    BY DEF VideoOK
  <1>2. /\ d \in DatagramRecords /\ DatagramOK(d) /\ d.index \in 1 .. d.total
        /\ d.opens \in Nat /\ d.serial \in Nat /\ d.total \in Nat \ {0}
    BY DEF Arrives, DatagramRecords, DatagramOK
  <1>3. s.expected = d.total /\ s.expected # 0 /\ s.fragments[d.index] = <<d.opens, d.serial>>
    BY <1>2 DEF Joined
  <1>4. SameItem(Collected(s, d.index), d)
    BY <1>3 DEF SameItem, Collected, Joined
  <1>5. ASSUME NEW i \in Filled(s), i # d.index
        PROVE  /\ i \in Filled(r) /\ Collected(s, i) = Collected(r, i) /\ r.expected # 0
               /\ r.frame = d.frame /\ s.fragments[i] = r.fragments[i]
    <2>1. i \in 1 .. d.total /\ s.fragments[i] # << >>
      BY <1>3 DEF Filled
    <2>2. r.expected = d.total /\ r.frame = d.frame /\ s.fragments[i] = r.fragments[i]
      BY <1>5, <2>1 DEF Joined
    <2>3. i \in Filled(r)
      BY <2>1, <2>2 DEF Filled
    <2>4. s.frame = r.frame /\ s.expected = r.expected
      BY <2>2 DEF Joined
    <2>5. Collected(s, i) = Collected(r, i)
      BY <2>2, <2>4 DEF Collected
    <2> QED BY <1>2, <2>2, <2>3, <2>5
  <1>6. ASSUME NEW i \in Filled(s)
        PROVE  /\ Before(Collected(s, i), Coming(p))
               /\ \A j \in 1 .. Len(q) : Before(Collected(s, i), q[j])
    <2>1. CASE i = d.index
      BY <1>4, <2>1, SameBefore DEF Arrives
    <2>2. CASE i # d.index
      BY <1>1, <1>5, <2>2 DEF CollectionOK
    <2> QED BY <2>1, <2>2
  <1>7. ASSUME NEW i \in Filled(s), i # d.index, s.fragments[i][1] = d.opens
        PROVE  s.fragments[i] = s.fragments[d.index]
    <2>1. /\ i \in Filled(r) /\ r.expected # 0 /\ r.frame = d.frame
          /\ s.fragments[i] = r.fragments[i] /\ Len(r.fragments) = r.expected
      BY <1>1, <1>5, <1>7 DEF CollectionOK
    <2>2. Before(Collected(r, i), d)
      BY <2>1 DEF Arrives
    <2>3. /\ IsItem(Collected(r, i)) /\ IsItem(d)
          /\ r.fragments[i] = <<Collected(r, i).opens, Collected(r, i).serial>>
      BY <1>2, <2>1, CollectedIsItem, QueuedIsItem
    <2>4. Collected(r, i).opens = d.opens /\ Collected(r, i).frame = d.frame
      BY <1>7, <2>1 DEF Collected
    <2>5. Collected(r, i).serial = d.serial
      BY <2>2, <2>3, <2>4 DEF Before, IsItem
    <2> QED BY <1>3, <2>1, <2>3, <2>4, <2>5
  <1>8. ASSUME NEW i \in Filled(s), NEW j \in Filled(s), s.fragments[i][1] = s.fragments[j][1]
        PROVE  s.fragments[i] = s.fragments[j]
    <2>1. s.fragments[d.index][1] = d.opens
      BY <1>3
    <2>2. CASE i = d.index \/ j = d.index
      BY <1>7, <1>8, <2>1, <2>2
    <2>3. CASE i # d.index /\ j # d.index
      <3>1. /\ i \in Filled(r) /\ j \in Filled(r) /\ r.expected # 0
            /\ s.fragments[i] = r.fragments[i] /\ s.fragments[j] = r.fragments[j]
        BY <1>5, <2>3
      <3> QED BY <1>1, <1>8, <3>1 DEF CollectionOK
    <2> QED BY <2>2, <2>3
  <1>9. CollectionOK(p, q, s)
    <2>1. Len(s.fragments) = s.expected /\ s.pts = s.frame
      BY DEF Joined
    <2> QED BY <1>6, <1>8, <2>1 DEF CollectionOK
  <1>10. ASSUME NEW P, P = r.pushed \/ P = r.pending PROVE PacketOK(P, p, q, s)
    <2>1. PacketOK(P, p, q, r) /\ Gone(P, d, r)
      BY <1>1, <1>10 DEF Arrives
    <2>2. s.last = r.last /\ s.haveInput = r.haveInput /\ Span(s) = Span(r)
      BY DEF Joined, Span
    <2>3. \A x : Gone(P, x, s) <=> Gone(P, x, r)
      BY <2>2 DEF Gone
    <2>4. ASSUME NEW i \in Filled(s) PROVE Gone(P, Collected(s, i), r)
      <3>1. CASE i = d.index
        BY <1>4, <2>1, <3>1, SameBefore
      <3>2. CASE i # d.index
        BY <1>5, <2>1, <3>2 DEF PacketOK
      <3> QED BY <3>1, <3>2
    <2> QED BY <2>1, <2>3, <2>4 DEF PacketOK
  <1>11. s.pushed = r.pushed /\ s.pending = r.pending
    BY DEF Joined
  <1> QED BY <1>1, <1>3, <1>9, <1>10, <1>11 DEF VideoOK

(* A packet is complete: n is what is pushed of it, and u what the receiver *)
(* knows afterwards.                                                       *)
Complete(s) ==
    /\ s \in RtspRecords /\ s.expected \in Nat \ {0} /\ Len(s.fragments) = s.expected
    /\ s.pts = s.frame
    /\ \A i \in 1 .. s.expected : s.fragments[i] # << >>
    /\ \A i, j \in 1 .. s.expected :
          s.fragments[i][1] = s.fragments[j][1] => s.fragments[i] = s.fragments[j]
Taken(s, n) ==
    /\ n.serials = {s.fragments[i] : i \in 1 .. s.expected}
    /\ n.pts = Stamp(s, s.pts, s.key)
PushedBy(s, u) ==
    u.origin = Origin(s, s.pts, s.key) /\ u.last = s.pts /\ u.haveInput /\ u.expected = 0
AfterAll(s, x) ==
    /\ IsItem(x) /\ (x.total # 0 => x.index <= x.total)
    /\ \A i \in 1 .. s.expected : Before(Collected(s, i), x)

LEMMA CompleteFragments ==
    ASSUME NEW s, Complete(s)
    PROVE  /\ 1 \in 1 .. s.expected /\ s.expected \in 1 .. s.expected /\ Filled(s) = 1 .. s.expected
           /\ \A i \in 1 .. s.expected :
                 /\ IsItem(Collected(s, i)) /\ s.fragments[i] \in Nat \X Nat
                 /\ Collected(s, i).opens = s.fragments[i][1]
                 /\ Collected(s, i).serial = s.fragments[i][2]
                 /\ Collected(s, i).frame = s.pts /\ Collected(s, i).index = i
                 /\ Collected(s, i).total = s.expected
  <1>1. /\ s \in RtspRecords /\ s.expected \in Nat \ {0} /\ Len(s.fragments) = s.expected
        /\ s.pts = s.frame
    BY DEF Complete
  <1>2. Filled(s) = 1 .. s.expected
    BY DEF Filled, Complete
  <1>3. ASSUME NEW i \in 1 .. s.expected
        PROVE  IsItem(Collected(s, i)) /\ s.fragments[i] \in Nat \X Nat
    BY <1>1, <1>2, CollectedIsItem
  <1> QED BY <1>1, <1>2, <1>3 DEF Collected

LEMMA TimesAreNat ==
    ASSUME NEW s \in RtspRecords
    PROVE  /\ s.origin \in Nat /\ s.last \in Nat /\ s.pts \in Nat /\ s.key \in BOOLEAN
           /\ s.haveInput \in BOOLEAN /\ Origin(s, s.pts, s.key) \in Nat
           /\ Stamp(s, s.pts, s.key) \in Nat /\ Span(s) \in Nat
  <1>1. /\ s.origin \in Nat /\ s.last \in Nat /\ s.pts \in Nat /\ s.key \in BOOLEAN
        /\ s.haveInput \in BOOLEAN
    BY DEF RtspRecords
  <1>2. Origin(s, s.pts, s.key) \in Nat
    BY <1>1 DEF Origin
  <1> HIDE DEF Origin
  <1>3. Stamp(s, s.pts, s.key) \in Nat
    BY <1>1, <1>2 DEF Stamp
  <1>4. Span(s) \in Nat
    BY <1>1 DEF Span
  <1> QED BY <1>1, <1>2, <1>3, <1>4

LEMMA NothingLeft ==
    ASSUME NEW s, NEW n, NEW u, NEW x, Complete(s), Taken(s, n), PushedBy(s, u), AfterAll(s, x)
    PROVE  Gone(n, x, u)
  <1>1. /\ 1 \in 1 .. s.expected /\ s.expected \in 1 .. s.expected /\ s.expected \in Nat \ {0}
        /\ \A i \in 1 .. s.expected :
                 /\ IsItem(Collected(s, i)) /\ s.fragments[i] \in Nat \X Nat
                 /\ Collected(s, i).opens = s.fragments[i][1]
                 /\ Collected(s, i).serial = s.fragments[i][2]
                 /\ Collected(s, i).frame = s.pts /\ Collected(s, i).index = i
                 /\ Collected(s, i).total = s.expected
    BY CompleteFragments DEF Complete
  <1>2. SUFFICES ASSUME NEW f \in n.serials
        PROVE  /\ f[1] <= x.opens /\ f[2] <= x.serial
               /\ f[2] = x.serial => Mixed(n) /\ x.index > 1
               /\ ~Mixed(n) /\ f[1] = x.opens =>
                     u.haveInput /\ u.last < x.frame /\ n.pts <= Span(u)
    BY DEF Gone
  <1>3. PICK i \in 1 .. s.expected : f = s.fragments[i]
    BY DEF Taken
  <1> DEFINE c == Collected(s, i)
  <1>4. /\ IsItem(c) /\ c.opens = f[1] /\ c.serial = f[2] /\ c.frame = s.pts /\ c.index = i
        /\ c.total = s.expected
    BY <1>1, <1>3
  <1>5. Before(c, x) /\ IsItem(x) /\ (x.total # 0 => x.index <= x.total)
    BY DEF AfterAll
  <1> HIDE DEF c
  <1>6. f[1] <= x.opens /\ f[2] <= x.serial
    BY <1>4, <1>5 DEF Before
  <1>7. ASSUME f[2] = x.serial PROVE Mixed(n) /\ x.index > 1
    <2>1. x.total = s.expected /\ i < x.index /\ f[1] = x.opens
      BY <1>4, <1>5, <1>7 DEF Before
    <2>2. x.index \in Nat /\ x.index > 1 /\ x.index <= s.expected
      BY <1>1, <1>5, <2>1 DEF IsItem
    <2>3. SUFFICES ASSUME ~Mixed(n) PROVE FALSE
      BY <2>2
    <2> DEFINE e == Collected(s, s.expected)
    <2>4. s.fragments[s.expected] \in n.serials
      BY <1>1 DEF Taken
    <2>5. s.fragments[s.expected][1] = f[1]
      BY <2>3, <2>4 DEF Mixed
    <2>6. s.fragments[s.expected] = f
      BY <1>1, <1>3, <2>5 DEF Complete
    <2>7. e.serial = x.serial /\ e.index = s.expected
      BY <1>1, <1>7, <2>6
    <2>8. Before(e, x)
      BY <1>1 DEF AfterAll
    <2> HIDE DEF e
    <2>9. s.expected < x.index
      BY <2>7, <2>8 DEF Before
    <2> QED BY <1>1, <2>2, <2>9
  <1>8. ASSUME ~Mixed(n), f[1] = x.opens
        PROVE  u.haveInput /\ u.last < x.frame /\ n.pts <= Span(u)
    <2>1. f[2] # x.serial
      BY <1>7, <1>8
    <2>2. c.serial < x.serial /\ c.serial + x.frame = x.serial + c.frame
      BY <1>4, <1>5, <1>6, <1>8, <2>1 DEF Before, IsItem
    <2>3. s.pts < x.frame
      BY <1>4, <1>5, <2>2 DEF IsItem
    <2>4. n.pts = Span(u)
      BY DEF Taken, PushedBy, Stamp, Span
    <2>5. Span(u) \in Nat
      <3>1. s \in RtspRecords
        BY DEF Complete
      <3> QED BY <2>4, <3>1, TimesAreNat DEF Taken
    <2> QED BY <2>3, <2>4, <2>5 DEF PushedBy
  <1> QED BY <1>6, <1>7, <1>8

(* What was given to the media before the packet in s.                     *)
Earlier(P, s) ==
    P \in PacketRecords /\ Whole(P) /\ \A i \in 1 .. s.expected : Gone(P, Collected(s, i), s)

LEMMA OriginStays ==
    ASSUME NEW s \in RtspRecords, s.haveInput, s.last < s.pts
    PROVE  Origin(s, s.pts, s.key) = s.origin /\ Span(s) <= Stamp(s, s.pts, s.key)
  <1>1. s.origin \in Nat /\ s.last \in Nat /\ s.pts \in Nat
    BY TimesAreNat
  <1>2. Origin(s, s.pts, s.key) = s.origin
    BY <1>1 DEF Origin
  <1> QED BY <1>1, <1>2 DEF Span, Stamp

LEMMA StillGone ==
    ASSUME NEW P, NEW s, NEW n, NEW u, NEW x, Complete(s), Taken(s, n), PushedBy(s, u),
           AfterAll(s, x), Earlier(P, s), Gone(P, x, s)
    PROVE  Gone(P, x, u)
  <1>1. /\ 1 \in 1 .. s.expected
        /\ \A i \in 1 .. s.expected :
                 /\ IsItem(Collected(s, i)) /\ s.fragments[i] \in Nat \X Nat
                 /\ Collected(s, i).opens = s.fragments[i][1]
                 /\ Collected(s, i).frame = s.pts
    BY CompleteFragments
  <1>2. SUFFICES ASSUME NEW f \in P.serials, ~Mixed(P), f[1] = x.opens
        PROVE  u.haveInput /\ u.last < x.frame /\ P.pts <= Span(u)
    BY DEF Gone
  <1>3. f[1] \in Nat /\ IsItem(x)
    BY DEF Earlier, PacketRecords, AfterAll
  <1>4. ASSUME NEW i \in 1 .. s.expected PROVE s.fragments[i][1] = f[1]
    <2>1. Collected(s, i).opens <= x.opens
      BY DEF AfterAll, Before
    <2>2. f[1] <= Collected(s, i).opens
      BY DEF Earlier, Gone
    <2>3. Collected(s, i).opens \in Nat
      BY <1>1 DEF IsItem
    <2> QED BY <1>1, <1>2, <1>3, <2>1, <2>2, <2>3
  <1>5. ~Mixed(n)
    BY <1>4 DEF Mixed, Taken
  <1>6. s.fragments[1] \in n.serials
    BY <1>1 DEF Taken
  <1>7. u.haveInput /\ u.last < x.frame /\ n.pts <= Span(u)
    BY <1>1, <1>2, <1>4, <1>5, <1>6, NothingLeft DEF Gone
  <1>8. s.haveInput /\ s.last < s.pts /\ P.pts <= Span(s)
    <2>1. Collected(s, 1).opens = f[1] /\ Collected(s, 1).frame = s.pts
      BY <1>1, <1>4
    <2>2. Gone(P, Collected(s, 1), s)
      BY <1>1 DEF Earlier
    <2> QED BY <1>2, <2>1, <2>2 DEF Gone
  <1>9. s \in RtspRecords /\ P.pts \in Nat
    BY DEF Complete, Earlier, PacketRecords
  <1>10. Span(s) <= n.pts /\ Span(s) \in Nat /\ n.pts \in Nat
    BY <1>8, <1>9, OriginStays, TimesAreNat DEF Taken
  <1>11. Span(u) \in Nat
    BY <1>9, TimesAreNat DEF Span, PushedBy
  <1>12. P.pts <= Span(u)
    BY <1>7, <1>8, <1>9, <1>10, <1>11
  <1> QED BY <1>7, <1>12

LEMMA NextInOrder ==
    ASSUME NEW P, NEW s, NEW n, Complete(s), Taken(s, n), Earlier(P, s)
    PROVE  ShownInOrder(P, n)
  <1>1. /\ 1 \in 1 .. s.expected
        /\ \A i \in 1 .. s.expected :
                 /\ IsItem(Collected(s, i)) /\ s.fragments[i] \in Nat \X Nat
                 /\ Collected(s, i).opens = s.fragments[i][1]
                 /\ Collected(s, i).serial = s.fragments[i][2]
                 /\ Collected(s, i).frame = s.pts /\ Collected(s, i).index = i
    BY CompleteFragments
  <1>2. ASSUME NEW f \in P.serials, NEW i \in 1 .. s.expected
        PROVE  /\ f[1] \in Nat /\ f[2] \in Nat /\ f[1] <= s.fragments[i][1]
               /\ f[2] <= s.fragments[i][2]
               /\ f[2] = s.fragments[i][2] => Mixed(P) /\ i > 1
               /\ ~Mixed(P) /\ f[1] = s.fragments[i][1] =>
                     s.haveInput /\ s.last < s.pts /\ P.pts <= Span(s)
    <2>1. f[1] \in Nat /\ f[2] \in Nat
      BY DEF Earlier, PacketRecords
    <2>2. Gone(P, Collected(s, i), s)
      BY DEF Earlier
    <2> QED BY <1>1, <2>1, <2>2 DEF Gone
  <1>3. ASSUME NEW a \in Serials(P), NEW b \in Serials(n)
        PROVE  a < b \/ (a = b /\ Mixed(P) /\ Mixed(n))
    <2>1. PICK f \in P.serials : a = f[2]
      BY DEF Serials
    <2>2. PICK i \in 1 .. s.expected : b = s.fragments[i][2]
      BY DEF Serials, Taken
    <2>3. a \in Nat /\ b \in Nat /\ a <= b /\ (a = b => Mixed(P))
      BY <1>1, <1>2, <2>1, <2>2
    <2>4. ASSUME a = b PROVE Mixed(n)
      <3>1. SUFFICES ASSUME ~Mixed(n) PROVE FALSE
        OBVIOUS
      <3>2. s.fragments[1] \in n.serials /\ s.fragments[i] \in n.serials
        BY <1>1 DEF Taken
      <3>3. s.fragments[1][1] = s.fragments[i][1]
        BY <3>1, <3>2 DEF Mixed
      <3>4. s.fragments[1] = s.fragments[i]
        BY <1>1, <3>3 DEF Complete
      <3>5. f[2] = s.fragments[1][2]
        BY <2>1, <2>2, <2>4, <3>4
      <3> QED BY <1>1, <1>2, <3>5
    <2> QED BY <2>3, <2>4
  <1>4. ASSUME Openings(n) = Openings(P) PROVE P.pts <= n.pts
    <2>1. ASSUME NEW f \in P.serials
          PROVE  \E i \in 1 .. s.expected : f[1] = s.fragments[i][1]
      <3>1. f[1] \in Openings(n)
        BY <1>4 DEF Openings
      <3> QED BY <3>1 DEF Openings, Taken
    <2>2. PICK f : f \in P.serials
      <3>1. s.fragments[1][1] \in Openings(P)
        BY <1>1, <1>4 DEF Openings, Taken
      <3> QED BY <3>1 DEF Openings
    <2>3. ~Mixed(P)
      <3>1. SUFFICES ASSUME NEW g \in P.serials, NEW h \in P.serials, g[1] # h[1] PROVE FALSE
        BY DEF Mixed
      <3>2. PICK i \in 1 .. s.expected : g[1] = s.fragments[i][1]
        BY <2>1
      <3>3. PICK j \in 1 .. s.expected : h[1] = s.fragments[j][1]
        BY <2>1
      <3>4. h[1] <= g[1] /\ g[1] <= h[1] /\ g[1] \in Nat /\ h[1] \in Nat
        BY <1>2, <3>2, <3>3
      <3> QED BY <3>1, <3>4
    <2>4. PICK i \in 1 .. s.expected : f[1] = s.fragments[i][1]
      BY <2>1, <2>2
    <2>5. s.haveInput /\ s.last < s.pts /\ P.pts <= Span(s)
      BY <1>2, <2>2, <2>3, <2>4
    <2>6. s \in RtspRecords /\ P.pts \in Nat
      BY DEF Complete, Earlier, PacketRecords
    <2>7. Span(s) <= n.pts /\ Span(s) \in Nat /\ n.pts \in Nat
      BY <2>5, <2>6, OriginStays, TimesAreNat DEF Taken
    <2> QED BY <2>5, <2>6, <2>7
  <1> QED BY <1>3, <1>4 DEF ShownInOrder

LEMMA PacketsStay ==
    ASSUME NEW P, NEW p, NEW q \in Seq(DatagramRecords), NEW s, NEW n, NEW u, Complete(s),
           Taken(s, n), PushedBy(s, u), AfterAll(s, Coming(p)),
           \A i \in 1 .. Len(q) : AfterAll(s, q[i]),
           P = n \/ (Earlier(P, s) /\ PacketOK(P, p, q, s)), Whole(n)
    PROVE  PacketOK(P, p, q, u)
  <1>1. u.expected = 0
    BY DEF PushedBy
  <1>2. CASE P = n
    BY <1>1, <1>2, NothingLeft DEF PacketOK
  <1>3. CASE Earlier(P, s) /\ PacketOK(P, p, q, s)
    <2>1. Gone(P, Coming(p), s) /\ (\A i \in 1 .. Len(q) : Gone(P, q[i], s)) /\ Whole(P)
      BY <1>3 DEF PacketOK
    <2>2. Gone(P, Coming(p), u)
      BY <1>3, <2>1, StillGone
    <2>3. ASSUME NEW i \in 1 .. Len(q) PROVE Gone(P, q[i], u)
      BY <1>3, <2>1, StillGone
    <2> QED BY <1>1, <2>1, <2>2, <2>3 DEF PacketOK
  <1> QED BY <1>2, <1>3

LEMMA CompleteNow ==
    ASSUME NEW p \in PublisherRecords, NEW q \in Seq(DatagramRecords), NEW s \in RtspRecords,
           VideoOK(p, q, s), s.expected # 0,
           \A i \in 1 .. s.expected : s.fragments[i] # << >>
    PROVE  /\ Complete(s) /\ AfterAll(s, Coming(p)) /\ \A i \in 1 .. Len(q) : AfterAll(s, q[i])
           /\ Earlier(s.pushed, s) /\ Earlier(s.pending, s)
  <1>1. /\ PublisherOK(p) /\ QueueOK(p, q) /\ CollectionOK(p, q, s) /\ PacketOK(s.pushed, p, q, s)
        /\ PacketOK(s.pending, p, q, s)
    BY DEF VideoOK
  <1>2. s.expected \in Nat \ {0} /\ Filled(s) = 1 .. s.expected
        /\ s.pushed \in PacketRecords /\ s.pending \in PacketRecords
    BY DEF RtspRecords, Filled
  <1>3. Complete(s)
    BY <1>1, <1>2 DEF Complete, CollectionOK
  <1>4. AfterAll(s, Coming(p))
    <2>1. IsItem(Coming(p))
      BY <1>1, ComingIsItem
    <2>2. Coming(p).total # 0 => Coming(p).index <= Coming(p).total
      BY <1>1 DEF Coming, PublisherOK, PublisherRecords
    <2> QED BY <1>1, <1>2, <2>1, <2>2 DEF AfterAll, CollectionOK
  <1>5. ASSUME NEW i \in 1 .. Len(q) PROVE AfterAll(s, q[i])
    <2>1. q[i] \in DatagramRecords /\ DatagramOK(q[i])
      BY <1>1, Elements DEF QueueOK
    <2>2. IsItem(q[i])
      BY <2>1, QueuedIsItem
    <2>3. q[i].index <= q[i].total
      <3>1. q[i].index \in 1 .. q[i].total
        BY <2>1 DEF DatagramOK
      <3> QED BY <3>1
    <2> QED BY <1>1, <1>2, <2>2, <2>3 DEF AfterAll, CollectionOK
  <1>6. Earlier(s.pushed, s) /\ Earlier(s.pending, s)
    BY <1>1, <1>2 DEF Earlier, PacketOK
  <1> QED BY <1>3, <1>4, <1>5, <1>6

LEMMA TakenIsWhole ==
    ASSUME NEW s, NEW n, Complete(s), Taken(s, n)
    PROVE  Whole(n)
  <1>1. 1 \in 1 .. s.expected
    BY CompleteFragments
  <1>2. s.fragments[1] \in n.serials
    BY <1>1 DEF Taken
  <1>3. ASSUME ~Mixed(n), NEW f \in n.serials, NEW g \in n.serials PROVE f = g
    <2>1. f[1] = g[1]
      BY <1>3 DEF Mixed
    <2> QED BY <2>1 DEF Taken, Complete
  <1> QED BY <1>2, <1>3 DEF Whole

(* What Push leaves.                                                       *)
PacketOf(s, F) == [serials |-> F, key |-> s.key, pts |-> Stamp(s, s.pts, s.key)]

LEMMA PushIs ==
    ASSUME NEW s \in RtspRecords, Complete(s), NEW F, F = {s.fragments[i] : i \in 1 .. s.expected},
           NEW n, n = PacketOf(s, F), NEW w, w = Push(s, F)
    PROVE  /\ Taken(s, n) /\ n \in PacketRecords
           /\ w \in RtspRecords /\ w.origin = Origin(s, s.pts, s.key) /\ w.haveInput
           /\ w.last = s.pts /\ w.source = s.source
           /\ \/ w.pushed = n /\ w.pending = s.pending
              \/ w.pushed = s.pushed /\ w.pending \in {n, s.pending}
  <1> DEFINE o == Origin(s, s.pts, s.key)
             input == [s EXCEPT !.origin = o, !.haveInput = TRUE, !.last = s.pts]
  <1>1. o \in Nat /\ Stamp(s, s.pts, s.key) \in Nat /\ s.pts \in Nat /\ s.key \in BOOLEAN
        /\ s.source \in Nat
    BY TimesAreNat DEF RtspRecords
  <1>2. F \in SUBSET (Nat \X Nat)
    BY CompleteFragments
  <1>3. n \in PacketRecords
    BY <1>1, <1>2 DEF PacketRecords, PacketOf
  <1>4. Taken(s, n)
    BY DEF Taken, PacketOf
  <1>5. CASE s.source > 0
    <2>1. w = [input EXCEPT !.pushed = PacketOf(s, F)]
      BY <1>5 DEF Push, PacketOf
    <2>2. w = [input EXCEPT !.pushed = n]
      BY <2>1
    <2> HIDE DEF o
    <2>3. input \in RtspRecords /\ input.origin = o /\ input.haveInput /\ input.last = s.pts
          /\ input.pending = s.pending /\ input.source = s.source
      BY <1>1 DEF RtspRecords
    <2> HIDE DEF input
    <2>4. /\ w \in RtspRecords /\ w.origin = o /\ w.haveInput /\ w.last = s.pts
          /\ w.source = s.source /\ w.pushed = n /\ w.pending = s.pending
      BY <1>3, <2>2, <2>3 DEF RtspRecords
    <2> QED BY <1>3, <1>4, <2>4 DEF o
  <1>6. CASE s.source = 0 /\ s.key
    <2>1. w = [input EXCEPT !.pending = PacketOf(s, F)]
      BY <1>6 DEF Push, PacketOf
    <2>2. w = [input EXCEPT !.pending = n]
      BY <2>1
    <2> HIDE DEF o
    <2>3. input \in RtspRecords /\ input.origin = o /\ input.haveInput /\ input.last = s.pts
          /\ input.pushed = s.pushed /\ input.source = s.source
      BY <1>1 DEF RtspRecords
    <2> HIDE DEF input
    <2>4. /\ w \in RtspRecords /\ w.origin = o /\ w.haveInput /\ w.last = s.pts
          /\ w.source = s.source /\ w.pushed = s.pushed /\ w.pending = n
      BY <1>3, <2>2, <2>3 DEF RtspRecords
    <2> QED BY <1>3, <1>4, <2>4 DEF o
  <1>7. CASE ~(s.source > 0) /\ ~s.key
    <2>1. w = input
      BY <1>7 DEF Push
    <2> HIDE DEF o
    <2>2. input \in RtspRecords /\ input.origin = o /\ input.haveInput /\ input.last = s.pts
          /\ input.pushed = s.pushed /\ input.pending = s.pending /\ input.source = s.source
      BY <1>1 DEF RtspRecords
    <2> HIDE DEF input
    <2> QED BY <1>3, <1>4, <2>1, <2>2 DEF o
  <1> QED BY <1>1, <1>5, <1>6, <1>7

LEMMA CollectionForgotten ==
    ASSUME NEW w \in RtspRecords, NEW u, u = [w EXCEPT !.expected = 0]
    PROVE  /\ u \in RtspRecords /\ u.pushed = w.pushed /\ u.pending = w.pending
           /\ u.source = w.source /\ u.origin = w.origin /\ u.haveInput = w.haveInput
           /\ u.last = w.last /\ u.expected = 0
  BY DEF RtspRecords

LEMMA FragmentReceived ==
    ASSUME VideoInv, Receive PROVE VideoInv' /\ VideoStepInOrder
  <1> DEFINE p == publisher
             q == datagrams
             r == rtsp
             d == Head(q)
             t == Tail(q)
             s == [Collection(d) EXCEPT !.fragments[d.index] = <<d.opens, d.serial>>]
             F == {s.fragments[i] : i \in 1 .. d.total}
  <1>1. /\ publisher' = p /\ datagrams' = t /\ q # << >>
        /\ rtsp' = IF \A i \in 1 .. d.total : s.fragments[i] # << >>
                   THEN [Push(s, F) EXCEPT !.expected = 0]
                   ELSE s
    BY DEF Receive
  <1>2. /\ p \in PublisherRecords /\ q \in Seq(DatagramRecords) /\ r \in RtspRecords
        /\ VideoOK(p, q, r)
    BY DEF VideoInv, VideoTypes
  <1>3. t \in Seq(DatagramRecords) /\ VideoOK(p, t, r) /\ Arrives(d, p, t, r)
    BY <1>1, <1>2, QueueShrinks
  <1> HIDE DEF d, t
  <1>4. /\ d \in DatagramRecords /\ DatagramOK(d) /\ CollectionOK(p, t, rtsp)
    BY <1>3 DEF Arrives, VideoOK
  <1>5. s \in RtspRecords /\ Joined(r, s, d)
    BY <1>2, <1>4, FragmentJoins
  <1> HIDE DEF s
  <1>6. /\ VideoOK(p, t, s) /\ s.expected # 0 /\ s.expected = d.total
        /\ s.pushed = r.pushed /\ s.source = r.source
    BY <1>2, <1>3, <1>5, CollectionGrows DEF Joined
  <1>7. CASE ~\A i \in 1 .. d.total : s.fragments[i] # << >>
    <2>1. rtsp' = s
      BY <1>1, <1>7
    <2>2. VideoInv'
      BY <1>1, <1>2, <1>3, <1>5, <1>6, <2>1 DEF VideoInv, VideoTypes
    <2> QED BY <1>6, <2>1, <2>2 DEF VideoStepInOrder
  <1>8. CASE \A i \in 1 .. d.total : s.fragments[i] # << >>
    <2> DEFINE n == PacketOf(s, F)
               w == Push(s, F)
               u == [w EXCEPT !.expected = 0]
    <2>1. rtsp' = u
      BY <1>1, <1>8
    <2>2. F = {s.fragments[i] : i \in 1 .. s.expected}
      BY <1>6
    <2>3. /\ Complete(s) /\ AfterAll(s, Coming(p)) /\ \A i \in 1 .. Len(t) : AfterAll(s, t[i])
          /\ Earlier(s.pushed, s) /\ Earlier(s.pending, s)
      BY <1>2, <1>3, <1>5, <1>6, <1>8, CompleteNow
    <2> HIDE DEF F
    <2>4. /\ Taken(s, n) /\ n \in PacketRecords /\ PushedBy(s, u) /\ u \in RtspRecords
          /\ \/ u.pushed = n /\ u.pending = s.pending
             \/ u.pushed = s.pushed /\ u.pending \in {n, s.pending}
          /\ u.source = s.source
      <3>1. /\ Taken(s, n) /\ n \in PacketRecords
            /\ w \in RtspRecords /\ w.origin = Origin(s, s.pts, s.key) /\ w.haveInput
            /\ w.last = s.pts /\ w.source = s.source
            /\ \/ w.pushed = n /\ w.pending = s.pending
               \/ w.pushed = s.pushed /\ w.pending \in {n, s.pending}
        BY <1>5, <2>2, <2>3, PushIs
      <3> HIDE DEF n, w
      <3>2. /\ u \in RtspRecords /\ u.pushed = w.pushed /\ u.pending = w.pending
            /\ u.source = w.source /\ u.origin = w.origin /\ u.haveInput = w.haveInput
            /\ u.last = w.last /\ u.expected = 0
        BY <3>1, CollectionForgotten
      <3> QED BY <3>1, <3>2 DEF PushedBy
    <2> HIDE DEF n, w, u, p, q
    <2>5. Whole(n)
      BY <2>3, <2>4, TakenIsWhole
    <2>6. PacketOK(s.pushed, p, t, s) /\ PacketOK(s.pending, p, t, s) /\ PublisherOK(p)
          /\ QueueOK(p, t)
      BY <1>6 DEF VideoOK
    <2>7. PacketOK(u.pushed, p, t, u) /\ PacketOK(u.pending, p, t, u)
      <3>1. ASSUME NEW P \in {n, s.pushed, s.pending} PROVE PacketOK(P, p, t, u)
        BY <1>3, <2>3, <2>4, <2>5, <2>6, PacketsStay
      <3> QED BY <2>4, <3>1
    <2>8. VideoOK(p, t, u)
      BY <2>4, <2>6, <2>7 DEF VideoOK, CollectionOK, PushedBy
    <2>9. VideoInv'
      BY <1>1, <1>2, <1>3, <2>1, <2>4, <2>8 DEF VideoInv, VideoTypes
    <2>10. u.pushed = n \/ u.pushed = r.pushed
      BY <1>6, <2>4
    <2>11. ShownInOrder(s.pushed, n)
      BY <2>3, <2>4, NextInOrder
    <2>12. n # NoPacket => Mixed(n) \/ Cardinality(Serials(n)) = 1
      BY <2>5, WholeIsOne
    <2>13. VideoStepInOrder
      BY <1>6, <2>1, <2>10, <2>11, <2>12 DEF VideoStepInOrder
    <2> QED BY <2>9, <2>13
  <1> QED BY <1>7, <1>8

LEMMA VideoStep ==
    ASSUME VideoInv, VideoNext PROVE VideoInv' /\ VideoStepInOrder
  BY PublisherGoesOn, FragmentSent, RtspSteady, FragmentReceived DEF VideoNext, RtspSteps

LEMMA VideoUntouched ==
    ASSUME VideoInv, UNCHANGED videoVars PROVE VideoInv' /\ VideoStepInOrder
  BY DEF VideoInv, VideoTypes, videoVars, VideoStepInOrder

-----------------------------------------------------------------------------
(* The chassis.                                                            *)

ControlWords == {"ok", "disabled", "unauthorized", "estop"}
Frames ==
    [kind : {"beat", "fault", "motion", "bad"}, at : Nat, boot : {1, 2}, up : Int,
     seq : 0 .. SeqSpace - 1, faulted : BOOLEAN]
Controllers ==
    [boot : {1, 2}, at : Int, seq : 0 .. SeqSpace - 1, faultSeq : 0 .. SeqSpace - 1,
     faulted : BOOLEAN]
Statuses == {"unknown", "alive", "timeout"}
CanClients ==
    [status : Statuses, valid : BOOLEAN, seq : 0 .. SeqSpace - 1, up : Int, at : Nat,
     reboots : Nat, faultValid : BOOLEAN, faultSeq : 0 .. SeqSpace - 1, reported : Statuses,
     seen : BOOLEAN, observed : Nat, boot : {0, 1, 2}, heard : {1, 2}, missed : BOOLEAN,
     said : [boot : {1, 2}, faulted : BOOLEAN]]
Trackers == [beat : Int, sample : Int, faulted : BOOLEAN, boot : {0, 1, 2}]
Adapters == [request : Int, since : Nat, out : Nat, speed : Int, invalid : BOOLEAN]
Clocks ==
    [now : Nat, controls : ControlWords, off : Nat,
     sent : [on : BOOLEAN, speed : Int, at : Nat, controls : ControlWords]]

ChassisTypes ==
    /\ mcu \in Controllers /\ rx \in Seq(Frames) /\ cli \in CanClients /\ trk \in Trackers
    /\ ad \in Adapters /\ ctl \in Clocks

(* A request that waits is younger than the last stop.                     *)
WithinLimit(speed) == -TopSpeed <= speed /\ speed <= TopSpeed
MotionOK(a, k) ==
    /\ k.off <= k.now /\ k.sent.at <= k.now
    /\ a.request # NoRequest => a.since >= k.off
    /\ a.out = 0 \/ a.out >= k.sent.at
    /\ WithinLimit(a.speed)

LEMMA RampGrows ==
    ASSUME NEW x \in Nat, NEW y \in Nat, x <= y PROVE Ramp * x <= Ramp * y /\ Ramp * x \in Nat
  BY ChassisAssumption

LEMMA ApproachIsGradual ==
    ASSUME NEW a \in Adapters, NEW now \in Nat, NEW gap \in Nat \ {0}, WithinLimit(a.speed),
           now >= a.out, a.out = 0 \/ now - a.out <= gap
    PROVE  /\ Approach(a, now) \in Int /\ WithinLimit(Approach(a, now))
           /\ Distance(Approach(a, now), a.speed) <= Ramp * gap
  <1> DEFINE target == Clamp(a.request, -TopSpeed, TopSpeed)
             elapsed == IF a.out = 0 THEN 1 ELSE Clamp(now - a.out, 0, CommandLife)
             delta == IF Ramp * elapsed < 1 THEN 1 ELSE Ramp * elapsed
  <1>1. a.speed \in Int /\ a.out \in Nat /\ a.request \in Int
    BY DEF Adapters
  <1>2. target \in Int /\ -TopSpeed <= target /\ target <= TopSpeed
    BY <1>1, ChassisAssumption DEF Clamp
  <1>3. elapsed \in Nat /\ elapsed <= gap
    BY <1>1, ChassisAssumption DEF Clamp
  <1>4. Approach(a, now) = a.speed + Clamp(target - a.speed, -delta, delta)
    BY DEF Approach
  <1> HIDE DEF target, elapsed
  <1>5. Ramp * elapsed <= Ramp * gap /\ Ramp * elapsed \in Nat /\ 1 <= Ramp * gap /\ Ramp * gap \in Nat
    BY <1>3, RampGrows, ChassisAssumption
  <1>6. delta \in Nat /\ 1 <= delta /\ delta <= Ramp * gap
    BY <1>5
  <1> DEFINE bound == Ramp * gap
  <1>7. bound \in Nat /\ delta <= bound
    BY <1>5, <1>6
  <1> HIDE DEF delta, bound
  <1>8. /\ a.speed + Clamp(target - a.speed, -delta, delta) \in Int
        /\ WithinLimit(a.speed + Clamp(target - a.speed, -delta, delta))
        /\ Distance(a.speed + Clamp(target - a.speed, -delta, delta), a.speed) <= bound
    BY <1>1, <1>2, <1>6, <1>7, ChassisAssumption DEF Clamp, WithinLimit, Distance
  <1> QED BY <1>4, <1>8 DEF bound

LEMMA RequestSubmitted ==
    ASSUME NEW a \in Adapters, NEW s, NEW x \in Requests, NEW now \in Nat,
           NEW u, u = SubmitRequest(a, s, x, now)
    PROVE  /\ u \in Adapters /\ u.out = a.out /\ u.speed = a.speed
           /\ u.request # NoRequest => u.since = now
  <1>1. x \in Int /\ NoRequest \in Int /\ 0 \in Nat
    BY ChassisAssumption DEF Requests, BadRequest, NoRequest
  <1> DEFINE u1 == [a EXCEPT !.request = NoRequest, !.since = 0]
             u2 == [a EXCEPT !.invalid = TRUE, !.request = NoRequest, !.since = now]
             u3 == [a EXCEPT !.request = x, !.since = now, !.invalid = FALSE]
  <1>2. u = u1 \/ u = u2 \/ u = u3
    BY DEF SubmitRequest
  <1>3. u1 \in Adapters /\ u1.out = a.out /\ u1.speed = a.speed /\ u1.request = NoRequest
    BY <1>1 DEF Adapters
  <1>4. u2 \in Adapters /\ u2.out = a.out /\ u2.speed = a.speed /\ u2.request = NoRequest
    BY <1>1 DEF Adapters
  <1>5. u3 \in Adapters /\ u3.out = a.out /\ u3.speed = a.speed /\ u3.since = now
    BY <1>1 DEF Adapters
  <1> HIDE DEF u1, u2, u3
  <1> QED BY <1>2, <1>3, <1>4, <1>5

LEMMA AdapterEvaluated ==
    ASSUME NEW a \in Adapters, NEW s, NEW now \in Nat, NEW gap \in Nat \ {0},
           WithinLimit(a.speed), a.out = 0 \/ now - a.out <= gap,
           NEW u, u = Evaluated(a, s, now)
    PROVE  /\ u \in Adapters /\ u.out = now /\ WithinLimit(u.speed)
           /\ u.request # NoRequest => u.since = a.since
           /\ Stopped(a, s, now) => u.request = NoRequest
           /\ ~Stopped(a, s, now) => u.request = a.request /\ Distance(u.speed, a.speed) <= Ramp * gap
  <1>1. CASE Stopped(a, s, now)
    <2>1. u = AdapterStop(a, now)
      BY <1>1 DEF Evaluated
    <2>2. NoRequest \in Int /\ 0 \in Int /\ 0 \in Nat
      BY DEF NoRequest
    <2>3. /\ u \in Adapters /\ u.out = now /\ u.speed = 0 /\ u.request = NoRequest
      BY <2>1, <2>2 DEF AdapterStop, Adapters
    <2> QED BY <1>1, <2>3, ChassisAssumption DEF WithinLimit
  <1>2. CASE ~Stopped(a, s, now)
    <2> DEFINE v == Approach(a, now)
    <2>1. now >= a.out
      BY <1>2 DEF Stopped, Adapters
    <2>2. v \in Int /\ WithinLimit(v) /\ Distance(v, a.speed) <= Ramp * gap
      BY <2>1, ApproachIsGradual
    <2>3. u = [a EXCEPT !.speed = v, !.out = now]
      BY <1>2 DEF Evaluated
    <2> HIDE DEF v
    <2>4. /\ u \in Adapters /\ u.out = now /\ u.speed = v /\ u.request = a.request
          /\ u.since = a.since
      BY <2>2, <2>3 DEF Adapters
    <2> QED BY <1>2, <2>2, <2>4
  <1> QED BY <1>1, <1>2

(* Over CAN.  The sequences of the first boot's fault frames follow each   *)
(* other: after position i the next one, or else the one the controller    *)
(* will send, has sequence x.  (After a reboot every report is of a fault.)*)
FaultOfFirstBoot(f) == f.kind = "fault" /\ f.boot = 1
Expects(m, q, i, x) ==
    /\ \A j \in i + 1 .. Len(q) :
          FaultOfFirstBoot(q[j]) /\ (\A h \in i + 1 .. j - 1 : ~FaultOfFirstBoot(q[h]))
             => q[j].seq = x
    /\ m.boot = 1 /\ (\A h \in i + 1 .. Len(q) : ~FaultOfFirstBoot(q[h])) => m.faultSeq = x
SeqAfter(x) == (x + 1) % SeqSpace
BusOK(m, q, now) ==
    /\ m.boot = 2 => m.faulted
    /\ \A i \in 1 .. Len(q) :
          q[i].at <= now /\ q[i].boot <= m.boot /\ (q[i].boot = 2 => q[i].faulted)
    /\ \A i, j \in 1 .. Len(q) : i <= j => q[i].at <= q[j].at /\ q[i].boot <= q[j].boot
    /\ \A i \in 1 .. Len(q) : FaultOfFirstBoot(q[i]) => Expects(m, q, i, SeqAfter(q[i].seq))

(* What the client and the tracker know belongs together: a report older   *)
(* than the boot that is heard is not trusted, but for the missed reboot.  *)
Heard(c, t, now) ==
    /\ c.reboots = c.observed
    /\ t.beat # Never => c.boot # 0
    /\ t.sample # Never => t.boot # 0
    /\ t.boot = 2 => t.faulted
    /\ t.sample <= now
    /\ c.heard = 2 /\ c.boot # 2 => t.boot = 2
    /\ c.boot = 2 /\ t.boot # 2 => ~c.seen \/ c.missed

(* And with what is still in the socket: a report that is fresh is the     *)
(* last one that was sent, and the next one will not look old.  A frame    *)
(* that is as old as a fresh report is not skipped.                        *)
KnowsBoot(c, t, b) == c.boot <= b /\ c.heard <= b /\ c.said.boot <= b /\ t.boot <= b
ComesAfter(f, c, t, now) ==
    /\ KnowsBoot(c, t, f.boot) /\ f.at >= t.sample
    /\ f.at > t.sample \/ now - t.sample < Window
IsLatest(c, t, m, q, i, now) ==
    FaultFresh(t, now) /\ c.said.boot = 1 =>
       /\ t.boot = 1 /\ c.said.faulted = t.faulted
       /\ c.faultValid => Expects(m, q, i, SeqAfter(c.faultSeq))
Awaits(c, t, m, q, i, now) ==
    /\ KnowsBoot(c, t, m.boot)
    /\ \A j \in i + 1 .. Len(q) : ComesAfter(q[j], c, t, now)
    /\ IsLatest(c, t, m, q, i, now)

CanOK(c, t, m, q, now) ==
    /\ BusOK(m, q, now) /\ Heard(c, t, now) /\ Awaits(c, t, m, q, 0, now)
    /\ \A j \in 1 .. Len(q) : q[j].at > t.sample

(* The loop's adapter starts from the speed of the last command.           *)
ChassisInv ==
    /\ scene \in Scenes /\ ChassisTypes /\ MotionOK(ad, ctl)
    /\ ~Use("node") => ad.speed = ctl.sent.speed
    /\ Use("loop") => CanOK(cli, trk, mcu, rx, ctl.now)

LEMMA NextIsAhead ==
    ASSUME NEW x \in 0 .. SeqSpace - 1
    PROVE  /\ SeqAfter(x) \in 0 .. SeqSpace - 1 /\ Ahead(SeqAfter(x), x) = 1
           /\ 1 < SeqSpace \div 2
  <1>1. SeqSpace \in Nat /\ SeqSpace >= 4 /\ x \in Nat /\ x < SeqSpace
    BY ChassisAssumption
  <1>2. 1 < SeqSpace \div 2
    BY <1>1
  <1>3. CASE x = SeqSpace - 1
    <2>1. SeqAfter(x) = 0
      BY <1>1, <1>3 DEF SeqAfter
    <2>2. Ahead(0, x) = 1
      BY <1>1, <1>3 DEF Ahead
    <2> QED BY <1>1, <1>2, <2>1, <2>2
  <1>4. CASE x # SeqSpace - 1
    <2>1. SeqAfter(x) = x + 1 /\ x + 1 \in 0 .. SeqSpace - 1
      BY <1>1, <1>4 DEF SeqAfter
    <2>2. (1 + SeqSpace) % SeqSpace = 1
      BY <1>1
    <2>3. (x + 1) - x + SeqSpace = 1 + SeqSpace
      BY <1>1
    <2>4. Ahead(x + 1, x) = 1
      BY <2>2, <2>3 DEF Ahead
    <2> QED BY <1>2, <2>1, <2>4
  <1> QED BY <1>3, <1>4

(* A step by which a client only loses knowledge.                          *)
LessKnown(u, c) ==
    /\ u.reboots = c.reboots /\ u.observed = c.observed /\ u.boot = c.boot /\ u.heard = c.heard
    /\ u.missed = c.missed /\ u.said = c.said /\ (u.seen => c.seen)
    /\ u.faultValid => c.faultValid /\ u.faultSeq = c.faultSeq

LEMMA TimeoutKnows ==
    ASSUME NEW c \in CanClients, NEW now \in Nat, NEW u, u = UpdateHeartbeatTimeout(c, now)
    PROVE  u \in CanClients /\ LessKnown(u, c) /\ u.seen = c.seen
  <1>1. CASE u = c
    BY <1>1 DEF LessKnown
  <1>2. CASE u # c
    <2> DEFINE v == [c EXCEPT !.faultValid = FALSE, !.faultSeq = 0]
    <2>1. u = [v EXCEPT !.status = "timeout"]
      BY <1>2 DEF UpdateHeartbeatTimeout, ResetFaultSequenceBaseline
    <2>2. 0 \in 0 .. SeqSpace - 1
      BY ChassisAssumption
    <2>3. v \in CanClients /\ LessKnown(v, c) /\ v.seen = c.seen /\ v.faultValid = FALSE
      BY <2>2 DEF CanClients, LessKnown
    <2> HIDE DEF v
    <2>4. u \in CanClients /\ LessKnown(u, v) /\ u.seen = v.seen
      BY <2>1, <2>3 DEF CanClients, Statuses, LessKnown
    <2> QED BY <2>3, <2>4 DEF LessKnown
  <1> QED BY <1>1, <1>2

LEMMA ReportedKnows ==
    ASSUME NEW c \in CanClients
    PROVE  /\ Reported(c) \in CanClients /\ LessKnown(Reported(c), c)
           /\ Reported(c).seen = c.seen /\ Reported(c).faultValid = c.faultValid
  BY DEF Reported, CanClients, LessKnown

LEMMA SourceKnows ==
    ASSUME NEW c \in CanClients, NEW now \in Nat, NEW u, u = SourceUpdated(c, now)
    PROVE  u \in CanClients /\ LessKnown(u, c)
  <1> DEFINE v == UpdateHeartbeatTimeout(c, now)
  <1>1. v \in CanClients /\ LessKnown(v, c)
    BY TimeoutKnows
  <1>2. CASE u = v
    BY <1>1, <1>2
  <1>3. CASE u # v
    <2> DEFINE w == Reported(v)
               keep == w.seen /\ v.status # "timeout"
    <2>1. u = [w EXCEPT !.seen = keep]
      BY <1>3 DEF SourceUpdated
    <2> HIDE DEF v
    <2>2. w \in CanClients /\ LessKnown(w, v)
      BY <1>1, ReportedKnows
    <2>3. keep \in BOOLEAN /\ (keep => w.seen)
      OBVIOUS
    <2> HIDE DEF w, keep
    <2>4. u \in CanClients /\ LessKnown(u, w)
      BY <2>1, <2>2, <2>3 DEF CanClients, LessKnown
    <2> QED BY <1>1, <2>2, <2>4 DEF LessKnown
  <1> QED BY <1>2, <1>3

(* The numbers are well-founded: a set of them has a least element.        *)
LEMMA Minimal ==
    ASSUME NEW R, NEW S, IsWellFoundedOn(R, S), NEW T, T \subseteq S, T # {}
    PROVE  \E x \in T : \A y \in T : <<y, x>> \notin R
  BY WFMin

LEMMA Least ==
    ASSUME NEW T, T \subseteq Nat, T # {}
    PROVE  \E x \in T : \A y \in T : x <= y
  <1>1. IsWellFoundedOn(OpToRel(<, Nat), Nat)
    BY NatLessThanWellFounded
  <1>2. PICK x \in T : \A y \in T : <<y, x>> \notin OpToRel(<, Nat)
    BY <1>1, Minimal, Zenon
  <1>3. ASSUME NEW y \in T PROVE x <= y
    <2>1. x \in Nat /\ y \in Nat
      OBVIOUS
    <2>2. <<y, x>> \notin {ss \in Nat \X Nat : ss[1] < ss[2]}
      BY <1>2, Zenon DEF OpToRel
    <2> HIDE <1>2
    <2> QED BY <2>1, <2>2
  <1> QED BY <1>3

(* What becomes of a frame that is not stale: it is passed over, a         *)
(* heartbeat or a fault is taken, or a fault is dropped because it looks   *)
(* old.                                                                    *)
Passed(d, s, c, t, f) == f.kind # "fault" /\ LessKnown(d, c) /\ s = t
BeatTaken(d, s, c, t, f) ==
    /\ f.kind = "beat" /\ d.reboots = d.observed /\ d.boot = f.boot /\ d.heard = f.boot
    /\ d.said = c.said
    /\ d.seen => c.seen /\ d.missed = (c.missed \/ f.boot # c.heard)
    /\ d.faultValid => c.faultValid /\ d.faultSeq = c.faultSeq
    /\ s.beat # Never /\ s.sample = t.sample /\ s.faulted = t.faulted /\ s.boot = t.boot
FaultTaken(d, s, c, t, f) ==
    /\ f.kind = "fault" /\ d.reboots = c.reboots /\ d.observed = c.observed /\ d.boot = c.boot
    /\ d.heard = f.boot /\ d.said = [boot |-> f.boot, faulted |-> f.faulted]
    /\ d.faultValid /\ d.faultSeq = f.seq
    /\ s.beat = t.beat /\ s.sample = f.at /\ s.faulted = f.faulted /\ s.boot = f.boot
FaultDropped(d, s, c, t, f) ==
    /\ f.kind = "fault" /\ d.reboots = c.reboots /\ d.observed = c.observed /\ d.boot = c.boot
    /\ d.heard = c.heard /\ d.said = [boot |-> f.boot, faulted |-> f.faulted]
    /\ d.missed = c.missed /\ d.seen = c.seen
    /\ c.faultValid
    /\ Ahead(f.seq, c.faultSeq) = 0 \/ Ahead(f.seq, c.faultSeq) >= SeqSpace \div 2
    /\ s = t

LEMMA HeartbeatIs ==
    ASSUME NEW c \in CanClients, NEW f \in Frames, NEW u, u = ProcessHeartbeat(c, f)
    PROVE  /\ u \in CanClients /\ u.boot = f.boot /\ u.heard = f.boot /\ u.said = c.said
           /\ u.seen = c.seen /\ u.observed = c.observed
           /\ \/ u.reboots = c.reboots + 1 /\ ~u.faultValid
              \/ /\ u.reboots = c.reboots /\ u.missed = (c.missed \/ f.boot # c.heard)
                 /\ u.faultValid = c.faultValid /\ u.faultSeq = c.faultSeq
  <1> DEFINE reboot == Rebooted(c, f)
             n == IF reboot THEN c.reboots + 1 ELSE c.reboots
             x == (c.missed \/ f.boot # c.heard) /\ ~reboot
             v == [c EXCEPT !.valid = TRUE, !.seq = f.seq, !.status = "alive", !.up = f.up,
                            !.at = f.at]
             d == [v EXCEPT !.reboots = n, !.missed = x, !.boot = f.boot, !.heard = f.boot]
  <1>1. u = IF reboot THEN ResetFaultSequenceBaseline(d) ELSE d
    BY DEF ProcessHeartbeat
  <1>2. /\ f.boot \in {1, 2} /\ f.seq \in 0 .. SeqSpace - 1 /\ f.up \in Int /\ f.at \in Nat
        /\ "alive" \in Statuses /\ TRUE \in BOOLEAN
    BY DEF Frames, Statuses
  <1>3. n \in Nat /\ x \in BOOLEAN /\ reboot \in BOOLEAN
    BY <1>2 DEF CanClients, Rebooted
  <1>4. (reboot => n = c.reboots + 1) /\ (~reboot => n = c.reboots /\ x = (c.missed \/ f.boot # c.heard))
    BY DEF CanClients
  <1> HIDE DEF reboot, n, x
  <1>5. /\ v \in CanClients /\ v.said = c.said /\ v.seen = c.seen /\ v.observed = c.observed
        /\ v.faultValid = c.faultValid /\ v.faultSeq = c.faultSeq
    BY <1>2 DEF CanClients
  <1> HIDE DEF v
  <1>6. /\ d \in CanClients /\ d.boot = f.boot /\ d.heard = f.boot /\ d.said = v.said
        /\ d.seen = v.seen /\ d.observed = v.observed /\ d.reboots = n /\ d.missed = x
        /\ d.faultValid = v.faultValid /\ d.faultSeq = v.faultSeq
    BY <1>2, <1>3, <1>5 DEF CanClients
  <1> HIDE DEF d
  <1>7. CASE reboot
    <2>1. u = [d EXCEPT !.faultValid = FALSE, !.faultSeq = 0]
      BY <1>1, <1>7 DEF ResetFaultSequenceBaseline
    <2>2. 0 \in 0 .. SeqSpace - 1
      BY ChassisAssumption
    <2>3. /\ u \in CanClients /\ u.boot = d.boot /\ u.heard = d.heard /\ u.said = d.said
          /\ u.seen = d.seen /\ u.observed = d.observed /\ u.reboots = d.reboots
          /\ u.faultValid = FALSE
      BY <1>6, <2>1, <2>2 DEF CanClients
    <2> QED BY <1>4, <1>5, <1>6, <1>7, <2>3
  <1>8. CASE ~reboot
    <2>1. u = d
      BY <1>1, <1>8
    <2> QED BY <1>4, <1>5, <1>6, <1>8, <2>1
  <1> QED BY <1>7, <1>8

LEMMA BeatIsTaken ==
    ASSUME NEW c \in CanClients, NEW t \in Trackers, NEW f \in Frames, f.kind = "beat",
           c.reboots = c.observed,
           NEW d, d = ObserveReboot(Reported(ProcessHeartbeat(c, f))),
           NEW s, s = [t EXCEPT !.beat = IF f.at >= @ THEN f.at ELSE @]
    PROVE  d \in CanClients /\ s \in Trackers /\ BeatTaken(d, s, c, t, f)
  <1> DEFINE u == ProcessHeartbeat(c, f)
             v == Reported(u)
  <1>1. /\ u \in CanClients /\ u.boot = f.boot /\ u.heard = f.boot /\ u.said = c.said
        /\ u.seen = c.seen /\ u.observed = c.observed
        /\ \/ u.reboots = c.reboots + 1 /\ ~u.faultValid
           \/ /\ u.reboots = c.reboots /\ u.missed = (c.missed \/ f.boot # c.heard)
              /\ u.faultValid = c.faultValid /\ u.faultSeq = c.faultSeq
    BY HeartbeatIs
  <1> HIDE DEF u
  <1>2. v \in CanClients /\ LessKnown(v, u) /\ v.seen = u.seen /\ v.faultValid = u.faultValid
    BY <1>1, ReportedKnows
  <1>3. d = ObserveReboot(v)
    BY DEF u
  <1> HIDE DEF v
  <1>4. /\ d \in CanClients /\ d.reboots = v.reboots /\ d.observed = v.reboots /\ d.boot = v.boot
        /\ d.heard = v.heard /\ d.said = v.said /\ d.missed = v.missed
        /\ d.faultValid = v.faultValid /\ d.faultSeq = v.faultSeq
        /\ IF v.reboots = v.observed THEN d.seen = v.seen ELSE d.seen = FALSE
    <2>1. CASE v.reboots = v.observed
      BY <1>2, <1>3, <2>1 DEF ObserveReboot
    <2>2. CASE v.reboots # v.observed
      <3>1. d = [v EXCEPT !.observed = v.reboots, !.seen = FALSE]
        BY <1>3, <2>2 DEF ObserveReboot
      <3> QED BY <1>2, <2>2, <3>1 DEF CanClients
    <2> QED BY <2>1, <2>2
  <1>5. c.reboots \in Nat /\ c.reboots + 1 # c.reboots
    BY DEF CanClients
  <1>6. s \in Trackers /\ s.sample = t.sample /\ s.faulted = t.faulted /\ s.boot = t.boot
    BY DEF Trackers, Frames
  <1>7. s.beat # Never
    BY DEF Trackers, Frames, Never
  <1> QED BY <1>1, <1>2, <1>4, <1>5, <1>6, <1>7 DEF BeatTaken, LessKnown

LEMMA FaultIsTaken ==
    ASSUME NEW c \in CanClients, NEW t \in Trackers, NEW f \in Frames, f.kind = "fault",
           f.at >= t.sample, NEW u \in CanClients, LessKnown(u, [c EXCEPT !.said = u.said]),
           u.said = [boot |-> f.boot, faulted |-> f.faulted],
           NEW d, d = Reported([u EXCEPT !.faultValid = TRUE, !.faultSeq = f.seq, !.seen = TRUE,
                                         !.heard = f.boot]),
           NEW s, s = [t EXCEPT !.sample = f.at, !.faulted = f.faulted, !.boot = f.boot]
    PROVE  d \in CanClients /\ s \in Trackers /\ FaultTaken(d, s, c, t, f)
  <1> DEFINE v == [u EXCEPT !.faultValid = TRUE, !.faultSeq = f.seq, !.seen = TRUE,
                            !.heard = f.boot]
  <1>1. /\ f.boot \in {1, 2} /\ f.seq \in 0 .. SeqSpace - 1 /\ f.at \in Nat
        /\ f.faulted \in BOOLEAN
    BY DEF Frames
  <1>2. /\ v \in CanClients /\ v.faultValid = TRUE /\ v.faultSeq = f.seq /\ v.heard = f.boot
        /\ v.said = u.said /\ v.boot = u.boot /\ v.reboots = u.reboots
        /\ v.observed = u.observed
    BY <1>1 DEF CanClients
  <1> HIDE DEF v
  <1>3. d \in CanClients /\ LessKnown(d, v) /\ d.faultValid = v.faultValid
    BY <1>2, ReportedKnows DEF v
  <1>4. u.boot = c.boot /\ u.reboots = c.reboots /\ u.observed = c.observed
    BY DEF LessKnown, CanClients
  <1>5. /\ s \in Trackers /\ s.beat = t.beat /\ s.sample = f.at /\ s.faulted = f.faulted
        /\ s.boot = f.boot
    <2>1. f.at \in Int /\ f.boot \in {0, 1, 2}
      BY <1>1
    <2>2. s \in Trackers
      BY <1>1, <2>1 DEF Trackers
    <2>3. /\ s.beat = t.beat /\ s.sample = f.at /\ s.faulted = f.faulted /\ s.boot = f.boot
      BY DEF Trackers
    <2> QED BY <2>2, <2>3
  <1> QED BY <1>2, <1>3, <1>4, <1>5 DEF FaultTaken, LessKnown

LEMMA FrameIs ==
    ASSUME NEW c \in CanClients, NEW t \in Trackers, NEW f \in Frames, c.reboots = c.observed,
           f.at >= t.sample, NEW k, k = Processed(c, t, f)
    PROVE  /\ k[1] \in CanClients /\ k[2] \in Trackers
           /\ \/ Passed(k[1], k[2], c, t, f) \/ BeatTaken(k[1], k[2], c, t, f)
              \/ FaultTaken(k[1], k[2], c, t, f) \/ FaultDropped(k[1], k[2], c, t, f)
  <1> DEFINE said == IF f.kind = "fault" THEN [boot |-> f.boot, faulted |-> f.faulted] ELSE c.said
             v == UpdateHeartbeatTimeout(c, f.at)
             u == [v EXCEPT !.said = said]
             taken == [u EXCEPT !.faultValid = TRUE, !.faultSeq = f.seq, !.seen = TRUE,
                                !.heard = f.boot]
             told == [t EXCEPT !.sample = f.at, !.faulted = f.faulted, !.boot = f.boot]
             beat == [t EXCEPT !.beat = IF f.at >= @ THEN f.at ELSE @]
  <1>1. k = CASE f.kind = "beat" /\ ~BeatOld(u, f) ->
                   <<ObserveReboot(Reported(ProcessHeartbeat(u, f))), beat>>
              [] f.kind = "fault" /\ ~FaultOld(u, f) ->
                   <<Reported(taken), IF f.at >= t.sample THEN told ELSE t>>
              [] f.kind = "motion" -> <<Reported(u), t>>
              [] OTHER -> <<u, t>>
    BY DEF Processed, Decodes
  <1>2. f.at \in Nat /\ f.boot \in {1, 2} /\ f.faulted \in BOOLEAN
    BY DEF Frames
  <1>3. v \in CanClients /\ LessKnown(v, c) /\ v.seen = c.seen
    BY <1>2, TimeoutKnows
  <1>4. said \in [boot : {1, 2}, faulted : BOOLEAN]
    BY <1>2 DEF CanClients
  <1>5. f.kind # "fault" => said = c.said
    OBVIOUS
  <1>6. f.kind = "fault" => said = [boot |-> f.boot, faulted |-> f.faulted]
    OBVIOUS
  <1> HIDE DEF said, v
  <1>7. /\ u \in CanClients /\ u.said = said /\ LessKnown(u, [c EXCEPT !.said = said])
        /\ u.seen = c.seen /\ u.missed = c.missed /\ u.heard = c.heard /\ u.boot = c.boot
        /\ u.reboots = c.reboots /\ u.observed = c.observed
        /\ u.faultValid => c.faultValid /\ u.faultSeq = c.faultSeq
    BY <1>3, <1>4 DEF CanClients, LessKnown
  <1>8. f.kind # "fault" => LessKnown(u, c)
    BY <1>5, <1>7 DEF LessKnown
  <1> HIDE DEF u, taken, told, beat
  <1>9. CASE f.kind = "beat" /\ ~BeatOld(u, f)
    <2> DEFINE d == ObserveReboot(Reported(ProcessHeartbeat(u, f)))
    <2>1. k = <<d, beat>>
      BY <1>1, <1>9
    <2>2. d \in CanClients /\ beat \in Trackers /\ BeatTaken(d, beat, u, t, f)
      BY <1>7, <1>9, BeatIsTaken DEF beat
    <2> HIDE DEF d
    <2>3. BeatTaken(d, beat, c, t, f)
      BY <1>8, <1>9, <2>2 DEF BeatTaken, LessKnown
    <2> QED BY <2>1, <2>2, <2>3
  <1>10. CASE f.kind = "fault" /\ ~FaultOld(u, f)
    <2> DEFINE d == Reported(taken)
    <2>1. k = <<d, told>>
      BY <1>1, <1>10
    <2>2. LessKnown(u, [c EXCEPT !.said = u.said])
      BY <1>7
    <2>3. d \in CanClients /\ told \in Trackers /\ FaultTaken(d, told, c, t, f)
      BY <1>6, <1>7, <1>10, <2>2, FaultIsTaken DEF taken, told
    <2> HIDE DEF d
    <2> QED BY <2>1, <2>3
  <1>11. CASE f.kind = "fault" /\ FaultOld(u, f)
    <2>1. k = <<u, t>>
      BY <1>1, <1>11
    <2>2. FaultDropped(u, t, c, t, f)
      BY <1>6, <1>7, <1>11 DEF FaultDropped, FaultOld
    <2> QED BY <1>7, <2>1, <2>2
  <1>12. CASE f.kind # "fault" /\ ~(f.kind = "beat" /\ ~BeatOld(u, f))
    <2> DEFINE d == IF f.kind = "motion" THEN Reported(u) ELSE u
    <2>1. k = <<d, t>>
      BY <1>1, <1>12
    <2>2. d \in CanClients /\ LessKnown(d, u)
      BY <1>7, ReportedKnows DEF LessKnown
    <2> HIDE DEF d
    <2>3. LessKnown(d, c)
      BY <1>8, <1>12, <2>2 DEF LessKnown
    <2> QED BY <1>12, <2>1, <2>2, <2>3 DEF Passed
  <1> QED BY <1>9, <1>10, <1>11, <1>12

(* Positions move on.                                                      *)
LEMMA ExpectsNext ==
    ASSUME NEW m, NEW q, NEW i \in Nat, NEW x, i < Len(q), Len(q) \in Nat, Expects(m, q, i, x),
           ~FaultOfFirstBoot(q[i + 1])
    PROVE  Expects(m, q, i + 1, x)
  <1> DEFINE n == i + 1
  <1>1. n \in Nat /\ n \in i + 1 .. Len(q)
    OBVIOUS
  <1>2. ASSUME NEW j \in n + 1 .. Len(q), FaultOfFirstBoot(q[j]),
               \A h \in n + 1 .. j - 1 : ~FaultOfFirstBoot(q[h])
        PROVE  q[j].seq = x
    <2>1. j \in i + 1 .. Len(q)
      BY <1>1
    <2>2. ASSUME NEW h \in i + 1 .. j - 1 PROVE ~FaultOfFirstBoot(q[h])
      <3>1. h = n \/ h \in n + 1 .. j - 1
        OBVIOUS
      <3> QED BY <1>2, <3>1
    <2> QED BY <1>2, <2>1, <2>2 DEF Expects
  <1>3. ASSUME m.boot = 1, \A h \in n + 1 .. Len(q) : ~FaultOfFirstBoot(q[h])
        PROVE  m.faultSeq = x
    <2>1. ASSUME NEW h \in i + 1 .. Len(q) PROVE ~FaultOfFirstBoot(q[h])
      <3>1. h = n \/ h \in n + 1 .. Len(q)
        OBVIOUS
      <3> QED BY <1>3, <3>1
    <2> QED BY <1>3, <2>1 DEF Expects
  <1> QED BY <1>2, <1>3 DEF Expects

LEMMA StillHeard ==
    ASSUME NEW c \in CanClients, NEW t \in Trackers, NEW f \in Frames, NEW now \in Nat,
           NEW d \in CanClients, NEW s \in Trackers, Heard(c, t, now), KnowsBoot(c, t, f.boot),
           f.at <= now, f.boot = 2 => f.faulted,
           \/ Passed(d, s, c, t, f) \/ BeatTaken(d, s, c, t, f)
           \/ FaultTaken(d, s, c, t, f) \/ FaultDropped(d, s, c, t, f)
    PROVE  Heard(d, s, now) /\ KnowsBoot(d, s, f.boot)
  <1>1. /\ c.boot \in {0, 1, 2} /\ c.heard \in {1, 2} /\ c.said.boot \in {1, 2}
        /\ t.boot \in {0, 1, 2} /\ f.boot \in {1, 2} /\ f.at \in Nat /\ t.sample \in Int
    BY DEF CanClients, Trackers, Frames
  <1>2. CASE Passed(d, s, c, t, f)
    BY <1>1, <1>2 DEF Passed, LessKnown, Heard, KnowsBoot
  <1>3. CASE BeatTaken(d, s, c, t, f)
    <2>1. /\ c.boot \in {0, 1, 2} /\ c.heard <= f.boot /\ c.boot <= f.boot /\ t.boot <= f.boot
          /\ t.sample # Never => t.boot # 0
          /\ t.boot = 2 => t.faulted
          /\ t.sample <= now
          /\ c.heard = 2 /\ c.boot # 2 => t.boot = 2
          /\ c.boot = 2 /\ t.boot # 2 => ~c.seen \/ c.missed
      BY <1>1 DEF Heard, KnowsBoot
    <2>2. /\ d.reboots = d.observed /\ d.boot = f.boot /\ d.heard = f.boot
          /\ d.seen => c.seen /\ d.missed = (c.missed \/ f.boot # c.heard)
          /\ s.beat # Never /\ s.sample = t.sample /\ s.faulted = t.faulted /\ s.boot = t.boot
      BY <1>3 DEF BeatTaken
    <2>3. d.boot = 2 /\ s.boot # 2 => ~d.seen \/ d.missed
      <3>1. SUFFICES ASSUME d.boot = 2, s.boot # 2, d.seen PROVE d.missed
        BY <2>2
      <3>2. c.seen /\ d.missed = (c.missed \/ f.boot # c.heard) /\ f.boot = 2 /\ t.boot # 2
        BY <2>2, <3>1
      <3>3. CASE c.boot = 2
        <4>1. c.missed
          BY <2>1, <3>2, <3>3
        <4> QED BY <3>2, <4>1
      <3>4. CASE c.boot # 2
        <4>1. c.heard # 2
          BY <2>1, <3>2, <3>4
        <4> QED BY <3>2, <4>1
      <3> QED BY <3>3, <3>4
    <2>4. Heard(d, s, now)
      BY <1>1, <2>1, <2>2, <2>3 DEF Heard
    <2> QED BY <1>1, <1>3, <2>4 DEF BeatTaken, KnowsBoot
  <1>4. CASE FaultTaken(d, s, c, t, f)
    <2>1. Heard(d, s, now)
      BY <1>1, <1>4 DEF FaultTaken, Heard, KnowsBoot
    <2> QED BY <1>1, <1>4, <2>1 DEF FaultTaken, KnowsBoot
  <1>5. CASE FaultDropped(d, s, c, t, f)
    BY <1>1, <1>5 DEF FaultDropped, Heard, KnowsBoot
  <1> QED BY <1>2, <1>3, <1>4, <1>5

(* A fault that would be dropped does not follow a report that is fresh.   *)
LEMMA NoneDropped ==
    ASSUME NEW c \in CanClients, NEW t, NEW f, NEW d, NEW s, FaultDropped(d, s, c, t, f)
    PROVE  f.seq # SeqAfter(c.faultSeq)
  <1>1. c.faultSeq \in 0 .. SeqSpace - 1
    BY DEF CanClients
  <1>2. /\ Ahead(SeqAfter(c.faultSeq), c.faultSeq) = 1 /\ 1 < SeqSpace \div 2
    BY <1>1, NextIsAhead
  <1>3. SeqSpace \div 2 \in Int
    BY ChassisAssumption
  <1> QED BY <1>2, <1>3 DEF FaultDropped

LEMMA StillLatest ==
    ASSUME NEW m \in Controllers, NEW q \in Seq(Frames), NEW i \in Nat, i < Len(q),
           NEW c \in CanClients, NEW t \in Trackers, NEW now \in Nat,
           NEW d \in CanClients, NEW s \in Trackers, NEW f \in Frames, f = q[i + 1],
           BusOK(m, q, now), KnowsBoot(c, t, f.boot), IsLatest(c, t, m, q, i, now),
           \/ Passed(d, s, c, t, f) \/ BeatTaken(d, s, c, t, f)
           \/ FaultTaken(d, s, c, t, f) \/ FaultDropped(d, s, c, t, f)
    PROVE  IsLatest(d, s, m, q, i + 1, now)
  <1> SUFFICES ASSUME FaultFresh(s, now), d.said.boot = 1
               PROVE  /\ s.boot = 1 /\ d.said.faulted = s.faulted
                      /\ d.faultValid => Expects(m, q, i + 1, SeqAfter(d.faultSeq))
    BY DEF IsLatest
  <1>1. Len(q) \in Nat /\ c.said.boot \in {1, 2} /\ f.boot \in {1, 2}
    <2>1. Len(q) \in Nat
      OBVIOUS
    <2>2. c.said.boot \in {1, 2} /\ f.boot \in {1, 2}
      BY DEF CanClients, Frames
    <2> QED BY <2>1, <2>2
  <1>2. ASSUME d.said = c.said, ~FaultOfFirstBoot(f), FaultFresh(t, now),
               s.boot = t.boot, s.faulted = t.faulted,
               d.faultValid => c.faultValid /\ d.faultSeq = c.faultSeq
        PROVE  /\ s.boot = 1 /\ d.said.faulted = s.faulted
               /\ d.faultValid => Expects(m, q, i + 1, SeqAfter(d.faultSeq))
    <2>1. /\ t.boot = 1 /\ c.said.faulted = t.faulted
          /\ c.faultValid => Expects(m, q, i, SeqAfter(c.faultSeq))
      BY <1>2 DEF IsLatest
    <2>2. d.faultValid => Expects(m, q, i + 1, SeqAfter(d.faultSeq))
      BY <1>1, <1>2, <2>1, ExpectsNext
    <2> QED BY <1>2, <2>1, <2>2
  <1>3. CASE Passed(d, s, c, t, f)
    <2>1. ~FaultOfFirstBoot(f)
      BY <1>3 DEF Passed, FaultOfFirstBoot
    <2> QED BY <1>2, <1>3, <2>1 DEF Passed, LessKnown
  <1>4. CASE BeatTaken(d, s, c, t, f)
    <2>1. ~FaultOfFirstBoot(f)
      BY <1>4 DEF BeatTaken, FaultOfFirstBoot
    <2>2. FaultFresh(t, now)
      BY <1>4 DEF BeatTaken, FaultFresh
    <2> QED BY <1>2, <1>4, <2>1, <2>2 DEF BeatTaken
  <1>5. CASE FaultTaken(d, s, c, t, f)
    <2>1. /\ d.said.boot = f.boot /\ d.said.faulted = f.faulted /\ s.boot = f.boot
          /\ s.faulted = f.faulted /\ d.faultSeq = f.seq
      BY <1>5 DEF FaultTaken
    <2>2. i + 1 \in 1 .. Len(q) /\ FaultOfFirstBoot(q[i + 1])
      BY <1>1, <1>5, <2>1 DEF FaultTaken, FaultOfFirstBoot
    <2>3. Expects(m, q, i + 1, SeqAfter(f.seq))
      BY <2>2 DEF BusOK
    <2> QED BY <2>1, <2>3
  <1>6. CASE FaultDropped(d, s, c, t, f)
    <2>1. f.boot = 1 /\ f.kind = "fault" /\ c.faultValid /\ s = t
      BY <1>6 DEF FaultDropped
    <2>2. c.said.boot = 1
      BY <1>1, <2>1 DEF KnowsBoot
    <2>3. Expects(m, q, i, SeqAfter(c.faultSeq))
      BY <2>1, <2>2 DEF IsLatest
    <2>4. i + 1 \in i + 1 .. Len(q) /\ (\A h \in i + 1 .. (i + 1) - 1 : FALSE)
      BY <1>1
    <2>5. q[i + 1].seq = SeqAfter(c.faultSeq)
      BY <2>1, <2>3, <2>4 DEF Expects, FaultOfFirstBoot
    <2> QED BY <1>6, <2>5, NoneDropped
  <1> QED BY <1>3, <1>4, <1>5, <1>6

LEMMA StillAwaits ==
    ASSUME NEW f \in Frames, NEW g \in Frames, NEW c \in CanClients, NEW t \in Trackers,
           NEW now \in Nat, NEW d, NEW s, ComesAfter(g, c, t, now), f.at <= g.at,
           f.boot <= g.boot, KnowsBoot(d, s, f.boot),
           f.kind = "fault" => now - f.at < Window,
           d \in CanClients, s \in Trackers,
           \/ Passed(d, s, c, t, f) \/ BeatTaken(d, s, c, t, f)
           \/ FaultTaken(d, s, c, t, f) \/ FaultDropped(d, s, c, t, f)
    PROVE  ComesAfter(g, d, s, now)
  <1>1. /\ d.boot \in {0, 1, 2} /\ d.heard \in {1, 2} /\ d.said.boot \in {1, 2}
        /\ s.boot \in {0, 1, 2} /\ f.boot \in {1, 2} /\ g.boot \in {1, 2}
    BY DEF CanClients, Trackers, Frames
  <1>2. KnowsBoot(d, s, g.boot)
    BY <1>1 DEF KnowsBoot
  <1>3. s.sample = t.sample \/ (s.sample = f.at /\ now - f.at < Window)
    BY DEF Passed, BeatTaken, FaultTaken, FaultDropped
  <1> QED BY <1>2, <1>3 DEF ComesAfter

(* What the loop knows when it has read the first i frames.                *)
KnownAfter(i, k) ==
    /\ k[1] \in CanClients /\ k[2] \in Trackers /\ Heard(k[1], k[2], ctl.now)
    /\ Awaits(k[1], k[2], mcu, rx, i, ctl.now)

LEMMA FrameRead ==
    ASSUME ChassisTypes, BusOK(mcu, rx, ctl.now), NEW i \in Nat, i < Len(rx),
           NEW k, KnownAfter(i, k)
    PROVE  KnownAfter(i + 1, AfterFrame(rx[i + 1], k))
  <1> DEFINE f == rx[i + 1]
             c == k[1]
             t == k[2]
             now == ctl.now
  <1>1. Len(rx) \in Nat /\ i + 1 \in 1 .. Len(rx) /\ i + 1 \in Nat
    BY DEF ChassisTypes
  <1>2. f \in Frames /\ now \in Nat /\ mcu \in Controllers /\ rx \in Seq(Frames)
    BY <1>1, ElementOfSeq DEF ChassisTypes, Clocks
  <1>3. c \in CanClients /\ t \in Trackers /\ Heard(c, t, now)
    BY DEF KnownAfter
  <1>4. /\ KnowsBoot(c, t, mcu.boot) /\ IsLatest(c, t, mcu, rx, i, now)
        /\ \A j \in i + 1 .. Len(rx) : ComesAfter(rx[j], c, t, now)
    BY DEF KnownAfter, Awaits
  <1>5. ComesAfter(f, c, t, now)
    <2>1. i + 1 \in i + 1 .. Len(rx)
      BY <1>1
    <2> QED BY <1>4, <2>1
  <1>6. /\ f.at <= now /\ f.boot <= mcu.boot /\ (f.boot = 2 => f.faulted)
    BY <1>1 DEF BusOK
  <1>7. ASSUME NEW j \in i + 2 .. Len(rx)
        PROVE  /\ rx[j] \in Frames /\ f.at <= rx[j].at /\ f.boot <= rx[j].boot
               /\ ComesAfter(rx[j], c, t, now)
    <2>1. j \in 1 .. Len(rx) /\ j \in i + 1 .. Len(rx) /\ i + 1 <= j
      BY <1>1
    <2>2. rx[j] \in Frames
      BY <1>2, <2>1, ElementOfSeq
    <2>3. f.at <= rx[j].at /\ f.boot <= rx[j].boot
      BY <1>1, <2>1 DEF BusOK
    <2> QED BY <1>4, <2>1, <2>2, <2>3
  <1>8. (i + 1) + 1 = i + 2
    BY <1>1
  <1> HIDE DEF f, c, t, now
  <1>9. CASE StaleFrame(f)
    <2>1. AfterFrame(rx[i + 1], k) = k
      BY <1>9 DEF AfterFrame, f
    <2>2. now - f.at >= Window
      BY <1>9 DEF StaleFrame, now
    <2>3. ~FaultFresh(t, now)
      <3>1. t.sample \in Int /\ f.at \in Nat /\ Window \in Nat
        BY <1>2, <1>3, ChassisAssumption DEF Trackers, Frames
      <3> QED BY <1>2, <1>5, <2>2, <3>1 DEF ComesAfter, FaultFresh
    <2>4. IsLatest(c, t, mcu, rx, i + 1, now)
      BY <2>3 DEF IsLatest
    <2>5. Awaits(c, t, mcu, rx, i + 1, now)
      BY <1>4, <1>7, <1>8, <2>4 DEF Awaits
    <2> QED BY <1>3, <2>1, <2>5 DEF KnownAfter, c, t, now
  <1>10. CASE ~StaleFrame(f)
    <2> DEFINE r == Processed(c, t, f)
               d == r[1]
               s == r[2]
    <2>1. AfterFrame(rx[i + 1], k) = r
      BY <1>10 DEF AfterFrame, f, c, t
    <2>2. c.reboots = c.observed /\ f.at >= t.sample /\ KnowsBoot(c, t, f.boot)
      BY <1>3, <1>5 DEF Heard, ComesAfter
    <2>3. /\ d \in CanClients /\ s \in Trackers
          /\ \/ Passed(d, s, c, t, f) \/ BeatTaken(d, s, c, t, f)
             \/ FaultTaken(d, s, c, t, f) \/ FaultDropped(d, s, c, t, f)
      BY <1>2, <1>3, <2>2, FrameIs
    <2> HIDE DEF r
    <2>4. Heard(d, s, now) /\ KnowsBoot(d, s, f.boot)
      BY <1>2, <1>3, <1>6, <2>2, <2>3, StillHeard
    <2>5. IsLatest(d, s, mcu, rx, i + 1, now)
      <3>1. BusOK(mcu, rx, now) /\ f = rx[i + 1]
        BY DEF now, f
      <3> QED BY <1>2, <1>3, <1>4, <2>2, <2>3, <3>1, StillLatest
    <2>6. f.kind = "fault" => now - f.at < Window
      <3>1. f.at \in Nat /\ Window \in Nat
        BY <1>2, ChassisAssumption DEF Frames
      <3> QED BY <1>2, <1>10, <3>1 DEF StaleFrame, now
    <2>7. ASSUME NEW j \in i + 2 .. Len(rx) PROVE ComesAfter(rx[j], d, s, now)
      BY <1>2, <1>3, <1>7, <2>3, <2>4, <2>6, StillAwaits
    <2>8. KnowsBoot(d, s, mcu.boot)
      <3>1. /\ d.boot \in {0, 1, 2} /\ d.heard \in {1, 2} /\ d.said.boot \in {1, 2}
            /\ s.boot \in {0, 1, 2} /\ f.boot \in {1, 2} /\ mcu.boot \in {1, 2}
        BY <1>2, <2>3 DEF CanClients, Trackers, Frames, Controllers
      <3> QED BY <1>6, <2>4, <3>1 DEF KnowsBoot
    <2>9. Awaits(d, s, mcu, rx, i + 1, now)
      BY <1>8, <2>5, <2>7, <2>8 DEF Awaits
    <2> QED BY <2>1, <2>3, <2>4, <2>9 DEF KnownAfter, now
  <1> QED BY <1>9, <1>10

(* Known is the loop's recursion: a function on the first n + 1 numbers    *)
(* that follows it exists for each n, as a least n without one does not.   *)
LEMMA KnownIs ==
    ASSUME Len(rx) \in Nat
    PROVE  /\ Known[0] = <<cli, trk>>
           /\ \A i \in 0 .. Len(rx) - 1 : Known[i + 1] = AfterFrame(rx[i + 1], Known[i])
  <1> DEFINE Follow(g, n) ==
               g = [i \in 0 .. n |-> IF i = 0 THEN <<cli, trk>> ELSE AfterFrame(rx[i], g[i - 1])]
             Missing == {n \in 0 .. Len(rx) : ~\E g : Follow(g, n)}
  <1>1. Missing = {}
    <2> SUFFICES ASSUME Missing # {} PROVE FALSE
      OBVIOUS
    <2>1. Missing \subseteq Nat
      OBVIOUS
    <2>2. PICK n \in Missing : \A y \in Missing : n <= y
      BY <2>1, Least
    <2>3. n \in 0 .. Len(rx) /\ ~\E g : Follow(g, n)
      OBVIOUS
    <2>4. CASE n = 0
      <3>1. Follow([i \in 0 .. 0 |-> <<cli, trk>>], 0)
        <4>1. \A i \in 0 .. 0 : i = 0
          OBVIOUS
        <4> QED BY <4>1
      <3> QED BY <2>3, <2>4, <3>1
    <2>5. CASE n # 0
      <3>1. n - 1 \in 0 .. Len(rx) /\ ~(n <= n - 1) /\ n \in Nat
        BY <2>3, <2>5
      <3>2. PICK g : Follow(g, n - 1)
        BY <2>2, <3>1
      <3> DEFINE h == [i \in 0 .. n |-> IF i = n THEN AfterFrame(rx[n], g[n - 1]) ELSE g[i]]
      <3>3. ASSUME NEW i \in 0 .. n
            PROVE  h[i] = IF i = 0 THEN <<cli, trk>> ELSE AfterFrame(rx[i], h[i - 1])
        <4>1. CASE i = n
          <5>1. h[i] = AfterFrame(rx[n], g[n - 1]) /\ n - 1 \in 0 .. n /\ n - 1 # n
            BY <3>1, <4>1
          <5>2. h[n - 1] = g[n - 1]
            BY <5>1
          <5> HIDE DEF h
          <5> QED BY <2>5, <4>1, <5>1, <5>2
        <4>2. CASE i # n
          <5>1. i \in 0 .. n - 1 /\ h[i] = g[i]
            BY <3>1, <4>2
          <5>2. g[i] = IF i = 0 THEN <<cli, trk>> ELSE AfterFrame(rx[i], g[i - 1])
            BY <3>2, <5>1
          <5>3. i # 0 => i - 1 \in 0 .. n /\ i - 1 # n
            BY <3>1, <5>1
          <5>4. i # 0 => h[i - 1] = g[i - 1]
            BY <5>3
          <5> HIDE DEF h
          <5> QED BY <5>1, <5>2, <5>4
        <4> QED BY <4>1, <4>2
      <3>4. Follow(h, n)
        <4>1. h = [i \in 0 .. n |-> h[i]]
          OBVIOUS
        <4> HIDE DEF h
        <4> QED BY <3>3, <4>1
      <3> QED BY <2>3, <3>4
    <2> QED BY <2>4, <2>5
  <1>2. \E g : Follow(g, Len(rx))
    <2>1. Len(rx) \in 0 .. Len(rx)
      OBVIOUS
    <2> QED BY <1>1, <2>1
  <1>3. Follow(Known, Len(rx))
    BY <1>2 DEF Known
  <1>4. 0 \in 0 .. Len(rx)
    OBVIOUS
  <1>5. Known[0] = <<cli, trk>>
    BY <1>3, <1>4
  <1>6. ASSUME NEW i \in 0 .. Len(rx) - 1 PROVE Known[i + 1] = AfterFrame(rx[i + 1], Known[i])
    <2>1. i + 1 \in 0 .. Len(rx) /\ i + 1 # 0 /\ (i + 1) - 1 = i
      OBVIOUS
    <2> QED BY <1>3, <2>1
  <1> QED BY <1>5, <1>6

(* The loop has read everything that was in the socket.                    *)
LEMMA AllRead ==
    ASSUME ChassisTypes, CanOK(cli, trk, mcu, rx, ctl.now)
    PROVE  KnownAfter(Len(rx), Known[Len(rx)])
  <1>1. Len(rx) \in Nat
    BY DEF ChassisTypes
  <1>2. BusOK(mcu, rx, ctl.now)
    BY DEF CanOK
  <1> DEFINE Missing == {n \in 0 .. Len(rx) : ~KnownAfter(n, Known[n])}
  <1>3. Missing = {}
    <2> SUFFICES ASSUME Missing # {} PROVE FALSE
      OBVIOUS
    <2>1. Missing \subseteq Nat
      OBVIOUS
    <2>2. PICK n \in Missing : \A y \in Missing : n <= y
      BY <2>1, Least
    <2>3. n \in 0 .. Len(rx) /\ ~KnownAfter(n, Known[n])
      OBVIOUS
    <2>4. CASE n = 0
      <3>1. Known[0] = <<cli, trk>>
        BY <1>1, KnownIs
      <3>2. KnownAfter(0, <<cli, trk>>)
        BY DEF KnownAfter, CanOK, ChassisTypes
      <3> QED BY <2>3, <2>4, <3>1, <3>2
    <2>5. CASE n # 0
      <3> DEFINE i == n - 1
      <3>1. i \in Nat /\ i \in 0 .. Len(rx) - 1 /\ i < Len(rx) /\ i + 1 = n /\ ~(n <= i)
            /\ i \in 0 .. Len(rx)
        BY <1>1, <2>3, <2>5
      <3> HIDE DEF i
      <3>2. KnownAfter(i, Known[i])
        BY <2>2, <3>1
      <3>3. KnownAfter(i + 1, AfterFrame(rx[i + 1], Known[i]))
        BY <1>2, <3>1, <3>2, FrameRead
      <3>4. Known[i + 1] = AfterFrame(rx[i + 1], Known[i])
        BY <1>1, <3>1, KnownIs
      <3>5. KnownAfter(n, Known[n])
        BY <3>1, <3>3, <3>4
      <3> QED BY <2>3, <3>5
    <2> QED BY <2>4, <2>5
  <1>4. Len(rx) \in 0 .. Len(rx)
    BY <1>1
  <1> QED BY <1>3, <1>4

LEMMA LessIsHeard ==
    ASSUME NEW c \in CanClients, NEW t \in Trackers, NEW u \in CanClients, NEW now, NEW m, NEW q,
           NEW i, LessKnown(u, c), Heard(c, t, now), Awaits(c, t, m, q, i, now)
    PROVE  Heard(u, t, now) /\ Awaits(u, t, m, q, i, now)
  <1>1. Heard(u, t, now)
    BY DEF LessKnown, Heard
  <1>2. \A b : KnowsBoot(c, t, b) => KnowsBoot(u, t, b)
    BY DEF LessKnown, KnowsBoot
  <1>3. KnowsBoot(u, t, m.boot) /\ \A j \in i + 1 .. Len(q) : ComesAfter(q[j], u, t, now)
    BY <1>2 DEF Awaits, ComesAfter
  <1>4. IsLatest(u, t, m, q, i, now)
    BY DEF Awaits, IsLatest, LessKnown
  <1> QED BY <1>1, <1>3, <1>4 DEF Awaits

(* With the socket empty.                                                  *)
LEMMA NothingAwaited ==
    ASSUME NEW c \in CanClients, NEW t \in Trackers, NEW m, NEW q, NEW now, Len(q) \in Nat,
           BusOK(m, q, now), Heard(c, t, now), Awaits(c, t, m, q, Len(q), now)
    PROVE  CanOK(c, t, m, << >>, now)
  <1>1. \A i, n \in Nat : n <= i => i + 1 .. n = {}
    OBVIOUS
  <1>2. Len(<< >>) = 0 /\ 0 + 1 .. 0 = {} /\ 1 .. 0 = {} /\ Len(q) + 1 .. Len(q) = {}
    OBVIOUS
  <1>3. ASSUME NEW x, Expects(m, q, Len(q), x) PROVE Expects(m, << >>, 0, x)
    BY <1>2, <1>3 DEF Expects
  <1>4. IsLatest(c, t, m, << >>, 0, now)
    BY <1>3 DEF Awaits, IsLatest
  <1>5. Awaits(c, t, m, << >>, 0, now)
    BY <1>2, <1>4 DEF Awaits
  <1>6. BusOK(m, << >>, now)
    BY <1>2 DEF BusOK
  <1> QED BY <1>2, <1>5, <1>6 DEF CanOK

(* What a command that moves the chassis rests on, over CAN.               *)
LEMMA ReportIsTrusted ==
    ASSUME NEW c \in CanClients, NEW t \in Trackers, NEW now, Heard(c, t, now),
           FaultFresh(t, now) /\ c.said.boot = 1 => c.said.faulted = t.faulted,
           PeerAlive(t, now), ~TrackedFault(t, now), c.seen
    PROVE  /\ FaultFresh(t, now) /\ ~t.faulted
           /\ ~c.missed => t.boot = c.boot /\ (c.said.boot = c.boot => ~c.said.faulted)
  <1>2. FaultFresh(t, now) /\ ~t.faulted
    BY DEF TrackedFault
  <1>3. t.beat # Never /\ t.sample # Never
    BY <1>2 DEF PeerAlive, FaultFresh
  <1>4. t.boot = 1 /\ c.boot # 0
    BY <1>2, <1>3 DEF Heard, Trackers
  <1>5. ASSUME ~c.missed PROVE c.boot = 1
    BY <1>4, <1>5 DEF Heard, CanClients
  <1>6. c.said.boot = 1 => ~c.said.faulted
    BY <1>2
  <1> QED BY <1>2, <1>4, <1>5, <1>6

(* The bus grows by what the controller sends in a period: one fault at    *)
(* most, with the sequence that was next.                                  *)
Grown(m, n, q, r) ==
    /\ Len(q) <= Len(r) /\ n.boot = m.boot /\ \A i \in 1 .. Len(q) : r[i] = q[i]
    /\ \A p \in Len(q) + 1 .. Len(r) :
          FaultOfFirstBoot(r[p]) =>
             /\ m.boot = 1 /\ r[p].seq = m.faultSeq /\ n.faultSeq = SeqAfter(m.faultSeq)
             /\ \A h \in Len(q) + 1 .. Len(r) : h # p => ~FaultOfFirstBoot(r[h])
    /\ (\A p \in Len(q) + 1 .. Len(r) : ~FaultOfFirstBoot(r[p])) /\ m.boot = 1
          => n.faultSeq = m.faultSeq

LEMMA ExpectsGrown ==
    ASSUME NEW m, NEW n, NEW q, NEW r, Len(q) \in Nat, Len(r) \in Nat, Grown(m, n, q, r),
           NEW i \in 0 .. Len(q), NEW x, Expects(m, q, i, x)
    PROVE  Expects(n, r, i, x)
  <1>1. Len(q) <= Len(r) /\ n.boot = m.boot /\ \A h \in 1 .. Len(q) : r[h] = q[h]
    BY DEF Grown
  <1>2. ASSUME NEW e \in Nat, e >= Len(q), \A h \in i + 1 .. e : ~FaultOfFirstBoot(r[h]),
               m.boot = 1
        PROVE  m.faultSeq = x
    <2>1. ASSUME NEW h \in i + 1 .. Len(q) PROVE ~FaultOfFirstBoot(q[h])
      <3>1. h \in i + 1 .. e /\ h \in 1 .. Len(q)
        BY <1>2
      <3> QED BY <1>1, <1>2, <3>1
    <2> QED BY <1>2, <2>1 DEF Expects
  <1>3. ASSUME NEW j \in i + 1 .. Len(r), FaultOfFirstBoot(r[j]),
               \A h \in i + 1 .. j - 1 : ~FaultOfFirstBoot(r[h])
        PROVE  r[j].seq = x
    <2>1. CASE j <= Len(q)
      <3>1. j \in i + 1 .. Len(q) /\ r[j] = q[j]
        BY <1>1, <2>1
      <3>2. ASSUME NEW h \in i + 1 .. j - 1 PROVE ~FaultOfFirstBoot(q[h])
        <4>1. h \in 1 .. Len(q)
          BY <2>1
        <4> QED BY <1>1, <1>3, <4>1
      <3> QED BY <1>3, <3>1, <3>2 DEF Expects
    <2>2. CASE ~(j <= Len(q))
      <3>1. j \in Len(q) + 1 .. Len(r) /\ j - 1 \in Nat /\ j - 1 >= Len(q)
        BY <2>2
      <3>2. m.boot = 1 /\ r[j].seq = m.faultSeq
        BY <1>3, <3>1 DEF Grown
      <3> QED BY <1>2, <1>3, <3>1, <3>2
    <2> QED BY <2>1, <2>2
  <1>4. ASSUME n.boot = 1, \A h \in i + 1 .. Len(r) : ~FaultOfFirstBoot(r[h])
        PROVE  n.faultSeq = x
    <2>1. m.faultSeq = x
      BY <1>1, <1>2, <1>4
    <2>2. ASSUME NEW p \in Len(q) + 1 .. Len(r) PROVE ~FaultOfFirstBoot(r[p])
      <3>1. p \in i + 1 .. Len(r)
        OBVIOUS
      <3> QED BY <1>4, <3>1
    <2>3. n.faultSeq = m.faultSeq
      BY <1>1, <1>4, <2>2 DEF Grown
    <2> QED BY <2>1, <2>3
  <1> QED BY <1>3, <1>4 DEF Expects

LEMMA ExpectsSent ==
    ASSUME NEW m, NEW n, NEW q, NEW r, Len(q) \in Nat, Len(r) \in Nat, Grown(m, n, q, r),
           NEW p \in Len(q) + 1 .. Len(r), FaultOfFirstBoot(r[p])
    PROVE  Expects(n, r, p, SeqAfter(r[p].seq))
  <1>1. /\ r[p].seq = m.faultSeq /\ n.faultSeq = SeqAfter(m.faultSeq)
        /\ \A h \in Len(q) + 1 .. Len(r) : h # p => ~FaultOfFirstBoot(r[h])
    BY DEF Grown
  <1>2. ASSUME NEW j \in p + 1 .. Len(r) PROVE ~FaultOfFirstBoot(r[j])
    <2>1. j \in Len(q) + 1 .. Len(r) /\ j # p
      OBVIOUS
    <2> QED BY <1>1, <2>1
  <1> QED BY <1>1, <1>2 DEF Expects

Kinds == {"beat", "fault", "motion", "bad"}
LEMMA BatchIs ==
    ASSUME NEW batch \in Batches
    PROVE  /\ batch \in Seq(Kinds)
           /\ \A i, j \in 1 .. Len(batch) : batch[i] = "fault" /\ batch[j] = "fault" => i = j
  <1>1. \/ batch = << >> \/ batch = <<"beat">> \/ batch = <<"fault">> \/ batch = <<"beat", "fault">>
        \/ batch = <<"fault", "beat">> \/ batch = <<"motion">> \/ batch = <<"bad">>
    BY DEF Batches
  <1>2. CASE batch = << >>
    BY <1>2 DEF Kinds
  <1>3. ASSUME NEW k \in Kinds, batch = <<k>>
        PROVE  /\ batch \in Seq(Kinds)
               /\ \A i, j \in 1 .. Len(batch) : batch[i] = "fault" /\ batch[j] = "fault" => i = j
    BY <1>3
  <1>4. CASE batch = <<"beat", "fault">>
    BY <1>4 DEF Kinds
  <1>5. CASE batch = <<"fault", "beat">>
    BY <1>5 DEF Kinds
  <1>6. {"beat", "fault", "motion", "bad"} = Kinds
    BY DEF Kinds
  <1> QED BY <1>1, <1>2, <1>3, <1>4, <1>5, <1>6

LEMMA SendsIs ==
    ASSUME NEW batch \in Seq(Kinds), NEW kind
    PROVE  /\ Sends(batch, kind) \in {0, 1}
           /\ Sends(batch, kind) = 1 <=> \E i \in 1 .. Len(batch) : batch[i] = kind
  <1>1. Range(batch) = {batch[i] : i \in 1 .. Len(batch)}
    BY DEF Range
  <1> QED BY <1>1 DEF Sends

LEMMA BusGrows ==
    ASSUME NEW q \in Seq(Frames), NEW b \in Seq(Frames), NEW r, r = q \o b
    PROVE  /\ r \in Seq(Frames) /\ Len(r) = Len(q) + Len(b)
           /\ \A i \in 1 .. Len(q) + Len(b) : r[i] = IF i <= Len(q) THEN q[i] ELSE b[i - Len(q)]
  BY ConcatProperties

LEMMA TimeStep ==
    ASSUME ChassisTypes, MotionOK(ad, ctl), NEW batch \in Batches, TimePasses(batch)
    PROVE  /\ ChassisTypes' /\ MotionOK(ad', ctl')
           /\ CanOK(cli, trk, mcu, rx, ctl.now) => CanOK(cli', trk', mcu', rx', ctl'.now)
  <1> DEFINE now == ctl.now + 1
             b == [i \in 1 .. Len(batch) |-> Frame(batch[i])]
  <1>1. /\ ctl' = [ctl EXCEPT !.now = @ + 1] /\ rx' = rx \o [i \in DOMAIN batch |-> Frame(batch[i])]
        /\ mcu' = [mcu EXCEPT !.seq = (@ + Sends(batch, "beat")) % SeqSpace,
                              !.faultSeq = (@ + Sends(batch, "fault")) % SeqSpace]
        /\ UNCHANGED <<cli, trk, ad>>
    BY DEF TimePasses
  <1>2. /\ batch \in Seq(Kinds) /\ Len(batch) \in Nat /\ DOMAIN batch = 1 .. Len(batch)
        /\ \A i, j \in 1 .. Len(batch) : batch[i] = "fault" /\ batch[j] = "fault" => i = j
    BY BatchIs
  <1>3. /\ mcu \in Controllers /\ rx \in Seq(Frames) /\ ctl \in Clocks /\ ctl.now \in Nat
        /\ Len(rx) \in Nat
    BY DEF ChassisTypes, Clocks
  <1>4. now \in Nat /\ now = ctl.now + 1
    BY <1>3
  <1>5. /\ ctl' \in Clocks /\ ctl'.now = now /\ ctl'.off = ctl.off /\ ctl'.sent = ctl.sent
    BY <1>1, <1>3, <1>4 DEF Clocks
  <1>6. /\ mcu' \in Controllers /\ mcu'.boot = mcu.boot /\ mcu'.faulted = mcu.faulted
        /\ mcu'.faultSeq = (mcu.faultSeq + Sends(batch, "fault")) % SeqSpace
    <2>1. /\ mcu.seq \in Nat /\ mcu.faultSeq \in Nat /\ Sends(batch, "beat") \in Nat
          /\ Sends(batch, "fault") \in Nat /\ SeqSpace \in Nat \ {0}
      BY <1>2, <1>3, SendsIs, ChassisAssumption DEF Controllers
    <2> DEFINE x == (mcu.seq + Sends(batch, "beat")) % SeqSpace
               y == (mcu.faultSeq + Sends(batch, "fault")) % SeqSpace
    <2>2. x \in 0 .. SeqSpace - 1 /\ y \in 0 .. SeqSpace - 1
      BY <2>1
    <2>3. mcu' = [mcu EXCEPT !.seq = x, !.faultSeq = y]
      BY <1>1, <1>3 DEF Controllers
    <2> HIDE DEF x, y
    <2>4. mcu' \in Controllers
      BY <1>3, <2>2, <2>3 DEF Controllers
    <2>5. mcu'.boot = mcu.boot /\ mcu'.faulted = mcu.faulted /\ mcu'.faultSeq = y
      BY <1>3, <2>3 DEF Controllers
    <2> QED BY <2>4, <2>5 DEF y
  <1>7. ASSUME NEW i \in 1 .. Len(batch)
        PROVE  /\ Frame(batch[i]) \in Frames /\ Frame(batch[i]).at = now
               /\ Frame(batch[i]).boot = mcu.boot /\ Frame(batch[i]).faulted = mcu.faulted
               /\ Frame(batch[i]).kind = batch[i]
               /\ batch[i] = "fault" => Frame(batch[i]).seq = mcu.faultSeq
    <2>1. batch[i] \in Kinds
      BY <1>2
    <2>2. /\ mcu.boot \in {1, 2} /\ mcu.at \in Int /\ mcu.seq \in 0 .. SeqSpace - 1
          /\ mcu.faultSeq \in 0 .. SeqSpace - 1 /\ mcu.faulted \in BOOLEAN
      BY <1>3 DEF Controllers
    <2>3. (ctl.now + 1 - mcu.at) % UptimeSpace \in Int
      BY <1>3, <2>2, ChassisAssumption
    <2> DEFINE k == batch[i]
               up == (ctl.now + 1 - mcu.at) % UptimeSpace
               seq == IF k = "beat" THEN mcu.seq ELSE mcu.faultSeq
    <2>4. Frame(k) = [kind |-> k, at |-> now, boot |-> mcu.boot, up |-> up, seq |-> seq,
                      faulted |-> mcu.faulted]
      BY DEF Frame
    <2>5. seq \in 0 .. SeqSpace - 1 /\ (k = "fault" => seq = mcu.faultSeq)
      BY <2>2
    <2>6. k \in Kinds /\ up \in Int
      BY <2>1, <2>3
    <2> HIDE DEF k, up, seq, now
    <2>7. Frame(k) \in Frames
      BY <1>4, <2>2, <2>4, <2>5, <2>6 DEF Frames, Kinds
    <2>8. /\ Frame(k).at = now /\ Frame(k).boot = mcu.boot /\ Frame(k).faulted = mcu.faulted
          /\ Frame(k).kind = k /\ Frame(k).seq = seq
      BY <2>4
    <2> QED BY <2>5, <2>7, <2>8 DEF k
  <1>8. rx' = rx \o b
    BY <1>1, <1>2
  <1>9. b \in Seq(Frames) /\ Len(b) = Len(batch) /\ \A i \in 1 .. Len(batch) : b[i] = Frame(batch[i])
    BY <1>2, <1>7
  <1> HIDE DEF b, now
  <1>10. /\ rx' \in Seq(Frames) /\ Len(rx') = Len(rx) + Len(batch) /\ Len(rx') \in Nat
         /\ \A i \in 1 .. Len(rx) : rx'[i] = rx[i]
         /\ \A i \in Len(rx) + 1 .. Len(rx') :
               i - Len(rx) \in 1 .. Len(batch) /\ rx'[i] = Frame(batch[i - Len(rx)])
    <2>1. /\ rx' \in Seq(Frames) /\ Len(rx') = Len(rx) + Len(b)
          /\ \A i \in 1 .. Len(rx) + Len(b) :
                rx'[i] = IF i <= Len(rx) THEN rx[i] ELSE b[i - Len(rx)]
      <3>1. rx \in Seq(Frames) /\ b \in Seq(Frames)
        BY <1>3, <1>9
      <3> QED BY <1>8, <3>1, BusGrows, Zenon
    <2>2. Len(b) = Len(batch) /\ Len(rx') = Len(rx) + Len(batch) /\ Len(rx') \in Nat
      BY <1>2, <1>3, <1>9, <2>1
    <2>3. ASSUME NEW i \in 1 .. Len(rx) PROVE rx'[i] = rx[i]
      <3>1. i \in 1 .. Len(rx) + Len(b) /\ i <= Len(rx)
        BY <1>2, <1>3, <2>2
      <3> QED BY <2>1, <3>1
    <2>4. ASSUME NEW i \in Len(rx) + 1 .. Len(rx')
          PROVE  i - Len(rx) \in 1 .. Len(batch) /\ rx'[i] = Frame(batch[i - Len(rx)])
      <3>1. /\ i \in 1 .. Len(rx) + Len(b) /\ ~(i <= Len(rx))
            /\ i - Len(rx) \in 1 .. Len(batch)
        BY <1>2, <1>3, <2>2
      <3>2. rx'[i] = b[i - Len(rx)]
        BY <2>1, <3>1
      <3> QED BY <1>9, <3>1, <3>2
    <2> QED BY <2>1, <2>2, <2>3, <2>4
  <1>11. ChassisTypes'
    BY <1>1, <1>5, <1>6, <1>10 DEF ChassisTypes
  <1>12. MotionOK(ad', ctl')
    BY <1>1, <1>3, <1>4, <1>5 DEF MotionOK, Clocks
  <1>13. ASSUME CanOK(cli, trk, mcu, rx, ctl.now) PROVE CanOK(cli', trk', mcu', rx', ctl'.now)
    <2>1. /\ BusOK(mcu, rx, ctl.now) /\ Heard(cli, trk, ctl.now)
          /\ Awaits(cli, trk, mcu, rx, 0, ctl.now) /\ \A j \in 1 .. Len(rx) : rx[j].at > trk.sample
      BY <1>13 DEF CanOK
    <2>2. ASSUME NEW i \in Len(rx) + 1 .. Len(rx')
          PROVE  /\ rx'[i].at = now /\ rx'[i].boot = mcu.boot /\ rx'[i].faulted = mcu.faulted
                 /\ rx'[i].kind = batch[i - Len(rx)] /\ i - Len(rx) \in 1 .. Len(batch)
                 /\ rx'[i].kind = "fault" => rx'[i].seq = mcu.faultSeq
      BY <1>7, <1>10
    <2>3. Grown(mcu, mcu', rx, rx')
      <3>1. Len(rx) <= Len(rx')
        BY <1>2, <1>3, <1>10
      <3>2. ASSUME NEW p \in Len(rx) + 1 .. Len(rx'), FaultOfFirstBoot(rx'[p])
            PROVE  /\ mcu.boot = 1 /\ rx'[p].seq = mcu.faultSeq
                   /\ mcu'.faultSeq = SeqAfter(mcu.faultSeq)
                   /\ \A h \in Len(rx) + 1 .. Len(rx') : h # p => ~FaultOfFirstBoot(rx'[h])
        <4>1. /\ p - Len(rx) \in 1 .. Len(batch) /\ batch[p - Len(rx)] = "fault"
              /\ mcu.boot = 1 /\ rx'[p].seq = mcu.faultSeq
          BY <2>2, <3>2 DEF FaultOfFirstBoot
        <4>2. Sends(batch, "fault") = 1
          BY <1>2, <4>1, SendsIs
        <4>3. mcu'.faultSeq = SeqAfter(mcu.faultSeq)
          BY <1>6, <4>2 DEF SeqAfter
        <4>4. ASSUME NEW h \in Len(rx) + 1 .. Len(rx'), h # p PROVE ~FaultOfFirstBoot(rx'[h])
          <5>1. h - Len(rx) # p - Len(rx)
            BY <1>3, <1>10, <4>4
          <5> QED BY <1>2, <2>2, <4>1, <5>1 DEF FaultOfFirstBoot
        <4> QED BY <4>1, <4>3, <4>4
      <3>3. ASSUME \A p \in Len(rx) + 1 .. Len(rx') : ~FaultOfFirstBoot(rx'[p]), mcu.boot = 1
            PROVE  mcu'.faultSeq = mcu.faultSeq
        <4>1. ASSUME NEW i \in 1 .. Len(batch) PROVE batch[i] # "fault"
          <5> DEFINE p == Len(rx) + i
          <5>1. p \in Len(rx) + 1 .. Len(rx') /\ p - Len(rx) = i
            BY <1>2, <1>3, <1>10
          <5> HIDE DEF p
          <5> QED BY <2>2, <3>3, <5>1 DEF FaultOfFirstBoot
        <4>2. Sends(batch, "fault") = 0
          BY <1>2, <4>1, SendsIs
        <4>3. mcu.faultSeq \in Nat /\ mcu.faultSeq < SeqSpace /\ SeqSpace \in Nat
          BY <1>3, ChassisAssumption DEF Controllers
        <4>4. (mcu.faultSeq + 0) % SeqSpace = mcu.faultSeq
          BY <4>3
        <4> QED BY <1>6, <4>2, <4>4
      <3> QED BY <1>6, <1>10, <3>1, <3>2, <3>3 DEF Grown
    <2>4. BusOK(mcu', rx', now)
      <3>1. mcu'.boot = 2 => mcu'.faulted
        BY <1>6, <2>1 DEF BusOK
      <3>2. ASSUME NEW i \in 1 .. Len(rx')
            PROVE  /\ rx'[i].at <= now /\ rx'[i].boot <= mcu'.boot
                   /\ rx'[i].boot = 2 => rx'[i].faulted
        <4>1. CASE i \in 1 .. Len(rx)
          <5>1. /\ rx[i].at <= ctl.now /\ rx[i].boot <= mcu.boot
                /\ rx[i].boot = 2 => rx[i].faulted
            BY <2>1, <4>1 DEF BusOK
          <5>2. rx[i] \in Frames
            BY <1>3, <4>1, ElementOfSeq
          <5>3. rx[i].at \in Nat /\ ctl.now \in Nat /\ now = ctl.now + 1
            BY <1>3, <1>4, <5>2 DEF Frames
          <5>4. rx[i].at <= now
            BY <5>1, <5>3
          <5> QED BY <1>6, <1>10, <4>1, <5>1, <5>4
        <4>2. CASE i \notin 1 .. Len(rx)
          <5>1. i \in Len(rx) + 1 .. Len(rx')
            BY <1>3, <1>10, <4>2
          <5>2. rx'[i].at = now /\ rx'[i].boot = mcu.boot /\ rx'[i].faulted = mcu.faulted
            BY <2>2, <5>1
          <5>3. mcu.boot \in {1, 2}
            BY <1>3 DEF Controllers
          <5> QED BY <1>4, <1>6, <3>1, <5>2, <5>3
        <4> QED BY <4>1, <4>2
      <3>3. ASSUME NEW i \in 1 .. Len(rx'), NEW j \in 1 .. Len(rx'), i <= j
            PROVE  rx'[i].at <= rx'[j].at /\ rx'[i].boot <= rx'[j].boot
        <4>1. CASE j \in 1 .. Len(rx)
          <5>1. i \in 1 .. Len(rx)
            BY <1>3, <3>3, <4>1
          <5> QED BY <1>10, <2>1, <3>3, <4>1, <5>1 DEF BusOK
        <4>2. CASE j \notin 1 .. Len(rx)
          <5>1. j \in Len(rx) + 1 .. Len(rx')
            BY <1>3, <1>10, <4>2
          <5> QED BY <1>6, <2>2, <3>2, <5>1
        <4> QED BY <4>1, <4>2
      <3>4. ASSUME NEW i \in 1 .. Len(rx'), FaultOfFirstBoot(rx'[i])
            PROVE  Expects(mcu', rx', i, SeqAfter(rx'[i].seq))
        <4>1. CASE i \in 1 .. Len(rx)
          <5>1. rx'[i] = rx[i] /\ i \in 0 .. Len(rx)
            BY <1>3, <1>10, <4>1
          <5>2. Expects(mcu, rx, i, SeqAfter(rx[i].seq))
            BY <2>1, <3>4, <4>1, <5>1 DEF BusOK
          <5> QED BY <1>3, <1>10, <2>3, <5>1, <5>2, ExpectsGrown
        <4>2. CASE i \notin 1 .. Len(rx)
          <5>1. i \in Len(rx) + 1 .. Len(rx')
            BY <1>3, <1>10, <4>2
          <5> QED BY <1>3, <1>10, <2>3, <3>4, <5>1, ExpectsSent
        <4> QED BY <4>1, <4>2
      <3> QED BY <3>1, <3>2, <3>3, <3>4 DEF BusOK
    <2>5. trk \in Trackers /\ trk.sample \in Int /\ trk.sample <= ctl.now
      BY <2>1 DEF ChassisTypes, Trackers, Heard
    <2>6. Heard(cli, trk, now)
      <3>1. trk.sample <= now
        BY <1>3, <1>4, <2>5
      <3> QED BY <2>1, <3>1 DEF Heard
    <2>7. ASSUME NEW j \in 1 .. Len(rx')
          PROVE  rx'[j].at > trk.sample /\ ComesAfter(rx'[j], cli, trk, now)
      <3>1. CASE j \in 1 .. Len(rx)
        <4>1. ComesAfter(rx[j], cli, trk, ctl.now) /\ rx[j].at > trk.sample
          <5>1. j \in 0 + 1 .. Len(rx)
            BY <1>3, <3>1
          <5> QED BY <2>1, <3>1, <5>1 DEF Awaits
        <4> QED BY <1>10, <3>1, <4>1 DEF ComesAfter
      <3>2. CASE j \notin 1 .. Len(rx)
        <4>1. j \in Len(rx) + 1 .. Len(rx')
          BY <1>3, <1>10, <3>2
        <4>2. rx'[j].at = now /\ rx'[j].boot = mcu.boot
          BY <2>2, <4>1
        <4>3. now > trk.sample /\ now >= trk.sample
          BY <1>3, <1>4, <2>5
        <4>4. KnowsBoot(cli, trk, mcu.boot)
          BY <2>1 DEF Awaits
        <4> QED BY <4>2, <4>3, <4>4 DEF ComesAfter
      <3> QED BY <3>1, <3>2
    <2>8. IsLatest(cli, trk, mcu', rx', 0, now)
      <3>1. FaultFresh(trk, now) => FaultFresh(trk, ctl.now)
        BY <1>3, <1>4, <2>5, ChassisAssumption DEF FaultFresh
      <3>2. IsLatest(cli, trk, mcu, rx, 0, ctl.now)
        BY <2>1 DEF Awaits
      <3>3. \A x : Expects(mcu, rx, 0, x) => Expects(mcu', rx', 0, x)
        <4>1. 0 \in 0 .. Len(rx)
          BY <1>3
        <4> QED BY <1>3, <1>10, <2>3, <4>1, ExpectsGrown
      <3> QED BY <3>1, <3>2, <3>3 DEF IsLatest
    <2>9. KnowsBoot(cli, trk, mcu'.boot)
      BY <1>6, <2>1 DEF Awaits
    <2>10. Awaits(cli, trk, mcu', rx', 0, now)
      <3>1. 0 + 1 = 1
        OBVIOUS
      <3> QED BY <2>7, <2>8, <2>9, <3>1 DEF Awaits
    <2>11. CanOK(cli, trk, mcu', rx', now)
      BY <2>4, <2>6, <2>7, <2>10 DEF CanOK
    <2> QED BY <1>1, <1>5, <2>11
  <1> QED BY <1>11, <1>12, <1>13

(* The adapter evaluates, and its command is sent.                         *)
AfterCommand(k, command) ==
    [k EXCEPT !.sent = command, !.off = IF command.on THEN @ ELSE k.now]

LEMMA CommandSent ==
    ASSUME NEW a \in Adapters, NEW k \in Clocks, MotionOK(a, k), k.sent.at < k.now,
           NEW s, s.controls \in ControlWords,
           NEW a2, a2 = Evaluated(a, s, k.now),
           NEW k2, k2 = AfterCommand(k, Command(a, s, k.now))
    PROVE  /\ a2 \in Adapters /\ k2 \in Clocks /\ MotionOK(a2, k2)
           /\ k2.now = k.now /\ k2.controls = k.controls /\ k2.sent.controls = s.controls
           /\ k2.sent.on =>
                 /\ ~Interlocked(s) /\ k.now - a.since <= CommandLife /\ a.since >= k.off
                 /\ Distance(k2.sent.speed, a.speed) <= Ramp * (k.now - k.sent.at)
           /\ WithinLimit(k2.sent.speed) /\ a2.speed = k2.sent.speed
  <1> DEFINE now == k.now
             gap == k.now - k.sent.at
             on == ~Stopped(a, s, now)
             cmd == [on |-> on, speed |-> a2.speed, at |-> now, controls |-> s.controls]
             off == IF on THEN k.off ELSE now
  <1>1. /\ now \in Nat /\ k.sent.at \in Nat /\ k.off \in Nat /\ gap \in Nat \ {0}
        /\ a.out \in Nat /\ a.since \in Nat
    BY DEF Clocks, Adapters
  <1>2. a.out = 0 \/ now - a.out <= gap
    BY <1>1 DEF MotionOK
  <1>3. WithinLimit(a.speed)
    BY DEF MotionOK
  <1>4. /\ a2 \in Adapters /\ a2.out = now /\ WithinLimit(a2.speed)
        /\ a2.request # NoRequest => a2.since = a.since
        /\ Stopped(a, s, now) => a2.request = NoRequest
        /\ ~Stopped(a, s, now) =>
              a2.request = a.request /\ Distance(a2.speed, a.speed) <= Ramp * gap
    <2> HIDE DEF gap
    <2> QED BY <1>1, <1>2, <1>3, AdapterEvaluated
  <1>5. Command(a, s, now) = cmd
    BY DEF Command
  <1>6. k2 = [k EXCEPT !.sent = cmd, !.off = off]
    <2>1. Command(a, s, now).on = on
      BY <1>5
    <2> HIDE DEF cmd, on
    <2>2. k2 = [k EXCEPT !.sent = cmd, !.off = IF on THEN @ ELSE now]
      BY <1>5, <2>1 DEF AfterCommand
    <2> QED BY <2>2 DEF Clocks
  <1>7. on \in BOOLEAN /\ off \in Nat /\ (on => off = k.off) /\ (~on => off = now) /\ off <= now
    BY <1>1 DEF Stopped, MotionOK
  <1>8. /\ cmd \in [on : BOOLEAN, speed : Int, at : Nat, controls : ControlWords]
        /\ cmd.on = on /\ cmd.speed = a2.speed /\ cmd.at = now /\ cmd.controls = s.controls
    <2>1. a2.speed \in Int
      BY <1>4 DEF Adapters
    <2> HIDE DEF on, now
    <2> QED BY <1>1, <1>7, <2>1
  <1>9. on => /\ ~Interlocked(s) /\ a.request # NoRequest /\ now - a.since <= CommandLife
    BY <1>1, ChassisAssumption DEF Stopped
  <1> HIDE DEF on, off, cmd
  <1>10. /\ k2 \in Clocks /\ k2.now = now /\ k2.controls = k.controls /\ k2.off = off
         /\ k2.sent = cmd
    BY <1>6, <1>7, <1>8 DEF Clocks
  <1>11. a2.request # NoRequest => a2.since >= off
    <2>1. a2.request # NoRequest => on
      BY <1>4 DEF on
    <2>2. on => a.since >= k.off
      BY <1>9 DEF MotionOK
    <2> QED BY <1>4, <1>7, <2>1, <2>2
  <1>12. MotionOK(a2, k2)
    <2>1. a2.out = 0 \/ a2.out >= k2.sent.at
      BY <1>1, <1>4, <1>8, <1>10
    <2> QED BY <1>1, <1>4, <1>7, <1>8, <1>10, <1>11, <2>1 DEF MotionOK
  <1>13. on => a.since >= k.off
    BY <1>9 DEF MotionOK
  <1>14. on => Distance(cmd.speed, a.speed) <= Ramp * gap
    BY <1>4, <1>8 DEF on
  <1> QED BY <1>4, <1>8, <1>9, <1>10, <1>12, <1>13, <1>14

(* What MotionIsSafe says of a step.                                       *)
SafeStep ==
    ctl'.sent # ctl.sent /\ ctl'.sent.on =>
         /\ ctl'.sent.controls = "ok"
         /\ SafeToMove(cli', trk', ctl.now)
         /\ ctl.now - ad.since <= CommandLife /\ ad.since >= ctl.off
         /\ Distance(ctl'.sent.speed, IF Use("node") THEN ad.speed ELSE ctl.sent.speed)
               <= Ramp * (ctl.now - ctl.sent.at)
         /\ Distance(ctl'.sent.speed, 0) <= TopSpeed

LEMMA LimitIsDistance ==
    ASSUME NEW v \in Int, WithinLimit(v) PROVE Distance(v, 0) <= TopSpeed
  BY ChassisAssumption DEF WithinLimit, Distance

(* Both hosts: the command follows from what is known after the step.      *)
LEMMA CommandIsSafe ==
    ASSUME ChassisTypes, MotionOK(ad, ctl), ctl.sent.at < ctl.now, NEW w \in ControlWords,
           NEW s, s.controls = w, ~Use("node") => ad.speed = ctl.sent.speed,
           ad' = Evaluated(ad, s, ctl.now), Sent(Command(ad, s, ctl.now)),
           ~Interlocked(s) => SafeToMove(cli', trk', ctl.now) /\ w = "ok"
    PROVE  /\ ad' \in Adapters /\ ctl' \in Clocks /\ MotionOK(ad', ctl') /\ ctl'.now = ctl.now
           /\ ad'.speed = ctl'.sent.speed /\ SafeStep
  <1>1. ad \in Adapters /\ ctl \in Clocks
    BY DEF ChassisTypes
  <1>2. ctl' = AfterCommand(ctl, Command(ad, s, ctl.now))
    BY DEF Sent, AfterCommand
  <1>3. /\ ad' \in Adapters /\ ctl' \in Clocks /\ MotionOK(ad', ctl')
        /\ ctl'.now = ctl.now /\ ctl'.controls = ctl.controls /\ ctl'.sent.controls = s.controls
        /\ ctl'.sent.on =>
              /\ ~Interlocked(s) /\ ctl.now - ad.since <= CommandLife /\ ad.since >= ctl.off
              /\ Distance(ctl'.sent.speed, ad.speed) <= Ramp * (ctl.now - ctl.sent.at)
        /\ WithinLimit(ctl'.sent.speed) /\ ad'.speed = ctl'.sent.speed
    <2>1. s.controls \in ControlWords
      OBVIOUS
    <2> DEFINE a2 == ad'
               k2 == ctl'
    <2>2. a2 = Evaluated(ad, s, ctl.now)
      OBVIOUS
    <2>3. k2 = AfterCommand(ctl, Command(ad, s, ctl.now))
      BY <1>2
    <2> HIDE DEF a2, k2
    <2>4. /\ a2 \in Adapters /\ k2 \in Clocks /\ MotionOK(a2, k2)
          /\ k2.now = ctl.now /\ k2.controls = ctl.controls /\ k2.sent.controls = s.controls
          /\ k2.sent.on =>
                /\ ~Interlocked(s) /\ ctl.now - ad.since <= CommandLife /\ ad.since >= ctl.off
                /\ Distance(k2.sent.speed, ad.speed) <= Ramp * (ctl.now - ctl.sent.at)
          /\ WithinLimit(k2.sent.speed) /\ a2.speed = k2.sent.speed
      BY <1>1, <2>1, <2>2, <2>3, CommandSent
    <2> QED BY <2>4 DEF a2, k2
  <1>4. ctl'.sent.speed \in Int
    BY <1>3 DEF Clocks
  <1>5. Distance(ctl'.sent.speed, 0) <= TopSpeed
    BY <1>3, <1>4, LimitIsDistance
  <1>6. ad.speed = IF Use("node") THEN ad.speed ELSE ctl.sent.speed
    OBVIOUS
  <1>7. SafeStep
    BY <1>3, <1>5, <1>6 DEF SafeStep
  <1> QED BY <1>3, <1>7

-----------------------------------------------------------------------------
(* One lemma for each action.                                              *)

LEMMA ControlsAreWords == Controls \subseteq ControlWords /\ "ok" \in ControlWords
  BY DEF Controls, ControlWords

LEMMA HoldsAgain ==
    ASSUME scene \in Scenes, scene' = scene, ChassisTypes', MotionOK(ad', ctl'),
           ~Use("node") => ad'.speed = ctl'.sent.speed, Use("loop") => CanOK(cli', trk', mcu', rx', ctl'.now)
    PROVE  ChassisInv'
  <1>1. Use("loop")' <=> Use("loop")
    BY DEF Use
  <1>2. Use("node")' <=> Use("node")
    BY DEF Use
  <1> QED BY <1>1, <1>2 DEF ChassisInv

LEMMA LoopStepIsSafe ==
    ASSUME ChassisInv, scene' = scene, NEW w \in Controls, LoopStep(w)
    PROVE  ChassisInv' /\ SafeStep
  <1> DEFINE k == Known[Len(rx)]
  <1>1. /\ Use("loop") /\ ctl.sent.at < ctl.now
        /\ cli' = SourceUpdated(k[1], ctl.now) /\ trk' = k[2]
        /\ rx' = << >> /\ mcu' = mcu
    BY DEF LoopStep
  <1>2. /\ ChassisTypes /\ MotionOK(ad, ctl) /\ CanOK(cli, trk, mcu, rx, ctl.now)
        /\ scene \in Scenes /\ (~Use("node") => ad.speed = ctl.sent.speed)
    BY <1>1 DEF ChassisInv
  <1>3. /\ k[1] \in CanClients /\ k[2] \in Trackers /\ Heard(k[1], k[2], ctl.now)
        /\ Awaits(k[1], k[2], mcu, rx, Len(rx), ctl.now)
    BY <1>2, AllRead DEF KnownAfter
  <1> HIDE DEF k
  <1>4. /\ ctl.now \in Nat /\ rx \in Seq(Frames) /\ mcu \in Controllers
    BY <1>2 DEF ChassisTypes, Clocks
  <1>5. Len(rx) \in Nat
    BY <1>4
  <1>6. cli' \in CanClients /\ LessKnown(cli', k[1])
    BY <1>1, <1>3, <1>4, SourceKnows
  <1>7. trk' \in Trackers
    BY <1>1, <1>3
  <1>8. Heard(cli', trk', ctl.now) /\ Awaits(cli', trk', mcu, rx, Len(rx), ctl.now)
    BY <1>1, <1>3, <1>6, LessIsHeard
  <1>9. BusOK(mcu, rx, ctl.now)
    BY <1>2 DEF CanOK
  <1>10. CanOK(cli', trk', mcu', rx', ctl.now)
    <2>1. CanOK(cli', trk', mcu, << >>, ctl.now)
      BY <1>5, <1>6, <1>7, <1>8, <1>9, NothingAwaited
    <2> QED BY <1>1, <2>1
  <1> DEFINE s == SafetyState(w, cli', trk', TRUE)
  <1>11. ad' = Evaluated(ad, s, ctl.now) /\ Sent(Command(ad, s, ctl.now))
    BY DEF LoopStep
  <1>12. s.controls = w
    BY DEF SafetyState
  <1>13. ~Interlocked(s) => SafeToMove(cli', trk', ctl.now) /\ w = "ok"
    <2> SUFFICES ASSUME ~Interlocked(s)
                 PROVE  SafeToMove(cli', trk', ctl.now) /\ w = "ok"
      OBVIOUS
    <2>1. /\ w = "ok" /\ PeerAlive(trk', ctl.now) /\ ~TrackedFault(trk', ctl.now) /\ cli'.seen
      BY DEF Interlocked, SafetyState
    <2>2. FaultFresh(trk', ctl.now) /\ cli'.said.boot = 1 => cli'.said.faulted = trk'.faulted
      BY <1>8 DEF Awaits, IsLatest
    <2>3. /\ FaultFresh(trk', ctl.now) /\ ~trk'.faulted
          /\ ~cli'.missed =>
                trk'.boot = cli'.boot /\ (cli'.said.boot = cli'.boot => ~cli'.said.faulted)
      BY <1>6, <1>7, <1>8, <2>1, <2>2, ReportIsTrusted
    <2> QED BY <2>1, <2>3 DEF SafeToMove
  <1>14. w \in ControlWords
    BY ControlsAreWords
  <1> HIDE DEF s
  <1>15. /\ ad' \in Adapters /\ ctl' \in Clocks /\ MotionOK(ad', ctl') /\ ctl'.now = ctl.now
         /\ ad'.speed = ctl'.sent.speed /\ SafeStep
    BY <1>1, <1>2, <1>11, <1>12, <1>13, <1>14, CommandIsSafe
  <1>16. ChassisTypes'
    BY <1>1, <1>4, <1>6, <1>7, <1>15 DEF ChassisTypes
  <1>17. ChassisInv'
    BY <1>2, <1>10, <1>15, <1>16, HoldsAgain
  <1> QED BY <1>15, <1>17

LEMMA LoopStepFailsIsSafe ==
    ASSUME ChassisInv, scene' = scene, LoopStepFails
    PROVE  ChassisInv' /\ SafeStep
  <1> DEFINE k == Known[Len(rx)]
  <1>1. /\ Use("loop") /\ cli' = k[1] /\ trk' = k[2] /\ rx' = << >>
        /\ mcu' = mcu /\ ad' = ad /\ ctl' = ctl
    BY DEF LoopStepFails
  <1>2. /\ ChassisTypes /\ MotionOK(ad, ctl) /\ CanOK(cli, trk, mcu, rx, ctl.now)
        /\ scene \in Scenes /\ (~Use("node") => ad.speed = ctl.sent.speed)
    BY <1>1 DEF ChassisInv
  <1>3. /\ k[1] \in CanClients /\ k[2] \in Trackers /\ Heard(k[1], k[2], ctl.now)
        /\ Awaits(k[1], k[2], mcu, rx, Len(rx), ctl.now)
    BY <1>2, AllRead DEF KnownAfter
  <1> HIDE DEF k
  <1>4. ctl.now \in Nat /\ Len(rx) \in Nat /\ BusOK(mcu, rx, ctl.now)
    BY <1>2 DEF ChassisTypes, Clocks, CanOK
  <1>5. k[1] \in CanClients /\ LessKnown(k[1], k[1])
    BY <1>3 DEF LessKnown
  <1>6. CanOK(cli', trk', mcu', rx', ctl'.now)
    <2>1. CanOK(cli', trk', mcu, << >>, ctl.now)
      BY <1>1, <1>3, <1>4, <1>5, NothingAwaited
    <2> QED BY <1>1, <2>1
  <1>7. ChassisTypes'
    BY <1>1, <1>2, <1>3 DEF ChassisTypes
  <1>8. ChassisInv'
    BY <1>1, <1>2, <1>6, <1>7, HoldsAgain
  <1> QED BY <1>1, <1>8 DEF SafeStep

LEMMA OneHost == ASSUME scene \in Scenes, Use("node") PROVE ~Use("loop")
  BY HostAssumption DEF Use

LEMMA LoopSubmitIsSafe ==
    ASSUME ChassisInv, scene' = scene, NEW w \in Controls, NEW x \in Requests, LoopSubmit(x, w)
    PROVE  ChassisInv' /\ SafeStep
  <1>1. /\ Use("loop") /\ cli' = SourceUpdated(cli, ctl.now)
        /\ ad' = SubmitRequest(ad, SafetyState(w, cli', trk, TRUE), x, ctl.now)
        /\ UNCHANGED <<mcu, rx, trk, ctl>>
    BY DEF LoopSubmit
  <1>2. /\ ChassisTypes /\ MotionOK(ad, ctl) /\ CanOK(cli, trk, mcu, rx, ctl.now)
        /\ scene \in Scenes /\ (~Use("node") => ad.speed = ctl.sent.speed)
    BY <1>1 DEF ChassisInv
  <1>3. /\ cli \in CanClients /\ trk \in Trackers /\ ad \in Adapters /\ ctl \in Clocks
        /\ ctl.now \in Nat
    BY <1>2 DEF ChassisTypes, Clocks
  <1>4. cli' \in CanClients /\ LessKnown(cli', cli)
    BY <1>1, <1>3, SourceKnows
  <1>5. Heard(cli', trk, ctl.now) /\ Awaits(cli', trk, mcu, rx, 0, ctl.now)
    BY <1>2, <1>3, <1>4, LessIsHeard DEF CanOK
  <1>6. CanOK(cli', trk', mcu', rx', ctl'.now)
    BY <1>1, <1>2, <1>5 DEF CanOK
  <1> DEFINE s == SafetyState(w, cli', trk, TRUE)
             now == ctl.now
  <1>7. ad' = SubmitRequest(ad, s, x, now) /\ now \in Nat
    BY <1>1, <1>3
  <1> HIDE DEF s, now
  <1>8. /\ ad' \in Adapters /\ ad'.out = ad.out /\ ad'.speed = ad.speed
        /\ ad'.request # NoRequest => ad'.since = now
    BY <1>3, <1>7, RequestSubmitted
  <1>9. MotionOK(ad', ctl')
    BY <1>1, <1>2, <1>8 DEF MotionOK, now
  <1>10. ChassisTypes'
    BY <1>1, <1>2, <1>4, <1>8 DEF ChassisTypes
  <1>11. ~Use("node") => ad'.speed = ctl'.sent.speed
    BY <1>1, <1>2, <1>8
  <1>12. ChassisInv'
    BY <1>2, <1>6, <1>9, <1>10, <1>11, HoldsAgain
  <1> QED BY <1>1, <1>12 DEF SafeStep

LEMMA LoopStopsIsSafe ==
    ASSUME ChassisInv, scene' = scene, LoopStops PROVE ChassisInv' /\ SafeStep
  <1> DEFINE off == [on |-> FALSE, speed |-> 0, at |-> ctl.now, controls |-> "ok"]
             now == ctl.now
  <1>1. /\ Use("loop") /\ ad' = AdapterStop(AdapterReset(now), now)
        /\ ctl' = [ctl EXCEPT !.sent = off, !.off = now] /\ UNCHANGED <<mcu, rx, cli, trk>>
    BY DEF LoopStops, Sent
  <1>2. /\ ChassisTypes /\ MotionOK(ad, ctl) /\ CanOK(cli, trk, mcu, rx, now)
        /\ scene \in Scenes /\ ctl \in Clocks /\ now \in Nat
    BY <1>1 DEF ChassisInv, ChassisTypes, Clocks
  <1>3. off \in [on : BOOLEAN, speed : Int, at : Nat, controls : ControlWords]
        /\ off.on = FALSE /\ off.speed = 0 /\ off.at = now
    BY <1>2, ControlsAreWords
  <1>4. /\ ad' \in Adapters /\ ad'.request = NoRequest /\ ad'.out = now /\ ad'.speed = 0
    <2>1. ad' = [request |-> NoRequest, since |-> 0, out |-> now, speed |-> 0, invalid |-> FALSE]
      BY <1>1 DEF AdapterStop, AdapterReset
    <2>2. NoRequest \in Int /\ 0 \in Nat /\ 0 \in Int /\ now \in Nat
      BY <1>2 DEF NoRequest
    <2> HIDE DEF now
    <2> QED BY <2>1, <2>2 DEF Adapters
  <1>5. /\ ctl' \in Clocks /\ ctl'.now = now /\ ctl'.off = now /\ ctl'.sent = off
    <2> HIDE DEF off
    <2>1. now = ctl.now
      OBVIOUS
    <2> HIDE DEF now
    <2> QED BY <1>1, <1>2, <1>3, <2>1 DEF Clocks
  <1> HIDE DEF off, now
  <1>6. MotionOK(ad', ctl')
    BY <1>2, <1>3, <1>4, <1>5, ChassisAssumption DEF MotionOK, WithinLimit
  <1>7. ChassisTypes'
    BY <1>1, <1>2, <1>4, <1>5 DEF ChassisTypes
  <1>8. CanOK(cli', trk', mcu', rx', ctl'.now) /\ ad'.speed = ctl'.sent.speed
    BY <1>1, <1>2, <1>3, <1>4, <1>5
  <1>9. ChassisInv'
    BY <1>2, <1>6, <1>7, <1>8, HoldsAgain
  <1> QED BY <1>3, <1>5, <1>9 DEF SafeStep

(* The controller raises a fault, or reboots.                              *)
LEMMA ControllerChanges ==
    ASSUME NEW c \in CanClients, NEW t \in Trackers, NEW m \in Controllers,
           NEW n \in Controllers, NEW q, NEW now, CanOK(c, t, m, q, now),
           \/ n.boot = m.boot /\ n.faultSeq = m.faultSeq
           \/ n.boot = 2,
           n.faulted, m.boot <= n.boot, \A j \in 1 .. Len(q) : q[j] \in Frames
    PROVE  CanOK(c, t, n, q, now)
  <1>1. /\ BusOK(m, q, now) /\ Heard(c, t, now) /\ Awaits(c, t, m, q, 0, now)
        /\ \A j \in 1 .. Len(q) : q[j].at > t.sample
    BY DEF CanOK
  <1>2. \A i, x : Expects(m, q, i, x) => Expects(n, q, i, x)
    BY DEF Expects, Controllers
  <1>3. m.boot \in {1, 2} /\ n.boot \in {1, 2}
    BY DEF Controllers
  <1>4. BusOK(n, q, now)
    <2>1. ASSUME NEW i \in 1 .. Len(q)
          PROVE  q[i].at <= now /\ q[i].boot <= n.boot /\ (q[i].boot = 2 => q[i].faulted)
      <3>1. q[i].boot \in {1, 2}
        BY DEF Frames
      <3>2. q[i].at <= now /\ q[i].boot <= m.boot /\ (q[i].boot = 2 => q[i].faulted)
        BY <1>1 DEF BusOK
      <3> QED BY <1>3, <3>1, <3>2
    <2> QED BY <1>1, <1>2, <2>1 DEF BusOK
  <1>5. KnowsBoot(c, t, n.boot)
    <2>1. KnowsBoot(c, t, m.boot)
      BY <1>1 DEF Awaits
    <2>2. /\ c.boot \in {0, 1, 2} /\ c.heard \in {1, 2} /\ c.said.boot \in {1, 2}
          /\ t.boot \in {0, 1, 2}
      BY DEF CanClients, Trackers
    <2> QED BY <1>3, <2>1, <2>2 DEF KnowsBoot
  <1>6. IsLatest(c, t, n, q, 0, now)
    BY <1>1, <1>2 DEF Awaits, IsLatest
  <1>7. Awaits(c, t, n, q, 0, now)
    BY <1>1, <1>5, <1>6 DEF Awaits
  <1> QED BY <1>1, <1>4, <1>7 DEF CanOK

LEMMA ControllerIsSafe ==
    ASSUME ChassisInv, scene' = scene, McuFaults \/ McuReboots PROVE ChassisInv' /\ SafeStep
  <1>1. /\ ChassisTypes /\ MotionOK(ad, ctl) /\ scene \in Scenes
        /\ ~Use("node") => ad.speed = ctl.sent.speed
        /\ Use("loop") => CanOK(cli, trk, mcu, rx, ctl.now)
    BY DEF ChassisInv
  <1>2. /\ mcu \in Controllers /\ ctl.now \in Nat /\ cli \in CanClients /\ trk \in Trackers
        /\ rx \in Seq(Frames)
    BY <1>1 DEF ChassisTypes, Clocks
  <1>3. UNCHANGED <<rx, cli, trk, ad, ctl>>
    BY DEF McuFaults, McuReboots
  <1>4. /\ mcu' \in Controllers /\ mcu'.faulted /\ mcu.boot <= mcu'.boot
        /\ \/ mcu'.boot = mcu.boot /\ mcu'.faultSeq = mcu.faultSeq
           \/ mcu'.boot = 2
    <2>1. CASE McuFaults
      <3>1. mcu' = [mcu EXCEPT !.faulted = TRUE]
        BY <2>1 DEF McuFaults
      <3>2. /\ mcu' \in Controllers /\ mcu'.faulted /\ mcu'.boot = mcu.boot
            /\ mcu'.faultSeq = mcu.faultSeq /\ mcu.boot \in {1, 2}
        BY <1>2, <3>1 DEF Controllers
      <3> QED BY <3>2
    <2>2. CASE McuReboots
      <3> DEFINE now == ctl.now
      <3>1. /\ mcu' = [mcu EXCEPT !.boot = 2, !.at = now, !.seq = 0, !.faultSeq = 0,
                                  !.faulted = TRUE]
            /\ mcu.boot = 1 /\ now \in Nat
        BY <1>2, <2>2 DEF McuReboots
      <3>2. 0 \in 0 .. SeqSpace - 1 /\ now \in Int
        BY <3>1, ChassisAssumption
      <3> HIDE DEF now
      <3>3. mcu' = [boot |-> 2, at |-> now, seq |-> 0, faultSeq |-> 0, faulted |-> TRUE]
        BY <1>2, <3>1 DEF Controllers
      <3>4. mcu' \in Controllers /\ mcu'.faulted /\ mcu'.boot = 2
        BY <3>1, <3>2, <3>3 DEF Controllers
      <3>5. mcu.boot = 1
        BY <3>1
      <3> QED BY <3>4, <3>5
    <2> QED BY <2>1, <2>2
  <1>5. \A j \in 1 .. Len(rx) : rx[j] \in Frames
    BY <1>2
  <1>6. Use("loop") => CanOK(cli', trk', mcu', rx', ctl'.now)
    <2>1. CanOK(cli, trk, mcu, rx, ctl.now) => CanOK(cli, trk, mcu', rx, ctl.now)
      BY <1>2, <1>4, <1>5, ControllerChanges
    <2> QED BY <1>1, <1>3, <2>1
  <1>7. ChassisTypes'
    BY <1>1, <1>3, <1>4 DEF ChassisTypes
  <1>8. MotionOK(ad', ctl') /\ (~Use("node") => ad'.speed = ctl'.sent.speed)
    BY <1>1, <1>3
  <1>9. ChassisInv'
    BY <1>1, <1>6, <1>7, <1>8, HoldsAgain
  <1> QED BY <1>3, <1>9 DEF SafeStep

LEMMA TimeIsSafe ==
    ASSUME ChassisInv, scene' = scene, NEW batch \in Batches, TimePasses(batch)
    PROVE  ChassisInv' /\ SafeStep
  <1>1. /\ ChassisTypes /\ MotionOK(ad, ctl) /\ scene \in Scenes
        /\ ~Use("node") => ad.speed = ctl.sent.speed
        /\ Use("loop") => CanOK(cli, trk, mcu, rx, ctl.now)
    BY DEF ChassisInv
  <1>2. /\ ChassisTypes' /\ MotionOK(ad', ctl')
        /\ CanOK(cli, trk, mcu, rx, ctl.now) => CanOK(cli', trk', mcu', rx', ctl'.now)
    BY <1>1, TimeStep
  <1>3. ad' = ad /\ ctl'.sent = ctl.sent
    <2>1. ad' = ad /\ ctl' = [ctl EXCEPT !.now = @ + 1] /\ ctl \in Clocks
      BY <1>1 DEF TimePasses, ChassisTypes
    <2> QED BY <2>1 DEF Clocks
  <1>4. ~Use("node") => ad'.speed = ctl'.sent.speed
    BY <1>1, <1>3
  <1>5. ChassisInv'
    BY <1>1, <1>2, <1>4, HoldsAgain
  <1> QED BY <1>3, <1>5 DEF SafeStep

(* The node: nothing over CAN is at stake.                                 *)
LEMMA NodeControlsIsSafe ==
    ASSUME ChassisInv, scene' = scene, NEW w \in Controls, NodeControls(w)
    PROVE  ChassisInv' /\ SafeStep
  <1> DEFINE now == ctl.now
             idle == AdapterReset(now)
  <1>1. /\ Use("node") /\ ctl.sent.at < now /\ ctl' = [ctl EXCEPT !.controls = w]
        /\ ad' = idle \/ ad' = ad
        /\ UNCHANGED <<mcu, rx, cli, trk>>
    BY DEF NodeControls, Handles
  <1>2. /\ ChassisTypes /\ MotionOK(ad, ctl) /\ scene \in Scenes
        /\ ctl \in Clocks /\ ad \in Adapters /\ now \in Nat
    BY DEF ChassisInv, ChassisTypes, Clocks
  <1>3. idle \in Adapters /\ idle.request = NoRequest /\ idle.out = now /\ idle.speed = 0
    <2>1. NoRequest \in Int /\ 0 \in Nat /\ 0 \in Int
      BY DEF NoRequest
    <2> HIDE DEF now
    <2> QED BY <1>2, <2>1 DEF AdapterReset, Adapters
  <1>4. /\ ctl' \in Clocks /\ ctl'.now = now /\ ctl'.off = ctl.off /\ ctl'.sent = ctl.sent
    <2>1. w \in ControlWords
      BY ControlsAreWords
    <2> QED BY <1>1, <1>2, <2>1 DEF Clocks
  <1> HIDE DEF idle
  <1>5. MotionOK(ad', ctl')
    <2>1. now = ctl.now /\ ctl.sent.at \in Nat
      BY <1>2 DEF Clocks
    <2>2. MotionOK(ad, ctl')
      BY <1>2, <1>4, <2>1 DEF MotionOK
    <2>3. MotionOK(idle, ctl')
      BY <1>1, <1>2, <1>3, <1>4, <2>1, ChassisAssumption DEF MotionOK, WithinLimit
    <2> QED BY <1>1, <2>2, <2>3
  <1>6. ChassisTypes'
    BY <1>1, <1>2, <1>3, <1>4 DEF ChassisTypes
  <1>7. ~Use("loop")
    BY <1>1, <1>2, OneHost
  <1>8. ChassisInv'
    BY <1>1, <1>2, <1>5, <1>6, <1>7, HoldsAgain
  <1> QED BY <1>4, <1>8 DEF SafeStep

LEMMA NodeSubmitIsSafe ==
    ASSUME ChassisInv, scene' = scene, NEW x \in Requests, NodeSubmit(x)
    PROVE  ChassisInv' /\ SafeStep
  <1> DEFINE now == ctl.now
             bad == [ad EXCEPT !.request = NoRequest, !.since = now, !.invalid = TRUE]
             good == SubmitRequest(ad, NodeState, x, now)
  <1>1. /\ Use("node")
        /\ ad' = bad \/ ad' = good
        /\ UNCHANGED <<mcu, rx, cli, trk, ctl>>
    BY DEF NodeSubmit, Handles
  <1>2. /\ ChassisTypes /\ MotionOK(ad, ctl) /\ scene \in Scenes
        /\ ctl \in Clocks /\ ad \in Adapters /\ now \in Nat
    BY DEF ChassisInv, ChassisTypes, Clocks
  <1>3. /\ bad \in Adapters /\ bad.out = ad.out /\ bad.speed = ad.speed /\ bad.request = NoRequest
    <2>1. NoRequest \in Int
      BY DEF NoRequest
    <2> HIDE DEF now
    <2> QED BY <1>2, <2>1 DEF Adapters
  <1>4. /\ good \in Adapters /\ good.out = ad.out /\ good.speed = ad.speed
        /\ good.request # NoRequest => good.since = now
    <2> HIDE DEF now
    <2> QED BY <1>2, RequestSubmitted
  <1> HIDE DEF bad, good
  <1>5. /\ ad' \in Adapters /\ ad'.out = ad.out /\ ad'.speed = ad.speed
        /\ ad'.request # NoRequest => ad'.since = now
    BY <1>1, <1>3, <1>4
  <1>6. MotionOK(ad', ctl')
    BY <1>1, <1>2, <1>5 DEF MotionOK
  <1>7. ChassisTypes'
    BY <1>1, <1>2, <1>5 DEF ChassisTypes
  <1>8. ~Use("loop")
    BY <1>1, <1>2, OneHost
  <1>9. ChassisInv'
    BY <1>1, <1>2, <1>6, <1>7, <1>8, HoldsAgain
  <1> QED BY <1>1, <1>9 DEF SafeStep

LEMMA NodeHearsIsSafe ==
    ASSUME ChassisInv, scene' = scene, NodeHears PROVE ChassisInv' /\ SafeStep
  <1> DEFINE now == ctl.now
             fault == Head(rx).faulted
  <1>1. /\ Use("node") /\ rx # << >> /\ rx' = Tail(rx) /\ UNCHANGED <<mcu, cli, ad, ctl>>
        /\ trk' = [trk EXCEPT !.beat = now]
           \/ trk' = [trk EXCEPT !.sample = now, !.faulted = fault]
    BY DEF NodeHears, Handles
  <1>2. /\ ChassisTypes /\ MotionOK(ad, ctl) /\ scene \in Scenes
        /\ ctl \in Clocks /\ trk \in Trackers /\ now \in Int /\ rx \in Seq(Frames)
    BY DEF ChassisInv, ChassisTypes, Clocks
  <1>3. Head(rx) \in Frames /\ rx' \in Seq(Frames)
    BY <1>1, <1>2, HeadTailProperties
  <1>4. fault \in BOOLEAN
    BY <1>3 DEF Frames
  <1> HIDE DEF now, fault
  <1>5. trk' \in Trackers
    BY <1>1, <1>2, <1>4 DEF Trackers
  <1>6. ChassisTypes'
    BY <1>1, <1>2, <1>3, <1>5 DEF ChassisTypes
  <1>7. ~Use("loop")
    BY <1>1, <1>2, OneHost
  <1>8. ChassisInv'
    BY <1>1, <1>2, <1>6, <1>7, HoldsAgain
  <1> QED BY <1>1, <1>8 DEF SafeStep

LEMMA NodeTimerIsSafe ==
    ASSUME ChassisInv, scene' = scene, NodeTimer PROVE ChassisInv' /\ SafeStep
  <1> DEFINE s == NodeState
             w == ctl.controls
  <1>1. /\ Use("node") /\ ctl.sent.at < ctl.now /\ UNCHANGED <<mcu, rx, cli, trk>>
        /\ ad' = Evaluated(ad, s, ctl.now) /\ Sent(Command(ad, s, ctl.now))
    BY DEF NodeTimer
  <1>2. /\ ChassisTypes /\ MotionOK(ad, ctl) /\ scene \in Scenes
        /\ ctl \in Clocks /\ w \in ControlWords
    BY DEF ChassisInv, ChassisTypes, Clocks
  <1>3. ~Use("loop")
    BY <1>1, <1>2, OneHost
  <1>4. s.controls = w
    BY DEF NodeState, SafetyState
  <1>5. ~Interlocked(s) => SafeToMove(cli', trk', ctl.now) /\ w = "ok"
    <2> SUFFICES ASSUME ~Interlocked(s) PROVE SafeToMove(cli', trk', ctl.now) /\ w = "ok"
      OBVIOUS
    <2>1. /\ w = "ok" /\ PeerAlive(trk, ctl.now) /\ ~TrackedFault(trk, ctl.now)
      BY DEF Interlocked, NodeState, SafetyState
    <2>2. FaultFresh(trk, ctl.now) /\ ~trk.faulted
      BY <2>1 DEF TrackedFault
    <2> QED BY <1>1, <1>3, <2>1, <2>2 DEF SafeToMove
  <1> HIDE DEF s, w
  <1>6. /\ ad' \in Adapters /\ ctl' \in Clocks /\ MotionOK(ad', ctl') /\ SafeStep
    BY <1>1, <1>2, <1>4, <1>5, CommandIsSafe
  <1>7. ChassisTypes'
    BY <1>1, <1>2, <1>6 DEF ChassisTypes
  <1>8. ChassisInv'
    BY <1>1, <1>2, <1>3, <1>6, <1>7, HoldsAgain
  <1> QED BY <1>6, <1>8

-----------------------------------------------------------------------------

LEMMA ChassisBegins == ASSUME SceneInit, ChassisInit PROVE ChassisInv
  <1>1. SeqSpace \in Nat /\ SeqSpace >= 4 /\ 0 \in 0 .. SeqSpace - 1
    BY ChassisAssumption
  <1> DEFINE z == SeqSpace - 2
             n == IF Use("wrap") THEN 3 - UptimeSpace ELSE 1
             f == IF Use("wrap") THEN SeqSpace - 2 ELSE 2
  <1>2. z \in 0 .. SeqSpace - 1 /\ n \in Int /\ f \in 0 .. SeqSpace - 1
    BY <1>1, ChassisAssumption
  <1>3. mcu = [boot |-> 1, at |-> n, seq |-> z, faultSeq |-> f, faulted |-> FALSE]
    BY DEF ChassisInit
  <1> HIDE DEF z, n, f
  <1>4. mcu \in Controllers /\ mcu.boot = 1
    BY <1>2, <1>3 DEF Controllers
  <1>5. rx = << >> /\ rx \in Seq(Frames) /\ Len(rx) = 0
    BY DEF ChassisInit
  <1>6. /\ cli \in CanClients /\ cli.reboots = 0 /\ cli.observed = 0 /\ cli.boot = 0
        /\ cli.heard = 1 /\ cli.said.boot = 1
    <2>1. [boot |-> 1, faulted |-> FALSE] \in [boot : {1, 2}, faulted : BOOLEAN]
      OBVIOUS
    <2> DEFINE said == [boot |-> 1, faulted |-> FALSE]
    <2>2. said.boot = 1
      OBVIOUS
    <2>3. cli = [status |-> "unknown", valid |-> FALSE, seq |-> 0, up |-> 0, at |-> 0,
                 reboots |-> 0, faultValid |-> FALSE, faultSeq |-> 0, reported |-> "unknown",
                 seen |-> FALSE, observed |-> 0, boot |-> 0, heard |-> 1, missed |-> FALSE,
                 said |-> said]
      BY DEF ChassisInit
    <2> HIDE DEF said
    <2>4. cli \in CanClients
      BY <1>1, <2>1, <2>3 DEF CanClients, Statuses, said
    <2> QED BY <2>2, <2>3, <2>4
  <1>7. /\ trk \in Trackers /\ trk.beat = Never /\ trk.sample = Never /\ trk.boot = 0
    BY DEF ChassisInit, Trackers, Never
  <1>8. /\ ad \in Adapters /\ ad.request = NoRequest /\ ad.out = 0 /\ ad.speed = 0
    <2>1. NoRequest \in Int
      BY DEF NoRequest
    <2> QED BY <2>1 DEF ChassisInit, Adapters
  <1>9. /\ ctl \in Clocks /\ ctl.now = 1 /\ ctl.off = 0 /\ ctl.sent.at = 1 /\ ctl.sent.speed = 0
    <2> DEFINE sent == [on |-> FALSE, speed |-> 0, at |-> 1, controls |-> "ok"]
    <2>1. sent \in [on : BOOLEAN, speed : Int, at : Nat, controls : ControlWords]
          /\ sent.at = 1 /\ sent.speed = 0
      BY ControlsAreWords
    <2>2. ctl = [now |-> 1, controls |-> "ok", off |-> 0, sent |-> sent]
      BY DEF ChassisInit
    <2> HIDE DEF sent
    <2> QED BY <2>1, <2>2, ControlsAreWords DEF Clocks
  <1>10. MotionOK(ad, ctl)
    BY <1>8, <1>9, ChassisAssumption DEF MotionOK, WithinLimit
  <1>11. 1 .. 0 = {} /\ 0 + 1 .. 0 = {}
    OBVIOUS
  <1>12. Heard(cli, trk, ctl.now)
    BY <1>6, <1>7, <1>9 DEF Heard, Never
  <1>13. KnowsBoot(cli, trk, mcu.boot)
    BY <1>4, <1>6, <1>7 DEF KnowsBoot
  <1>14. IsLatest(cli, trk, mcu, rx, 0, ctl.now)
    BY <1>7 DEF IsLatest, FaultFresh
  <1>15. BusOK(mcu, rx, ctl.now)
    BY <1>4, <1>5, <1>11 DEF BusOK
  <1>16. CanOK(cli, trk, mcu, rx, ctl.now)
    BY <1>5, <1>11, <1>12, <1>13, <1>14, <1>15 DEF CanOK, Awaits
  <1> QED BY <1>4, <1>5, <1>6, <1>7, <1>8, <1>9, <1>10, <1>16
          DEF ChassisInv, ChassisTypes, SceneInit

LEMMA ChassisMoves ==
    ASSUME ChassisInv, ChassisNext, scene' = scene PROVE ChassisInv' /\ SafeStep
  <1>1. CASE McuFaults \/ McuReboots
    BY <1>1, ControllerIsSafe
  <1>2. CASE LoopStops \/ LoopStepFails
    BY <1>2, LoopStopsIsSafe, LoopStepFailsIsSafe
  <1>3. CASE NodeHears
    BY <1>3, NodeHearsIsSafe
  <1>4. CASE NodeTimer
    BY <1>4, NodeTimerIsSafe
  <1>5. CASE \E batch \in Batches : TimePasses(batch)
    BY <1>5, TimeIsSafe
  <1>6. CASE \E w \in Controls : LoopStep(w)
    BY <1>6, LoopStepIsSafe
  <1>7. CASE \E w \in Controls : NodeControls(w)
    BY <1>7, NodeControlsIsSafe
  <1>8. CASE \E x \in Requests : NodeSubmit(x)
    BY <1>8, NodeSubmitIsSafe
  <1>9. CASE \E x \in Requests, w \in Controls : LoopSubmit(x, w)
    BY <1>9, LoopSubmitIsSafe
  <1> QED BY <1>1, <1>2, <1>3, <1>4, <1>5, <1>6, <1>7, <1>8, <1>9 DEF ChassisNext

LEMMA ChassisUntouched ==
    ASSUME ChassisInv, UNCHANGED chassisVars, scene' = scene PROVE ChassisInv' /\ SafeStep
  <1>1. UNCHANGED <<mcu, rx, cli, trk, ad, ctl>>
    BY DEF chassisVars
  <1>2. ChassisTypes /\ MotionOK(ad, ctl) /\ scene \in Scenes
    BY DEF ChassisInv
  <1>3. ChassisTypes'
    BY <1>1, <1>2 DEF ChassisTypes
  <1>4. MotionOK(ad', ctl') /\ (~Use("node") => ad'.speed = ctl'.sent.speed)
    BY <1>1 DEF ChassisInv
  <1>5. Use("loop") => CanOK(cli', trk', mcu', rx', ctl'.now)
    BY <1>1 DEF ChassisInv
  <1>6. ChassisInv'
    BY <1>2, <1>3, <1>4, <1>5, HoldsAgain
  <1> QED BY <1>1, <1>6 DEF SafeStep

-----------------------------------------------------------------------------
(* The three together.                                                     *)

VehicleInv == StreamInv /\ VideoInv /\ ChassisInv

LEMMA VehicleBegins == Init => VehicleInv
  BY StreamsBegin, VideoBegins, ChassisBegins DEF Init, VehicleInv

LEMMA VehicleMoves ==
    VehicleInv /\ [Next]_<<driving, helping, showing, scene>> =>
       VehicleInv' /\ StepInOrder /\ VideoStepInOrder /\ SafeStep
  <1> SUFFICES ASSUME VehicleInv, [Next]_<<driving, helping, showing, scene>>
               PROVE  VehicleInv' /\ StepInOrder /\ VideoStepInOrder /\ SafeStep
    OBVIOUS
  <1>1. StreamInv /\ VideoInv /\ ChassisInv
    BY DEF VehicleInv
  <1>2. SentinelNext \/ UNCHANGED streamVars
    BY DEF Next, Driving, Helping, Showing, driving, helping, showing, sentinelVars
  <1>3. VideoNext \/ UNCHANGED videoVars
    BY DEF Next, Driving, Helping, Showing, driving, helping, showing
  <1>4. (ChassisNext \/ UNCHANGED chassisVars) /\ scene' = scene
    BY DEF Next, Driving, Helping, Showing, driving, helping, showing
  <1>5. StreamInv' /\ StepInOrder /\ VideoInv' /\ VideoStepInOrder
    BY <1>1, <1>2, <1>3, SentinelStep, StreamsUntouched, VideoStep, VideoUntouched
  <1>6. ChassisInv' /\ SafeStep
    BY <1>1, <1>4, ChassisMoves, ChassisUntouched
  <1> QED BY <1>5, <1>6 DEF VehicleInv

(* What the screen shows never goes back in time and the sentinel misses no *)
(* event but what fell out of the ring, whatever restarts (VehicleGrpc-     *)
(* Service, VehicleStateClient, GatewayGrpcService, GatewayClient); and a   *)
(* viewer is given whole packets in the encoder's order, none twice, but    *)
(* for those the receiver mixed of two openings (H264UdpPublisher's frame   *)
(* ids, RtspServer's collection of fragments and its Push).                 *)
THEOREM EverythingInOrder == Spec => AllStreamsInOrder
  <1> DEFINE Ordered ==
               /\ cl'["hmi"].got >= cl["hmi"].got
               /\ LET old == cl["sentinel"] new == cl'["sentinel"]
                  IN  Len(new.pipe) > Len(old.pipe) =>
                         /\ new.seen > old.seen /\ Last(new.pipe) = new.seen
                         /\ \A v \in old.seen + 1 .. new.seen - 1 : v <= vdrv.dropped
  <1>1. StepInOrder => Ordered
    BY DEF StepInOrder, PassedOver
  <1>2. VehicleInv /\ [Next]_<<driving, helping, showing, scene>> => [Ordered]_streamVars
    BY <1>1, VehicleMoves
  <1>3. VehicleInv /\ [Next]_<<driving, helping, showing, scene>> => [VideoStepInOrder]_rtsp
    BY VehicleMoves
  <1> HIDE DEF Ordered
  <1>4. Spec => [][Ordered]_streamVars
    BY <1>2, VehicleBegins, VehicleMoves, PTL DEF Spec
  <1>5. Spec => [][VideoStepInOrder]_rtsp
    BY <1>3, VehicleBegins, VehicleMoves, PTL DEF Spec
  <1>6. [][VideoStepInOrder]_rtsp => VideoInOrder
    BY PTL DEF VideoInOrder, VideoStepInOrder, ShownInOrder
  <1>7. [][Ordered]_streamVars => StreamsInOrder
    BY PTL DEF StreamsInOrder, Ordered
  <1> QED BY <1>4, <1>5, <1>6, <1>7, PTL DEF AllStreamsInOrder

(* Whatever frames the controller's socket holds when the loop or the      *)
(* node's timer comes, the chassis is told to move only while the          *)
(* controller is heard, its last report is fresh, of no fault and of the   *)
(* boot that is heard, no control forbids it, the request is young and     *)
(* newer than the last stop, and within the limit and the ramp             *)
(* (ChassisSafetyAdapter, ChassisClient and ChassisCanSafetyStateSource,   *)
(* which start over when the uptime goes back).                            *)
THEOREM MotionAlwaysSafe == Spec => MotionIsSafe
  <1>1. VehicleInv /\ [Next]_<<driving, helping, showing, scene>> => [SafeStep]_chassisVars
    BY VehicleMoves
  <1>2. Spec => [][SafeStep]_chassisVars
    BY <1>1, VehicleBegins, VehicleMoves, PTL DEF Spec
  <1>3. [][SafeStep]_chassisVars => MotionIsSafe
    BY PTL DEF MotionIsSafe, SafeStep
  <1> QED BY <1>2, <1>3
=============================================================================
