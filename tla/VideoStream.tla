---------------------------- MODULE VideoStream -----------------------------
(***************************************************************************)
(* The camera's H.264 video on its way to RTSP viewers: H264UdpPublisher   *)
(* cuts every packet into datagrams, the loopback socket may lose some,    *)
(* RtspServer's receiver thread puts them together again and pushes whole  *)
(* packets into the appsrc of the shared RTSP media, which comes and goes  *)
(* with the viewers on the server's main loop thread.                      *)
(***************************************************************************)
EXTENDS Naturals, Sequences, FiniteSets, Scene

CONSTANTS
    MaxFragments,    \* bound: datagrams of a packet
    MaxPackets,      \* bound: packets the encoder publishes
    MaxOpens,        \* bound: times the camera opens its publisher
    MaxDatagrams,    \* bound: datagrams in the socket
    MaxViewers       \* bound: times the RTSP media is prepared

VARIABLES
    publisher,   \* H264UdpPublisher: frame_id, the packet it is sending; serial counts packets
    datagrams,   \* in the receiver's socket, in order
    rtsp         \* RtspServer::Impl; source is the appsrc it has, 1 or 2 in turn

videoVars == <<publisher, datagrams, rtsp>>

Idle == [serial |-> 0, total |-> 0, sent |-> 0, key |-> FALSE, pts |-> 0]
NoPacket == [serials |-> {}, key |-> FALSE, pts |-> 0]

VideoInit ==
    /\ publisher = [opens |-> 0, serial |-> 0, frame |-> 0, packet |-> Idle]
    /\ datagrams = << >>
    /\ rtsp = [pc |-> "none", loop |-> "none", frame |-> 0, expected |-> 0, fragments |-> << >>,
               key |-> FALSE, pts |-> 0, origin |-> 0, last |-> 0, haveInput |-> FALSE,
               pending |-> NoPacket, source |-> 0, viewers |-> 0,
               pushed |-> NoPacket, stopping |-> FALSE, stop |-> "none"]

RtspGoto(r) == rtsp' = r /\ UNCHANGED <<publisher, datagrams>>

(* Open, also by a camera process that was started again: the frame ids      *)
(* begin at zero, and so do the encoder's time stamps.  What is sent before  *)
(* the RTSP server starts is lost.                                           *)
OpenPublisher ==
    /\ Use("encoder") /\ rtsp.pc # "none" /\ publisher.opens < MaxOpens
    /\ publisher' = [publisher EXCEPT !.opens = @ + 1, !.frame = 0, !.packet = Idle]
    /\ UNCHANGED <<datagrams, rtsp>>

(* Publish takes a packet of the encoder.                                    *)
PublishPacket(total, key) ==
    /\ publisher.opens > 0 /\ publisher.packet = Idle /\ publisher.serial < MaxPackets
    /\ publisher' = [publisher EXCEPT
           !.serial = @ + 1, !.frame = @ + 1,
           !.packet = [serial |-> publisher.serial + 1, total |-> total, sent |-> 0,
                       key |-> key, pts |-> publisher.frame]]
    /\ UNCHANGED <<datagrams, rtsp>>

(* The frame id, index, number of fragments, pts and keyframe flag of every  *)
(* datagram; serial stands for the payload.                                  *)
Datagram ==
    LET p == publisher.packet
    IN  [frame |-> publisher.frame - 1, index |-> p.sent + 1, total |-> p.total,
         pts |-> p.pts, key |-> p.key, serial |-> p.serial, opens |-> publisher.opens]
RestOfPacket ==
    IF publisher.packet.sent + 1 = publisher.packet.total THEN Idle
    ELSE [publisher.packet EXCEPT !.sent = @ + 1]
SendFragment ==
    /\ publisher.packet # Idle
    /\ rtsp.pc = "receive" /\ ~rtsp.stopping /\ Len(datagrams) < MaxDatagrams
    /\ datagrams' = Append(datagrams, Datagram)
    /\ publisher' = [publisher EXCEPT !.packet = RestOfPacket]
    /\ UNCHANGED rtsp
(* The socket is full or not bound yet; a sendto that fails loses this        *)
(* fragment and the rest of the packet.                                      *)
FragmentLost(rest) ==
    /\ publisher.packet # Idle
    /\ publisher' = [publisher EXCEPT !.packet = IF rest THEN Idle ELSE RestOfPacket]
    /\ UNCHANGED <<datagrams, rtsp>>

StartRtsp ==
    /\ Use("video") /\ rtsp.pc = "none"
    /\ RtspGoto([rtsp EXCEPT !.pc = "receive", !.loop = "starting"])
MainLoopRuns ==
    rtsp.loop = "starting" /\ RtspGoto([rtsp EXCEPT !.loop = "running"])

(* Push: the origin of the time stamps follows a camera that started again,  *)
(* and without a viewer only the newest keyframe is kept.                    *)
Origin(r, pts, key) ==
    IF ~r.haveInput \/ (key /\ pts < r.last) THEN pts ELSE r.origin
Stamp(r, pts, key) ==
    IF pts > Origin(r, pts, key) THEN pts - Origin(r, pts, key) ELSE 0
Push(r, serials) ==
    LET packet == [serials |-> serials, key |-> r.key, pts |-> Stamp(r, r.pts, r.key)]
        input == [r EXCEPT !.origin = Origin(r, r.pts, r.key), !.haveInput = TRUE, !.last = r.pts]
    IN  CASE r.source > 0 -> [input EXCEPT !.pushed = packet]
          [] r.source = 0 /\ r.key -> [input EXCEPT !.pending = packet]
          [] OTHER -> input

(* The fragments of any two datagrams are put together.                      *)
AnyFragments(d) == [rtsp EXCEPT !.frame = d.frame, !.expected = d.total, !.key = d.key,
                                !.pts = d.pts,
                                !.fragments = IF Len(@) = d.total THEN @
                                              ELSE [i \in 1..d.total |-> << >>]]
(* A datagram of another frame, or of one with another number of fragments,  *)
(* begins a new collection; what was incomplete is dropped.                  *)
Collection(d) ==
    IF d.frame # rtsp.frame \/ d.total # rtsp.expected
    THEN [rtsp EXCEPT !.frame = d.frame, !.expected = d.total, !.key = d.key, !.pts = d.pts,
                      !.fragments = [i \in 1..d.total |-> << >>]]
    ELSE rtsp

Receive ==
    /\ rtsp.pc = "receive" /\ ~rtsp.stopping /\ datagrams # << >>
    /\ LET d == Head(datagrams)
           filled == [Collection(d) EXCEPT !.fragments[d.index] = <<d.opens, d.serial>>]
       IN  rtsp' = IF \A i \in 1..d.total : filled.fragments[i] # << >>
                   THEN [Push(filled, {filled.fragments[i] : i \in 1..d.total})
                            EXCEPT !.expected = 0]
                   ELSE filled
    /\ datagrams' = Tail(datagrams) /\ UNCHANGED publisher

(* A viewer comes: the media is configured, in the place of one that may     *)
(* still be there, and the keyframe that waited is its first packet.  The    *)
(* last viewer leaves: the media is unprepared; a replaced one, to no effect. *)
MediaConfigure ==
    /\ Use("viewer") /\ rtsp.loop = "running" /\ rtsp.viewers < MaxViewers
    /\ RtspGoto([rtsp EXCEPT !.viewers = @ + 1, !.source = IF @ = 1 THEN 2 ELSE 1,
                             !.pushed = rtsp.pending, !.pending = NoPacket])
MediaUnprepared ==
    /\ rtsp.loop = "running" /\ rtsp.source > 0
    /\ RtspGoto([rtsp EXCEPT !.source = 0, !.pushed = NoPacket])

(* RtspServer::Stop closes the socket, which ends the receiver, and asks the *)
(* main loop to quit; a loop that does not run yet does not notice.          *)
RtspStop ==
    /\ Use("rtsp stop") /\ rtsp.pc # "none" /\ rtsp.stop = "none"
    /\ rtsp' = [rtsp EXCEPT !.stopping = TRUE, !.stop = "quit"]
    /\ datagrams' = << >> /\ UNCHANGED publisher
RtspQuits ==
    /\ rtsp.stop = "quit"
    /\ RtspGoto([rtsp EXCEPT !.stop = "join",
                             !.loop = IF @ = "running" THEN "ended" ELSE @])
ReceiverEnds ==
    rtsp.stopping /\ rtsp.pc = "receive" /\ RtspGoto([rtsp EXCEPT !.pc = "ended"])
RtspJoins ==
    /\ rtsp.stop = "join" /\ rtsp.pc = "ended" /\ rtsp.loop = "ended"
    /\ RtspGoto([rtsp EXCEPT !.stop = "returned", !.source = 0, !.pushed = NoPacket])

RtspSteps == MainLoopRuns \/ Receive \/ RtspQuits \/ ReceiverEnds \/ RtspJoins
VideoNext ==
    \/ OpenPublisher \/ SendFragment
    \/ \E rest \in BOOLEAN : FragmentLost(rest)
    \/ \E total \in 1..MaxFragments, key \in BOOLEAN : PublishPacket(total, key)
    \/ StartRtsp \/ RtspSteps \/ MediaConfigure \/ MediaUnprepared \/ RtspStop
VideoFairness == WF_videoVars(RtspSteps)

(* What a viewer's media is given is one packet of the encoder, whole; only  *)
(* datagrams of two openings of the publisher can be mixed, because the ids  *)
(* start again.  And it is given packets in the encoder's order, none twice, *)
(* with time stamps that do not go back while the publisher stays open; what *)
(* two mixed packets have of one packet between them is given in order too.  *)
Serials(packet) == {f[2] : f \in packet.serials}
Openings(packet) == {f[1] : f \in packet.serials}
Mixed(packet) == \E f, g \in packet.serials : f[1] # g[1]
VideoInOrder ==
    [][LET old == rtsp.pushed
           new == rtsp'.pushed
       IN  new # old /\ new # NoPacket =>
              /\ Mixed(new) \/ Cardinality(Serials(new)) = 1
              /\ rtsp'.source = rtsp.source =>
                    /\ \A s \in Serials(old), t \in Serials(new) :
                          s < t \/ (s = t /\ Mixed(old) /\ Mixed(new))
                    /\ Openings(new) = Openings(old) => old.pts <= new.pts]_rtsp

(* Stop returned, unless it asked a main loop to quit that did not run yet.  *)
MissedQuit == rtsp.stop = "join" /\ rtsp.loop # "ended"
VideoStopped == rtsp.stopping => rtsp.stop = "returned" \/ MissedQuit
=============================================================================
