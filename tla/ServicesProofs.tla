---------------------------- MODULE ServicesProofs ----------------------------
(***************************************************************************)
(* Proofs about the services beside the voice agent: Navigator's socket,   *)
(* the bridge to Nav2 and the recorder, for every value of their           *)
(* constants.                                                              *)
(***************************************************************************)
EXTENDS Services, FiniteSetTheorems, SequenceTheorems, TLAPS

-----------------------------------------------------------------------------
(* Navigator's socket.                                                     *)

SockPlaces == {"down", "start", "inspect", "probe", "unlink", "bind", "stat", "listen", "serve",
               "close", "remove", "release"}
NavigatorRecords == [pc : SockPlaces, file : Nat, ino : Inodes \cup {0}, listens : BOOLEAN]
SocketFiles == [id : Nat, ino : Inodes \cup {0}]
Pending == {"none", "connected", "sent", "executing", "abandoned"}
Finished == {"answered", "overdue", "cut", "refused", "returned"}
SocketRequests ==
    [pc : Pending \cup Finished, to : Navigators \cup {"nobody"}, files : Nat, executed : Nat]

SocketTypeOK ==
    /\ server \in [Navigators -> NavigatorRecords] /\ path \in SocketFiles
    /\ request \in SocketRequests

(* Whoever is past the lock holds it, and what it has bound stays its own  *)
(* until it lets the lock go.                                              *)
LockHeld == \A p \in Navigators : server[p].pc \notin {"down", "start"} => flock = p
PathKept ==
    \A p \in Navigators : server[p].pc \in {"stat", "listen", "serve"} =>
                            path.id = server[p].file /\ path.id # 0
ExecutedOnce ==
    /\ request.pc \in Pending => request.executed = 0
    /\ request.pc = "answered" => request.executed = 1

SocketInv == SocketTypeOK /\ LockHeld /\ PathKept /\ ExecutedOnce

LEMMA SocketBegins ==
    ASSUME SocketInit PROVE SocketInv
  <1>1. /\ server = [p \in Navigators |-> Closed] /\ path = NoFile
        /\ request = [pc |-> "none", to |-> "nobody", files |-> 0, executed |-> 0]
    BY DEF SocketInit
  <1>2. Closed \in NavigatorRecords /\ NoFile \in SocketFiles
    BY DEF Closed, NoFile, NavigatorRecords, SocketFiles, SockPlaces
  <1>3. SocketTypeOK
    BY <1>1, <1>2 DEF SocketTypeOK, SocketRequests, Pending
  <1>4. \A p \in Navigators : server[p].pc = "down"
    BY <1>1 DEF Closed
  <1> QED BY <1>1, <1>3, <1>4 DEF SocketInv, LockHeld, PathKept, ExecutedOnce, Pending

(* What one Navigator's step does to the others.                           *)
LEMMA OneMoves ==
    ASSUME SocketInv, NEW p \in Navigators, NEW r \in NavigatorRecords, SockStep(p, r)
    PROVE  /\ server' \in [Navigators -> NavigatorRecords] /\ server'[p] = r
           /\ \A q \in Navigators : q # p => server'[q] = server[q]
           /\ server[p] \in NavigatorRecords
  BY DEF SocketInv, SocketTypeOK, SockStep

(* A step of the lock's holder: nobody else has a file.                    *)
LEMMA HolderMoves ==
    ASSUME SocketInv, NEW p \in Navigators, NEW r \in NavigatorRecords, SockStep(p, r),
           server[p].pc \notin {"down", "start"}, flock' = flock, path' \in SocketFiles,
           r.pc \in {"stat", "listen", "serve"} => path'.id = r.file /\ path'.id # 0,
           request' \in SocketRequests,
           ExecutedOnce'
    PROVE  SocketInv'
  <1>1. /\ server' \in [Navigators -> NavigatorRecords] /\ server'[p] = r
        /\ \A q \in Navigators : q # p => server'[q] = server[q]
    BY OneMoves
  <1>2. flock = p /\ \A q \in Navigators : q # p => server[q].pc \in {"down", "start"}
    BY DEF SocketInv, LockHeld
  <1>3. SocketTypeOK'
    BY <1>1 DEF SocketTypeOK
  <1>4. LockHeld'
    <2> SUFFICES ASSUME NEW q \in Navigators, server'[q].pc \notin {"down", "start"}
                 PROVE  flock' = q
      BY DEF LockHeld
    <2>1. q = p
      BY <1>1, <1>2
    <2> QED BY <1>2, <2>1
  <1>5. PathKept'
    BY <1>1, <1>2 DEF PathKept
  <1> QED BY <1>3, <1>4, <1>5 DEF SocketInv

LEMMA NavigatorMoves ==
    ASSUME SocketInv, NEW p \in Navigators,
           \/ OpenInspect(p) \/ OpenProbe(p) \/ OpenUnlink(p)
           \/ \E ino \in Inodes : OpenBind(p, ino)
           \/ OpenStat(p) \/ OpenListen(p) \/ CloseRemove(p) \/ NavigatorEnds(p)
    PROVE  SocketInv'
  <1>1. /\ server[p] \in NavigatorRecords /\ path \in SocketFiles /\ NoFile \in SocketFiles
        /\ request \in SocketRequests
        /\ ExecutedOnce
        /\ (server[p].pc \in {"stat", "listen", "serve"} => path.id = server[p].file /\ path.id # 0)
    BY DEF SocketInv, SocketTypeOK, PathKept, NoFile, SocketFiles
  <1>2. ASSUME NEW c \in SockPlaces, SockGoto(p, c), server[p].pc \notin {"down", "start"},
               c \notin {"stat", "listen", "serve"}, flock' = flock, request' = request,
               path' \in SocketFiles
        PROVE  SocketInv'
    <2> DEFINE r == [server[p] EXCEPT !.pc = c]
    <2>1. r \in NavigatorRecords /\ r.pc = c /\ SockStep(p, r)
      BY <1>1, <1>2 DEF NavigatorRecords, SockGoto
    <2>2. ExecutedOnce'
      BY <1>1, <1>2 DEF ExecutedOnce
    <2> HIDE DEF r
    <2> QED BY <1>1, <1>2, <2>1, <2>2, HolderMoves
  <1>3. {"inspect", "bind", "probe", "close", "unlink", "release"} \subseteq SockPlaces
    BY DEF SockPlaces
  <1>4. CASE OpenInspect(p) \/ OpenProbe(p) \/ OpenUnlink(p) \/ CloseRemove(p) \/ NavigatorEnds(p)
    <2>1. /\ server[p].pc \notin {"down", "start"} /\ flock' = flock /\ request' = request
          /\ path' \in {path, NoFile}
      BY <1>4 DEF OpenInspect, OpenProbe, OpenUnlink, CloseRemove, NavigatorEnds, SockAt
    <2>2. \E c \in {"bind", "probe", "close", "unlink", "release"} : SockGoto(p, c)
      BY <1>4 DEF OpenInspect, OpenProbe, OpenUnlink, CloseRemove, NavigatorEnds
    <2> QED BY <1>1, <1>2, <1>3, <2>1, <2>2
  <1>5. ASSUME NEW ino \in Inodes, OpenBind(p, ino) PROVE SocketInv'
    <2>1. server[p].pc = "bind" /\ flock' = flock
      BY <1>5 DEF OpenBind, SockAt
    <2>2. CASE path # NoFile
      <3>1. SockGoto(p, "close") /\ path' = path /\ request' = request
        BY <1>5, <2>2 DEF OpenBind
      <3> QED BY <1>1, <1>2, <1>3, <2>1, <3>1
    <2>3. CASE path = NoFile
      <3> DEFINE n == request.files + 1
                 r == [server[p] EXCEPT !.pc = "stat", !.file = n]
      <3>1. path' = [id |-> n, ino |-> ino] /\ request' = [request EXCEPT !.files = n]
            /\ SockStep(p, r)
        BY <1>5, <2>3 DEF OpenBind
      <3>2. n \in Nat /\ n # 0
        BY <1>1 DEF SocketRequests
      <3> HIDE DEF n
      <3>3. r \in NavigatorRecords /\ r.pc = "stat" /\ r.file = n
        BY <1>1, <3>2 DEF NavigatorRecords, SockPlaces
      <3> HIDE DEF r
      <3>4. path' \in SocketFiles /\ path'.id = n
        BY <3>1, <3>2 DEF SocketFiles
      <3>5. request' \in SocketRequests
            /\ request'.pc = request.pc /\ request'.executed = request.executed
        BY <1>1, <3>1, <3>2 DEF SocketRequests
      <3>6. ExecutedOnce'
        BY <1>1, <3>5 DEF ExecutedOnce
      <3> QED BY <2>1, <3>1, <3>2, <3>3, <3>4, <3>5, <3>6, HolderMoves
    <2> QED BY <2>2, <2>3
  <1>6. CASE OpenStat(p)
    <2>1. server[p].pc = "stat" /\ path # NoFile /\ path' = path /\ flock' = flock
          /\ request' = request
      BY <1>1, <1>6 DEF OpenStat, SockAt, NoFile
    <2> DEFINE r == [server[p] EXCEPT !.pc = "listen", !.ino = path.ino]
    <2>2. SockStep(p, r)
      BY <1>6, <2>1 DEF OpenStat
    <2>3. r \in NavigatorRecords /\ r.file = server[p].file
      BY <1>1 DEF NavigatorRecords, SocketFiles, SockPlaces
    <2> HIDE DEF r
    <2>4. ExecutedOnce'
      BY <1>1, <2>1 DEF ExecutedOnce
    <2> QED BY <1>1, <2>1, <2>2, <2>3, <2>4, HolderMoves
  <1>7. CASE OpenListen(p)
    <2> DEFINE r == [server[p] EXCEPT !.pc = "serve", !.listens = TRUE]
    <2>1. server[p].pc = "listen" /\ SockStep(p, r) /\ path' = path /\ flock' = flock
          /\ request' = request
      BY <1>7 DEF OpenListen, SockAt
    <2>2. r \in NavigatorRecords /\ r.file = server[p].file
      BY <1>1 DEF NavigatorRecords, SockPlaces
    <2> HIDE DEF r
    <2>3. ExecutedOnce'
      BY <1>1, <2>1 DEF ExecutedOnce
    <2> QED BY <1>1, <2>1, <2>2, <2>3, HolderMoves
  <1> QED BY <1>4, <1>5, <1>6, <1>7

(* Steps at which a Navigator takes the lock or lets it go.                *)
LEMMA NavigatorComesAndGoes ==
    ASSUME SocketInv, NEW p \in Navigators,
           OpenLock(p) \/ CloseSocket(p) \/ CloseLock(p) \/ NavigatorStarts(p) \/ NavigatorKilled(p)
    PROVE  SocketInv'
  <1>1. /\ server[p] \in NavigatorRecords /\ path \in SocketFiles /\ Closed \in NavigatorRecords
        /\ request \in SocketRequests
        /\ ExecutedOnce /\ LockHeld /\ PathKept /\ Closed.pc = "down" /\ p # "nobody"
    BY SocketAssumption
       DEF SocketInv, SocketTypeOK, Closed, NavigatorRecords, SockPlaces
  <1>2. path' = path
    BY DEF OpenLock, CloseSocket, CloseLock, NavigatorStarts, NavigatorKilled
  <1>3. ASSUME NEW q \in {"cut"},
               request' = [request EXCEPT !.pc = q, !.to = "nobody"] \/ request' = request
        PROVE  /\ request' \in SocketRequests
               /\ ExecutedOnce'
    BY <1>1, <1>3 DEF ExecutedOnce, SocketRequests, Pending, Finished
  <1>4. /\ request' \in SocketRequests
        /\ ExecutedOnce'
    BY <1>3 DEF OpenLock, CloseSocket, CloseLock, NavigatorStarts, NavigatorKilled
  <1>5. CASE CloseSocket(p)
    <2> DEFINE r == [server[p] EXCEPT !.pc = "remove", !.listens = FALSE]
    <2>1. server[p].pc = "close" /\ SockStep(p, r) /\ flock' = flock
      BY <1>5 DEF CloseSocket, SockAt
    <2>2. r \in NavigatorRecords /\ r.pc = "remove"
      BY <1>1 DEF NavigatorRecords, SockPlaces
    <2> HIDE DEF r
    <2> QED BY <1>1, <1>2, <1>4, <2>1, <2>2, HolderMoves
  <1>6. CASE ~CloseSocket(p)
    <2>1. PICK r \in NavigatorRecords :
            /\ SockStep(p, r)
            /\ \/ flock = "nobody" /\ flock' = p /\ r.pc = "inspect"
               \/ flock' = flock /\ r.pc \in {"down", "start"} /\ server[p].pc \in {"down", "start"}
               \/ flock = p /\ flock' = "nobody" /\ r.pc = "down"
               \/ flock # p /\ flock' = flock /\ r.pc = "down"
      <3>1. ASSUME NEW c \in SockPlaces, SockGoto(p, c)
            PROVE  \E r \in NavigatorRecords : SockStep(p, r) /\ r.pc = c
        <4> DEFINE r == [server[p] EXCEPT !.pc = c]
        <4>1. r \in NavigatorRecords /\ r.pc = c
          BY <1>1 DEF NavigatorRecords
        <4>2. SockStep(p, r)
          BY <3>1 DEF SockGoto
        <4> HIDE DEF r
        <4> QED BY <4>1, <4>2
      <3>2. {"inspect", "down", "start"} \subseteq SockPlaces
        BY DEF SockPlaces
      <3>3. CASE OpenLock(p)
        <4>1. server[p].pc = "start"
              /\ \/ flock = "nobody" /\ flock' = p /\ SockGoto(p, "inspect")
                 \/ flock' = flock /\ SockGoto(p, "down")
          BY <3>3 DEF OpenLock, SockAt
        <4> QED BY <3>1, <3>2, <4>1
      <3>4. CASE NavigatorStarts(p)
        <4>1. server[p].pc = "down" /\ flock' = flock /\ SockGoto(p, "start")
          BY <3>4 DEF NavigatorStarts, SockAt
        <4> QED BY <3>1, <3>2, <4>1
      <3>5. CASE CloseLock(p) \/ NavigatorKilled(p)
        <4>1. SockStep(p, Closed) /\ flock' = IF flock = p THEN "nobody" ELSE flock
          BY <3>5 DEF CloseLock, NavigatorKilled
        <4> QED BY <1>1, <4>1
      <3> QED BY <1>6, <3>3, <3>4, <3>5
    <2>2. /\ server' \in [Navigators -> NavigatorRecords] /\ server'[p] = r
          /\ \A q \in Navigators : q # p => server'[q] = server[q]
      BY <2>1, OneMoves
    <2>3. SocketTypeOK'
      BY <1>1, <1>2, <1>4, <2>2 DEF SocketTypeOK
    <2>4. LockHeld'
      <3> SUFFICES ASSUME NEW q \in Navigators, server'[q].pc \notin {"down", "start"}
                   PROVE  flock' = q
        BY DEF LockHeld
      <3>1. CASE q = p
        BY <2>1, <2>2, <3>1
      <3>2. CASE q # p
        <4>1. flock = q /\ q # "nobody"
          BY <1>1, <2>2, <3>2, SocketAssumption DEF LockHeld
        <4> QED BY <2>1, <3>2, <4>1
      <3> QED BY <3>1, <3>2
    <2>5. PathKept'
      BY <1>1, <1>2, <2>1, <2>2 DEF PathKept
    <2> QED BY <1>4, <2>3, <2>4, <2>5 DEF SocketInv
  <1> QED BY <1>5, <1>6

LEMMA RequestMoves ==
    ASSUME SocketInv,
           \/ ClientConnects \/ ClientSends \/ ServerGivesUp \/ ServerReads \/ ServerReplies
           \/ ClientTimesOut \/ ClientReturns
    PROVE  SocketInv'
  <1>1. request \in SocketRequests /\ ExecutedOnce
    BY DEF SocketInv, SocketTypeOK
  <1>2. server' = server /\ path' = path /\ flock' = flock
    BY DEF ClientConnects, ClientSends, ServerGivesUp, ServerReads, ServerReplies, ClientTimesOut,
           ClientReturns, RequestGoto
  <1>3. request' \in SocketRequests /\ ExecutedOnce'
    <2>1. ASSUME NEW c \in Pending \cup Finished, NEW q \in Navigators \cup {"nobody"},
                 NEW n \in Nat, request' = [request EXCEPT !.pc = c, !.to = q, !.executed = n],
                 c \in Pending => n = 0, c = "answered" => n = 1
          PROVE  request' \in SocketRequests /\ ExecutedOnce'
      <3>1. request' \in SocketRequests /\ request'.pc = c /\ request'.executed = n
        BY <1>1, <2>1 DEF SocketRequests
      <3> QED BY <2>1, <3>1 DEF ExecutedOnce
    <2>2. ASSUME NEW c \in Pending \cup Finished, request' = [request EXCEPT !.pc = c],
                 c \in Pending => request.pc \in Pending, c # "answered"
          PROVE  request' \in SocketRequests /\ ExecutedOnce'
      <3>1. /\ request' = [request EXCEPT !.pc = c, !.to = request.to,
                                          !.executed = request.executed]
            /\ request.to \in Navigators \cup {"nobody"} /\ request.executed \in Nat
        BY <1>1, <2>2 DEF SocketRequests
      <3>2. c \in Pending => request.executed = 0
        BY <1>1, <2>2 DEF ExecutedOnce
      <3> QED BY <2>1, <2>2, <3>1, <3>2
    <2>3. CASE ClientConnects
      <3>1. CASE Listener = {}
        <4>1. request' = [request EXCEPT !.pc = "refused"] /\ "refused" \in Finished
              /\ "refused" \notin Pending
          BY <2>3, <3>1 DEF ClientConnects, RequestGoto, Pending, Finished
        <4> QED BY <2>2, <4>1
      <3>2. CASE Listener # {}
        <4> DEFINE q == CHOOSE x \in Listener : TRUE
        <4>1. q \in Navigators
          BY <3>2 DEF Listener
        <4>2. request' = [request EXCEPT !.pc = "connected", !.to = q] /\ request.pc \in Pending
          BY <2>3, <3>2 DEF ClientConnects, RequestGoto, Pending
        <4> HIDE DEF q
        <4>3. request.executed = 0
          BY <1>1, <4>2 DEF ExecutedOnce
        <4>4. request' = [request EXCEPT !.pc = "connected", !.to = q, !.executed = 0]
          BY <1>1, <4>2, <4>3 DEF SocketRequests
        <4>5. "connected" \in Pending /\ "connected" # "answered"
          BY DEF Pending
        <4>6. "connected" \in Pending \cup Finished /\ q \in Navigators \cup {"nobody"} /\ 0 \in Nat
          BY <4>1, <4>5
        <4> QED BY <2>1, <4>4, <4>5, <4>6
      <3> QED BY <3>1, <3>2
    <2>4. CASE ClientSends \/ ServerReads \/ ClientTimesOut \/ ClientReturns
      <3>1. \E c \in {"sent", "executing", "abandoned", "returned"} :
              /\ request' = [request EXCEPT !.pc = c]
              /\ c # "returned" => request.pc \in Pending
        BY <2>4 DEF ClientSends, ServerReads, ClientTimesOut, ClientReturns, RequestGoto, Pending
      <3>2. /\ {"sent", "executing", "abandoned", "returned"} \subseteq Pending \cup Finished
            /\ "returned" \notin Pending
        BY DEF Pending, Finished
      <3>3. PICK c \in {"sent", "executing", "abandoned", "returned"} :
              /\ request' = [request EXCEPT !.pc = c]
              /\ c # "returned" => request.pc \in Pending
        BY <3>1
      <3>4. c \in Pending \cup Finished /\ c # "answered" /\ (c \in Pending => request.pc \in Pending)
        BY <3>2, <3>3
      <3> QED BY <2>2, <3>3, <3>4
    <2>5. CASE ServerGivesUp
      <3>1. request' = [request EXCEPT !.pc = "cut", !.to = "nobody"] /\ request.pc \in Pending
        BY <2>5 DEF ServerGivesUp, RequestGoto, Pending
      <3>2. request.executed = 0
        BY <1>1, <3>1 DEF ExecutedOnce
      <3>3. request' = [request EXCEPT !.pc = "cut", !.to = "nobody", !.executed = 0]
        BY <1>1, <3>1, <3>2 DEF SocketRequests
      <3>4. "cut" \in Pending \cup Finished /\ "cut" \notin Pending /\ "cut" # "answered"
        BY DEF Pending, Finished
      <3>5. "nobody" \in Navigators \cup {"nobody"} /\ 0 \in Nat
        OBVIOUS
      <3> QED BY <2>1, <3>3, <3>4, <3>5
    <2>6. CASE ServerReplies
      <3>1. PICK c \in {"answered", "overdue"} :
              /\ request' = [request EXCEPT !.pc = c, !.executed = request.executed + 1,
                                            !.to = "nobody"]
              /\ request.pc \in Pending
        BY <2>6 DEF ServerReplies, RequestGoto, Pending
      <3>2. request.executed + 1 = 1
        BY <1>1, <3>1 DEF ExecutedOnce
      <3>3. request' = [request EXCEPT !.pc = c, !.to = "nobody", !.executed = 1]
        BY <1>1, <3>1, <3>2 DEF SocketRequests
      <3>4. c \in Finished /\ c \notin Pending
        BY DEF Finished, Pending
      <3>5. "nobody" \in Navigators \cup {"nobody"} /\ 1 \in Nat
        OBVIOUS
      <3> QED BY <2>1, <3>3, <3>4, <3>5
    <2> QED BY <2>3, <2>4, <2>5, <2>6
  <1>4. SocketTypeOK' /\ LockHeld' /\ PathKept'
    BY <1>2, <1>3 DEF SocketInv, SocketTypeOK, LockHeld, PathKept
  <1> QED BY <1>3, <1>4 DEF SocketInv

LEMMA SocketStep ==
    ASSUME SocketInv, SocketNext
    PROVE  SocketInv'
  <1>1. ASSUME NEW p \in Navigators,
               \/ OpenLock(p) \/ OpenInspect(p) \/ OpenProbe(p) \/ OpenUnlink(p)
               \/ \E ino \in Inodes : OpenBind(p, ino)
               \/ OpenStat(p) \/ OpenListen(p) \/ CloseSocket(p) \/ CloseRemove(p) \/ CloseLock(p)
               \/ NavigatorStarts(p) \/ NavigatorEnds(p) \/ NavigatorKilled(p)
        PROVE  SocketInv'
    BY <1>1, NavigatorMoves, NavigatorComesAndGoes
  <1> QED BY <1>1, RequestMoves DEF SocketNext

LEMMA SocketUntouched ==
    ASSUME SocketInv, UNCHANGED socketVars
    PROVE  SocketInv'
  BY DEF SocketInv, SocketTypeOK, LockHeld, PathKept, ExecutedOnce, socketVars

-----------------------------------------------------------------------------
(* The bridge to Nav2.                                                     *)

NavPlaces == {"idle", "refresh", "act", "expire", "expireAnswer", "answer", "expireEnd", "end",
              "wait", "late"}
Sending == {"wait", "late"}
Going == {"asked", "live"}
BridgeRecords ==
    [st : {"idle", "disconnected", "accepted", "executing", "cancelled", "failed", "succeeded",
           "rejected", "timedOut"},
     goal : Nat, since : {"no", "yes", "expired"}, asked : BOOLEAN, pc : NavPlaces,
     op : {"none", "submit", "cancel", "get"}, arg : Nat]
ProviderRecords ==
    [st : {"idle", "disconnected", "accepted", "executing", "cancelled", "failed", "succeeded",
           "rejected"},
     goal : Nat, gen : 0 .. MaxGoals, ack : BOOLEAN, cancelling : BOOLEAN, handle : 0 .. MaxGoals,
     overtaken : BOOLEAN, phase : [Goals -> {"none", "asked", "live", "ended"}],
     answer : [Goals -> {"none", "handle", "null"}], callback : [Goals -> BOOLEAN],
     result : [Goals -> {"none", "taken", "succeeded", "cancelled", "failed"}],
     ending : SUBSET (0 .. MaxGoals), call : {"none", "asked", "yes", "no"},
     auto : {"none", "asked", "yes", "no"}, about : 0 .. MaxGoals]

(* What is known of a goal from how far it has come.                       *)
GoalsMove(n) ==
    \A g \in Goals :
        /\ g > n.gen => n.phase[g] = "none"
        /\ n.phase[g] \in {"none", "asked"} <=> n.answer[g] = "none"
        /\ n.answer[g] = "none" => ~n.callback[g]
        /\ n.answer[g] = "null" => n.phase[g] = "ended"
        /\ n.result[g] # "none" => n.phase[g] = "ended"

(* An acknowledgement that is pending can still come.                      *)
Awaited(n) ==
    n.ack => /\ n.gen \in Goals /\ n.st \in {"accepted", "disconnected"}
             /\ n.phase[n.gen] = "asked" \/ n.callback[n.gen]

(* Whatever Nav2 still has is the last goal sent, and the provider refuses *)
(* another one.                                                            *)
OneGoes(n) ==
    ~n.overtaken => \A g \in Goals : n.phase[g] \in Going => g = n.gen /\ Guarded(n)

ProviderInv(n) == n \in ProviderRecords /\ GoalsMove(n) /\ Awaited(n) /\ OneGoes(n)

(* Between two submissions the bridge knows of the goal that the provider  *)
(* thinks active.                                                          *)
BridgeKnows(b, n) ==
    /\ b.pc \in Sending => n.gen \in Goals
    /\ b.pc \notin Sending => (n.ack => n.st = "disconnected")
    /\ b.pc \notin Sending /\ Active(n.st) => Active(b.st) /\ b.goal = n.goal
    /\ b.op = "submit" /\ b.pc \notin {"idle", "wait", "late"} => n.gen < MaxGoals

NavInv == brg \in BridgeRecords /\ ProviderInv(nav) /\ BridgeKnows(brg, nav)

LEMMA NavBegins ==
    ASSUME NavInit PROVE NavInv
  <1>1. brg \in BridgeRecords
    BY DEF NavInit, BridgeRecords, NavPlaces
  <1>2. nav \in ProviderRecords
    BY NavAssumption DEF NavInit, ProviderRecords
  <1>3. GoalsMove(nav) /\ Awaited(nav) /\ OneGoes(nav) /\ BridgeKnows(brg, nav)
    BY DEF NavInit, GoalsMove, Awaited, OneGoes, BridgeKnows, Going, Sending, Active
  <1> QED BY <1>1, <1>2, <1>3 DEF NavInv, ProviderInv

(* What a step of the provider, of its executor or of Nav2 may change      *)
(* without the bridge's taking part.                                       *)
Calm(n, m) ==
    /\ ProviderInv(m) /\ m.gen = n.gen
    /\ m.ack => n.ack /\ (n.st = "disconnected" => m.st = "disconnected")
    /\ Active(m.st) => Active(n.st) /\ m.goal = n.goal

LEMMA BridgeStays ==
    ASSUME NEW b, NEW n, NEW m, BridgeKnows(b, n), Calm(n, m)
    PROVE  BridgeKnows(b, m)
  BY DEF BridgeKnows, Calm

SameGoals(n, m) ==
    /\ m.phase = n.phase /\ m.answer = n.answer /\ m.callback = n.callback /\ m.result = n.result
    /\ m.gen = n.gen /\ m.overtaken = n.overtaken

LEMMA QuietStep ==
    ASSUME NEW n, NEW m, ProviderInv(n), m \in ProviderRecords, SameGoals(n, m),
           m.ack => n.ack /\ m.st \in {n.st, "disconnected"},
           Active(m.st) => Active(n.st) /\ m.goal = n.goal,
           n.gen \in Goals /\ n.phase[n.gen] \in Going /\ Guarded(n) => Guarded(m)
    PROVE  Calm(n, m)
  <1>1. GoalsMove(m)
    BY DEF ProviderInv, GoalsMove, SameGoals
  <1>2. Awaited(m)
    BY DEF ProviderInv, Awaited, SameGoals
  <1>3. OneGoes(m)
    BY DEF ProviderInv, OneGoes, SameGoals
  <1> QED BY <1>1, <1>2, <1>3 DEF Calm, ProviderInv, SameGoals

LEMMA CalmTwice ==
    ASSUME NEW n, NEW m, NEW k, Calm(n, m), Calm(m, k)
    PROVE  Calm(n, k)
  BY DEF Calm

LEMMA CalmStays ==
    ASSUME NEW n, ProviderInv(n) PROVE Calm(n, n)
  BY DEF Calm

LEMMA AckResolved ==
    ASSUME NEW n, ProviderInv(n)
    PROVE  Calm(n, ResolvePendingAck(n))
  <1>1. n \in ProviderRecords /\ GoalsMove(n) /\ Awaited(n)
    BY DEF ProviderInv
  <1>2. CASE ~n.ack \/ n.answer[n.gen] = "none"
    BY <1>2, CalmStays DEF ResolvePendingAck
  <1>3. CASE n.ack /\ n.answer[n.gen] = "null"
    <2> DEFINE m == [n EXCEPT !.ack = FALSE, !.st = "rejected"]
    <2>1. ResolvePendingAck(n) = m
      BY <1>3 DEF ResolvePendingAck
    <2>2. m \in ProviderRecords /\ SameGoals(n, m) /\ ~m.ack /\ m.st = "rejected"
      BY <1>1 DEF ProviderRecords, SameGoals
    <2> HIDE DEF m
    <2>3. n.gen \in Goals => n.phase[n.gen] \notin Going
      BY <1>1, <1>3 DEF GoalsMove, Going
    <2> QED BY <2>1, <2>2, <2>3, QuietStep DEF Active
  <1>4. CASE n.ack /\ n.answer[n.gen] \notin {"none", "null"}
    <2> DEFINE m == [n EXCEPT !.ack = FALSE, !.handle = n.gen, !.cancelling = TRUE,
                              !.auto = "asked", !.st = "disconnected"]
    <2>1. ResolvePendingAck(n) = m
      BY <1>4 DEF ResolvePendingAck
    <2>2. m \in ProviderRecords /\ SameGoals(n, m) /\ ~m.ack /\ m.st = "disconnected" /\ m.cancelling
      BY <1>1 DEF ProviderRecords, SameGoals
    <2> HIDE DEF m
    <2> QED BY <2>1, <2>2, QuietStep DEF Active, Guarded
  <1> QED BY <1>2, <1>3, <1>4

LEMMA AutoCancelSeen ==
    ASSUME NEW n, ProviderInv(n)
    PROVE  Calm(n, AutoCancelAnswered(n))
  <1>1. n \in ProviderRecords
    BY DEF ProviderInv
  <1>2. CASE ~n.cancelling \/ n.auto \notin {"yes", "no"}
    BY <1>2, CalmStays DEF AutoCancelAnswered
  <1>3. CASE n.cancelling /\ n.auto \in {"yes", "no"}
    <2> DEFINE s == IF n.auto = "no" THEN "disconnected" ELSE n.st
               m == [n EXCEPT !.auto = "none", !.st = s]
    <2>1. AutoCancelAnswered(n) = m
      BY <1>3 DEF AutoCancelAnswered
    <2>2. s \in {n.st, "disconnected"}
      OBVIOUS
    <2> HIDE DEF s
    <2>3. m \in ProviderRecords /\ SameGoals(n, m) /\ m.ack = n.ack /\ m.st = s /\ m.cancelling
          /\ m.goal = n.goal
      BY <1>1, <1>3, <2>2 DEF ProviderRecords, SameGoals
    <2> HIDE DEF m
    <2> QED BY <2>1, <2>2, <2>3, QuietStep DEF Active, Guarded
  <1> QED BY <1>2, <1>3

LEMMA ServerChecked ==
    ASSUME NEW n, NEW ready, ProviderInv(n)
    PROVE  Calm(n, ServerSeen(n, ready))
  <1>1. n \in ProviderRecords
    BY DEF ProviderInv
  <1>2. CASE ServerSeen(n, ready) = n
    BY <1>2, CalmStays
  <1>3. CASE ServerSeen(n, ready) # n
    <2>1. ~n.ack /\ ~n.cancelling /\ ~Active(n.st)
      BY <1>3 DEF ServerSeen, Active
    <2>2. CASE ServerSeen(n, ready) = [n EXCEPT !.st = "disconnected"]
      <3> DEFINE m == [n EXCEPT !.st = "disconnected"]
      <3>1. m \in ProviderRecords /\ SameGoals(n, m) /\ ~m.ack /\ m.st = "disconnected"
        BY <1>1, <2>1 DEF ProviderRecords, SameGoals
      <3> HIDE DEF m
      <3>2. ServerSeen(n, ready) = m
        BY <2>2 DEF m
      <3> QED BY <2>1, <3>1, <3>2, QuietStep DEF Active, Guarded
    <2>3. CASE ServerSeen(n, ready) = [n EXCEPT !.st = "idle", !.goal = 0]
      <3> DEFINE m == [n EXCEPT !.st = "idle", !.goal = 0]
      <3>1. m \in ProviderRecords /\ SameGoals(n, m) /\ ~m.ack /\ m.st = "idle"
        BY <1>1, <2>1 DEF ProviderRecords, SameGoals
      <3> HIDE DEF m
      <3>2. ServerSeen(n, ready) = m
        BY <2>3 DEF m
      <3> QED BY <2>1, <3>1, <3>2, QuietStep DEF Active, Guarded
    <2> QED BY <1>3, <2>2, <2>3 DEF ServerSeen
  <1> QED BY <1>2, <1>3

LEMMA StatusRead ==
    ASSUME NEW n, NEW ready, ProviderInv(n)
    PROVE  Calm(n, ProviderStatus(n, ready))
  <1> DEFINE a == ResolvePendingAck(n)
             c == AutoCancelAnswered(a)
  <1>1. Calm(n, a)
    BY AckResolved
  <1>2. Calm(a, c)
    BY <1>1, AutoCancelSeen DEF Calm
  <1>3. Calm(c, ServerSeen(c, ready))
    BY <1>2, ServerChecked DEF Calm
  <1>4. ProviderStatus(n, ready) = ServerSeen(c, ready)
    BY DEF ProviderStatus
  <1> HIDE DEF a, c
  <1> QED BY <1>1, <1>2, <1>3, <1>4, CalmTwice

LEMMA GoalAnswered ==
    ASSUME NEW n, NEW g \in Goals, ProviderInv(n), n.answer[g] # "none"
    PROVE  Calm(n, HandleGoalResponse(n, g)) /\ (g = n.gen => ~HandleGoalResponse(n, g).ack)
           /\ SameGoals(n, HandleGoalResponse(n, g))
  <1>1. n \in ProviderRecords /\ GoalsMove(n) /\ Awaited(n)
    BY DEF ProviderInv
  <1>2. CASE g # n.gen
    BY <1>2, CalmStays DEF HandleGoalResponse, SameGoals
  <1>3. CASE g = n.gen /\ n.answer[g] = "null"
    <2> DEFINE m == [n EXCEPT !.ack = FALSE, !.st = "rejected"]
    <2>1. HandleGoalResponse(n, g) = m
      BY <1>3 DEF HandleGoalResponse
    <2>2. m \in ProviderRecords /\ SameGoals(n, m) /\ ~m.ack /\ m.st = "rejected"
      BY <1>1 DEF ProviderRecords, SameGoals
    <2> HIDE DEF m
    <2>3. n.phase[n.gen] \notin Going
      BY <1>1, <1>3 DEF GoalsMove, Going
    <2> QED BY <2>1, <2>2, <2>3, QuietStep DEF Active
  <1>4. CASE g = n.gen /\ n.answer[g] # "null" /\ n.st = "disconnected"
    <2> DEFINE m == [n EXCEPT !.ack = FALSE, !.handle = g, !.cancelling = TRUE, !.auto = "asked"]
    <2>1. HandleGoalResponse(n, g) = m
      BY <1>4 DEF HandleGoalResponse
    <2>2. m \in ProviderRecords /\ SameGoals(n, m) /\ ~m.ack /\ m.st = "disconnected" /\ m.cancelling
      BY <1>1, <1>4 DEF ProviderRecords, SameGoals
    <2> HIDE DEF m
    <2> QED BY <2>1, <2>2, QuietStep DEF Active, Guarded
  <1>5. CASE g = n.gen /\ n.answer[g] # "null" /\ n.st # "disconnected"
    <2> DEFINE m == [n EXCEPT !.ack = FALSE, !.handle = g]
    <2>1. HandleGoalResponse(n, g) = m
      BY <1>5 DEF HandleGoalResponse
    <2>2. m \in ProviderRecords /\ SameGoals(n, m) /\ ~m.ack /\ m.st = n.st /\ m.goal = n.goal
          /\ m.cancelling = n.cancelling
      BY <1>1, <1>5 DEF ProviderRecords, SameGoals
    <2> HIDE DEF m
    <2>3. n.ack => Active(n.st)
      BY <1>1, <1>5 DEF Awaited, Active
    <2>4. Guarded(n) => Guarded(m)
      BY <2>2, <2>3 DEF Guarded
    <2> QED BY <2>1, <2>2, <2>4, QuietStep
  <1> QED BY <1>2, <1>3, <1>4, <1>5

(* The executor thread and Nav2: calm steps, all of them.                  *)
LEMMA ExecutorMoves ==
    ASSUME NavInv, NEW g \in Goals, GoalResponse(g) \/ Feedback(g) \/ ResultArrives(g)
    PROVE  NavInv'
  <1>1. /\ brg' = brg /\ brg \in BridgeRecords /\ BridgeKnows(brg, nav) /\ ProviderInv(nav)
        /\ nav \in ProviderRecords /\ GoalsMove(nav) /\ Awaited(nav) /\ OneGoes(nav)
    BY DEF NavInv, ProviderInv, GoalResponse, Feedback, ResultArrives
  <1>2. SUFFICES Calm(nav, nav')
    BY <1>1, <1>2, BridgeStays DEF NavInv, Calm
  <1>3. CASE GoalResponse(g)
    <2> DEFINE h == HandleGoalResponse(nav, g)
               m == [h EXCEPT !.callback[g] = FALSE]
    <2>1. nav.callback[g] /\ nav' = m
      BY <1>3 DEF GoalResponse
    <2>2. Calm(nav, h) /\ (g = nav.gen => ~h.ack) /\ SameGoals(nav, h)
      BY <1>1, <2>1, GoalAnswered DEF GoalsMove
    <2> HIDE DEF h
    <2>3. ProviderInv(h) /\ h \in ProviderRecords /\ h.gen = nav.gen
      BY <2>2 DEF Calm, ProviderInv
    <2>4. /\ m \in ProviderRecords
          /\ m.callback = [h.callback EXCEPT ![g] = FALSE] /\ m.phase = h.phase /\ m.gen = h.gen
          /\ m.answer = h.answer /\ m.result = h.result /\ m.overtaken = h.overtaken
          /\ m.ack = h.ack /\ m.st = h.st /\ m.goal = h.goal /\ m.cancelling = h.cancelling
      BY <2>3 DEF ProviderRecords
    <2>5. h.callback \in [Goals -> BOOLEAN]
      BY <2>3 DEF ProviderRecords
    <2> HIDE DEF m
    <2>6. GoalsMove(m)
      BY <2>3, <2>4, <2>5 DEF ProviderInv, GoalsMove
    <2>7. Awaited(m)
      BY <2>2, <2>3, <2>4, <2>5 DEF ProviderInv, Awaited
    <2>8. OneGoes(m)
      BY <2>3, <2>4 DEF ProviderInv, OneGoes, Guarded
    <2> QED BY <2>1, <2>2, <2>4, <2>6, <2>7, <2>8 DEF Calm, ProviderInv
  <1>4. CASE Feedback(g)
    <2> DEFINE m == [nav EXCEPT !.st = "executing"]
    <2>1. /\ nav.phase[g] = "live" /\ ~nav.callback[g] /\ g = nav.gen /\ Active(nav.st)
          /\ nav' = m
      BY <1>4 DEF Feedback
    <2>2. ~nav.ack
      BY <1>1, <2>1 DEF Awaited
    <2>3. m \in ProviderRecords /\ SameGoals(nav, m) /\ ~m.ack /\ m.st = "executing" /\ m.goal = nav.goal
      BY <1>1, <2>2 DEF ProviderRecords, SameGoals
    <2> HIDE DEF m
    <2> QED BY <1>1, <2>1, <2>3, QuietStep DEF Active, Guarded
  <1>5. CASE ResultArrives(g)
    <2> DEFINE n == [nav EXCEPT !.result[g] = "taken"]
               r == nav.result[g]
               e == [n EXCEPT !.cancelling = FALSE, !.auto = "none", !.st = r, !.handle = 0]
    <2>1. /\ nav.result[g] \notin {"none", "taken"} /\ ~nav.callback[g]
          /\ nav' = IF g # nav.gen THEN n ELSE e
      BY <1>5 DEF ResultArrives
    <2>2. nav.phase[g] = "ended" /\ nav.result \in [Goals -> {"none", "taken", "succeeded",
                                                              "cancelled", "failed"}]
      BY <1>1, <2>1 DEF GoalsMove, ProviderRecords
    <2>3. n \in ProviderRecords
      BY <1>1 DEF ProviderRecords
    <2>4. /\ n.result = [nav.result EXCEPT ![g] = "taken"] /\ n.phase = nav.phase
          /\ n.answer = nav.answer /\ n.callback = nav.callback /\ n.gen = nav.gen
          /\ n.overtaken = nav.overtaken /\ n.ack = nav.ack /\ n.st = nav.st /\ n.goal = nav.goal
          /\ n.cancelling = nav.cancelling
      BY <1>1 DEF ProviderRecords
    <2> HIDE DEF n
    <2>5. GoalsMove(n)
      BY <1>1, <2>2, <2>4 DEF GoalsMove
    <2>6. Awaited(n) /\ OneGoes(n)
      BY <1>1, <2>4 DEF Awaited, OneGoes, Guarded
    <2>7. Calm(nav, n)
      BY <2>3, <2>4, <2>5, <2>6 DEF Calm, ProviderInv
    <2>8. ASSUME g = nav.gen PROVE Calm(n, e)
      <3>1. r \in {"succeeded", "cancelled", "failed"}
        BY <2>1, <2>2
      <3> HIDE DEF r
      <3>2. ~n.ack
        BY <1>1, <2>1, <2>2, <2>4, <2>8 DEF Awaited
      <3>3. e \in ProviderRecords
        <4>1. 0 \in 0 .. MaxGoals
          BY NavAssumption
        <4>2. r \in {"idle", "disconnected", "accepted", "executing", "cancelled", "failed",
                     "succeeded", "rejected"}
          BY <3>1
        <4> DEFINE m == [n EXCEPT !.cancelling = FALSE, !.auto = "none", !.st = r]
        <4>3. m \in ProviderRecords
          BY <2>3, <4>2 DEF ProviderRecords
        <4>4. e = [m EXCEPT !.handle = 0]
          OBVIOUS
        <4> HIDE DEF m, e
        <4> QED BY <4>1, <4>3, <4>4 DEF ProviderRecords
      <3>4. SameGoals(n, e) /\ e.ack = n.ack /\ e.st = r
        BY <2>3 DEF ProviderRecords, SameGoals
      <3> HIDE DEF e
      <3>5. n.phase[n.gen] \notin Going
        BY <2>2, <2>4, <2>8 DEF Going
      <3>6. ProviderInv(n)
        BY <2>3, <2>5, <2>6 DEF ProviderInv
      <3> QED BY <3>1, <3>2, <3>3, <3>4, <3>5, <3>6, QuietStep DEF Active
    <2> HIDE DEF e
    <2> QED BY <2>1, <2>7, <2>8, CalmTwice
  <1> QED BY <1>3, <1>4, <1>5

LEMMA Nav2Moves ==
    ASSUME NavInv,
           \/ \E ok \in BOOLEAN : NavCancels(ok) \/ \E g \in Goals : NavAnswers(g, ok)
           \/ \E g \in Goals, how \in {"succeeded", "cancelled", "failed"} : NavEnds(g, how)
    PROVE  NavInv'
  <1>1. /\ brg' = brg /\ brg \in BridgeRecords /\ BridgeKnows(brg, nav) /\ ProviderInv(nav)
        /\ nav \in ProviderRecords /\ GoalsMove(nav) /\ Awaited(nav) /\ OneGoes(nav)
    BY DEF NavInv, ProviderInv, NavCancels, NavAnswers, NavEnds
  <1>2. SUFFICES Calm(nav, nav')
    BY <1>1, <1>2, BridgeStays DEF NavInv, Calm
  <1>3. /\ nav.phase \in [Goals -> {"none", "asked", "live", "ended"}]
        /\ nav.answer \in [Goals -> {"none", "handle", "null"}]
        /\ nav.callback \in [Goals -> BOOLEAN] /\ nav.gen \in 0 .. MaxGoals
        /\ nav.result \in [Goals -> {"none", "taken", "succeeded", "cancelled", "failed"}]
    BY <1>1 DEF ProviderRecords
  <1>4. ASSUME NEW ok \in BOOLEAN, NavCancels(ok) PROVE Calm(nav, nav')
    <2>1. CASE nav.call = "asked" /\ nav' = [nav EXCEPT !.call = IF ok THEN "yes" ELSE "no",
                                !.ending = IF ok THEN @ \cup {nav.about} ELSE @]
      <3> DEFINE c == IF ok THEN "yes" ELSE "no"
                 d == IF ok THEN nav.ending \cup {nav.about} ELSE nav.ending
                 m == [nav EXCEPT !.call = c, !.ending = d]
      <3>1. nav' = m
        BY <2>1
      <3>2. c \in {"yes", "no"} /\ d \in SUBSET (0 .. MaxGoals)
        BY <1>1 DEF ProviderRecords
      <3> HIDE DEF c, d
      <3>3. m \in ProviderRecords /\ SameGoals(nav, m) /\ m.ack = nav.ack /\ m.st = nav.st
            /\ m.goal = nav.goal /\ m.cancelling = nav.cancelling
        BY <1>1, <3>2 DEF ProviderRecords, SameGoals
      <3> HIDE DEF m
      <3> QED BY <1>1, <3>1, <3>3, QuietStep DEF Guarded
    <2>2. CASE nav.auto = "asked" /\ nav' = [nav EXCEPT !.auto = IF ok THEN "yes" ELSE "no",
                                !.ending = IF ok THEN @ \cup {nav.handle} ELSE @]
      <3> DEFINE c == IF ok THEN "yes" ELSE "no"
                 d == IF ok THEN nav.ending \cup {nav.handle} ELSE nav.ending
                 m == [nav EXCEPT !.auto = c, !.ending = d]
      <3>1. nav' = m
        BY <2>2
      <3>2. c \in {"yes", "no"} /\ d \in SUBSET (0 .. MaxGoals)
        BY <1>1 DEF ProviderRecords
      <3> HIDE DEF c, d
      <3>3. m \in ProviderRecords /\ SameGoals(nav, m) /\ m.ack = nav.ack /\ m.st = nav.st
            /\ m.goal = nav.goal /\ m.cancelling = nav.cancelling
        BY <1>1, <3>2 DEF ProviderRecords, SameGoals
      <3> HIDE DEF m
      <3> QED BY <1>1, <3>1, <3>3, QuietStep DEF Guarded
    <2> QED BY <1>4, <2>1, <2>2 DEF NavCancels
  <1>5. ASSUME NEW ok \in BOOLEAN, NEW g \in Goals, NavAnswers(g, ok) PROVE Calm(nav, nav')
    <2> DEFINE p == IF ok THEN "live" ELSE "ended"
               a == IF ok THEN "handle" ELSE "null"
               m == [nav EXCEPT !.phase[g] = p, !.answer[g] = a, !.callback[g] = TRUE]
    <2>1. nav.phase[g] = "asked" /\ nav' = m
      BY <1>5 DEF NavAnswers
    <2>2. p \in {"live", "ended"} /\ a \in {"handle", "null"} /\ (a = "null" => p = "ended")
      OBVIOUS
    <2> HIDE DEF p, a
    <2>3. /\ m \in ProviderRecords
          /\ m.phase = [nav.phase EXCEPT ![g] = p] /\ m.answer = [nav.answer EXCEPT ![g] = a]
          /\ m.callback = [nav.callback EXCEPT ![g] = TRUE] /\ m.result = nav.result
          /\ m.gen = nav.gen /\ m.overtaken = nav.overtaken /\ m.ack = nav.ack /\ m.st = nav.st
          /\ m.goal = nav.goal /\ m.cancelling = nav.cancelling
      BY <1>1, <2>2 DEF ProviderRecords
    <2> HIDE DEF m
    <2>4. GoalsMove(m)
      BY <1>1, <1>3, <2>1, <2>2, <2>3 DEF GoalsMove
    <2>5. Awaited(m)
      BY <1>1, <1>3, <2>1, <2>2, <2>3 DEF Awaited
    <2>6. OneGoes(m)
      <3> SUFFICES ASSUME ~m.overtaken, NEW k \in Goals, m.phase[k] \in Going
                   PROVE  k = m.gen /\ Guarded(m)
        BY DEF OneGoes
      <3>1. nav.phase[k] \in Going
        BY <1>3, <2>1, <2>2, <2>3 DEF Going
      <3> QED BY <1>1, <2>3, <3>1 DEF OneGoes, Guarded
    <2> QED BY <2>1, <2>3, <2>4, <2>5, <2>6 DEF Calm, ProviderInv
  <1>6. ASSUME NEW g \in Goals, NEW how \in {"succeeded", "cancelled", "failed"}, NavEnds(g, how)
        PROVE  Calm(nav, nav')
    <2> DEFINE m == [nav EXCEPT !.phase[g] = "ended", !.result[g] = how]
    <2>1. nav.phase[g] = "live" /\ nav' = m
      BY <1>6 DEF NavEnds
    <2>2. /\ m \in ProviderRecords
          /\ m.phase = [nav.phase EXCEPT ![g] = "ended"] /\ m.answer = nav.answer
          /\ m.callback = nav.callback /\ m.result = [nav.result EXCEPT ![g] = how]
          /\ m.gen = nav.gen /\ m.overtaken = nav.overtaken /\ m.ack = nav.ack /\ m.st = nav.st
          /\ m.goal = nav.goal /\ m.cancelling = nav.cancelling
      BY <1>1 DEF ProviderRecords
    <2> HIDE DEF m
    <2>3. GoalsMove(m)
      BY <1>1, <1>3, <2>1, <2>2 DEF GoalsMove
    <2>4. Awaited(m)
      BY <1>1, <1>3, <2>1, <2>2 DEF Awaited
    <2>5. OneGoes(m)
      BY <1>1, <1>3, <2>1, <2>2 DEF OneGoes, Guarded, Going
    <2> QED BY <2>1, <2>2, <2>3, <2>4, <2>5 DEF Calm, ProviderInv
  <1> QED BY <1>4, <1>5, <1>6

(* How a call of the bridge ends.                                          *)
LEMMA CallReturns ==
    ASSUME NEW b \in BridgeRecords, Return(b)
    PROVE  /\ brg' \in BridgeRecords /\ brg'.pc = "idle" /\ brg'.op = "none"
           /\ brg'.st = b.st /\ brg'.goal = b.goal
  BY DEF Return, BridgeRecords, NavPlaces

LEMMA ReturnKnows ==
    ASSUME NEW b, NEW n, b.pc = "idle", b.op = "none", n.ack => n.st = "disconnected",
           Active(n.st) => Active(b.st) /\ b.goal = n.goal
    PROVE  BridgeKnows(b, n)
  BY DEF BridgeKnows, Sending

LEMMA SubmitReturns ==
    ASSUME NEW b \in BridgeRecords, NEW n \in ProviderRecords, Submitted(b, n),
           n.ack => n.st = "disconnected"
    PROVE  brg' \in BridgeRecords /\ BridgeKnows(brg', n)
  <1> DEFINE s == IF Active(n.st) THEN "yes" ELSE "no"
             c == [b EXCEPT !.st = n.st, !.goal = n.goal, !.asked = FALSE, !.since = s]
  <1>1. Return(c)
    BY DEF Submitted
  <1>2. s \in {"yes", "no"} /\ n.goal \in Nat
        /\ n.st \in {"idle", "disconnected", "accepted", "executing", "cancelled", "failed",
                     "succeeded", "rejected", "timedOut"}
    BY DEF ProviderRecords
  <1> HIDE DEF s
  <1>3. c \in BridgeRecords /\ c.st = n.st /\ c.goal = n.goal
    BY <1>2 DEF BridgeRecords
  <1> HIDE DEF c
  <1>4. /\ brg' \in BridgeRecords /\ brg'.pc = "idle" /\ brg'.op = "none"
        /\ brg'.st = n.st /\ brg'.goal = n.goal
    BY <1>1, <1>3, CallReturns
  <1> QED BY <1>4, ReturnKnows

LEMMA TimedOutStays ==
    ASSUME NEW b \in BridgeRecords
    PROVE  /\ TimedOut(b) \in BridgeRecords
           /\ TimedOut(b).op = b.op /\ TimedOut(b).goal = b.goal
           /\ Active(b.st) => TimedOut(b).st = b.st
  <1>1. CASE b.st = "cancelled"
    <2> DEFINE c == [b EXCEPT !.st = "timedOut"]
    <2>1. TimedOut(b) = c
      BY <1>1 DEF TimedOut
    <2>2. c \in BridgeRecords /\ c.op = b.op /\ c.goal = b.goal
      BY DEF BridgeRecords
    <2> HIDE DEF c
    <2> QED BY <1>1, <2>1, <2>2 DEF Active
  <1> QED BY <1>1 DEF TimedOut

LEMMA CancelReturns ==
    ASSUME NEW b \in BridgeRecords, NEW n \in ProviderRecords, BridgeKnows(b, n), Cancelled(b, n),
           b.pc \notin Sending, b.pc # "idle"
    PROVE  brg' \in BridgeRecords /\ BridgeKnows(brg', n)
  <1> DEFINE taken == [b EXCEPT !.st = n.st, !.goal = n.goal, !.since = "no"]
             x == IF Terminal(n.st) THEN TimedOut(taken) ELSE b
             y == IF Terminal(n.st) THEN [taken EXCEPT !.asked = FALSE] ELSE b
  <1>1. IF b.pc \in {"expire", "expireAnswer", "expireEnd"}
        THEN brg' = [x EXCEPT !.asked = TRUE, !.pc = "act"]
        ELSE Return(y)
    BY DEF Cancelled
  <1>2. n.goal \in Nat
        /\ n.st \in {"idle", "disconnected", "accepted", "executing", "cancelled", "failed",
                     "succeeded", "rejected", "timedOut"}
    BY DEF ProviderRecords
  <1>3. taken \in BridgeRecords /\ taken.op = b.op
    BY <1>2 DEF BridgeRecords
  <1> HIDE DEF taken
  <1>4. Terminal(n.st) => ~Active(n.st)
    BY DEF Terminal, Active
  <1>5. /\ n.ack => n.st = "disconnected"
        /\ Active(n.st) => Active(b.st) /\ b.goal = n.goal
        /\ b.op = "submit" => n.gen < MaxGoals
    BY DEF BridgeKnows, Sending
  <1>6. CASE b.pc \in {"expire", "expireAnswer", "expireEnd"}
    <2>1. x \in BridgeRecords /\ x.op = b.op
      BY <1>3, TimedOutStays
    <2>2. Active(n.st) => x = b
      BY <1>4
    <2>3. brg' = [x EXCEPT !.asked = TRUE, !.pc = "act"]
      BY <1>1, <1>6
    <2> HIDE DEF x
    <2>4. /\ brg' \in BridgeRecords /\ brg'.op = b.op /\ brg'.pc = "act"
          /\ brg'.st = x.st /\ brg'.goal = x.goal
      BY <2>1, <2>3 DEF BridgeRecords, NavPlaces
    <2> QED BY <1>5, <2>2, <2>4 DEF BridgeKnows, Sending
  <1>7. CASE b.pc \notin {"expire", "expireAnswer", "expireEnd"}
    <2>1. y \in BridgeRecords
      BY <1>3 DEF BridgeRecords
    <2>2. Active(n.st) => y = b
      BY <1>4
    <2>3. Return(y)
      BY <1>1, <1>7
    <2> HIDE DEF y
    <2> QED BY <1>5, <2>1, <2>2, <2>3, CallReturns, ReturnKnows
  <1> QED BY <1>6, <1>7

LEMMA BridgeAlone ==
    ASSUME NavInv,
           \/ \E op \in {"submit", "cancel", "get"} :
                 CallBridge(op, IF op = "submit" THEN nav.gen + 1 ELSE brg.goal)
           \/ GoalTimesOut \/ RefreshFrozen \/ BridgeRefuses \/ AckLate
    PROVE  NavInv'
  <1>1. /\ nav' = nav /\ brg \in BridgeRecords /\ BridgeKnows(brg, nav) /\ ProviderInv(nav)
        /\ nav \in ProviderRecords
    BY DEF NavInv, ProviderInv, CallBridge, GoalTimesOut, RefreshFrozen, BridgeRefuses, AckLate
  <1>2. SUFFICES brg' \in BridgeRecords /\ BridgeKnows(brg', nav)
    BY <1>1, <1>2 DEF NavInv
  <1>3. ASSUME NEW op \in {"submit", "cancel", "get"}, NEW g \in Nat, CallBridge(op, g)
        PROVE  brg' \in BridgeRecords /\ BridgeKnows(brg', nav)
    <2>1. /\ brg.pc = "idle" /\ (op = "submit" => nav.gen < MaxGoals)
          /\ brg' = [brg EXCEPT !.pc = "refresh", !.op = op, !.arg = g]
      BY <1>3 DEF CallBridge, BrgAt
    <2>2. /\ brg' \in BridgeRecords /\ brg'.pc = "refresh" /\ brg'.op = op
          /\ brg'.st = brg.st /\ brg'.goal = brg.goal
      BY <1>1, <2>1 DEF BridgeRecords, NavPlaces
    <2> QED BY <1>1, <2>1, <2>2 DEF BridgeKnows, Sending
  <1>4. nav.gen + 1 \in Nat /\ brg.goal \in Nat
    BY <1>1 DEF ProviderRecords, BridgeRecords
  <1>5. ASSUME GoalTimesOut PROVE brg' \in BridgeRecords /\ BridgeKnows(brg', nav)
    <2>1. /\ brg' \in BridgeRecords /\ brg'.pc = brg.pc /\ brg'.op = brg.op
          /\ brg'.st = brg.st /\ brg'.goal = brg.goal
      BY <1>1, <1>5 DEF GoalTimesOut, BridgeRecords
    <2> QED BY <1>1, <2>1 DEF BridgeKnows
  <1>6. ASSUME RefreshFrozen PROVE brg' \in BridgeRecords /\ BridgeKnows(brg', nav)
    <2>1. /\ brg.pc = "refresh" /\ brg' \in BridgeRecords /\ brg'.pc = "act" /\ brg'.op = brg.op
          /\ brg'.st = brg.st /\ brg'.goal = brg.goal
      BY <1>1, <1>6 DEF RefreshFrozen, BridgeRecords, NavPlaces, BrgAt
    <2> QED BY <1>1, <2>1 DEF BridgeKnows, Sending
  <1>7. ASSUME BridgeRefuses PROVE brg' \in BridgeRecords /\ BridgeKnows(brg', nav)
    <2>1. brg.pc = "act" /\ Return(brg)
      BY <1>7 DEF BridgeRefuses, BrgAt
    <2>2. /\ nav.ack => nav.st = "disconnected"
          /\ Active(nav.st) => Active(brg.st) /\ brg.goal = nav.goal
      BY <1>1, <2>1 DEF BridgeKnows, Sending
    <2> QED BY <1>1, <2>1, <2>2, CallReturns, ReturnKnows
  <1>8. ASSUME AckLate PROVE brg' \in BridgeRecords /\ BridgeKnows(brg', nav)
    <2>1. /\ brg.pc = "wait" /\ brg' \in BridgeRecords /\ brg'.pc = "late"
      BY <1>1, <1>8 DEF AckLate, BridgeRecords, NavPlaces, BrgAt
    <2> QED BY <1>1, <2>1 DEF BridgeKnows, Sending
  <1> QED BY <1>3, <1>4, <1>5, <1>6, <1>7, <1>8

LEMMA RefreshMoves ==
    ASSUME NavInv, NEW ready \in BOOLEAN, Refresh(ready)
    PROVE  NavInv'
  <1>1. /\ brg \in BridgeRecords /\ BridgeKnows(brg, nav) /\ ProviderInv(nav)
        /\ brg.pc = "refresh" /\ nav' = ProviderStatus(nav, ready)
    BY DEF NavInv, Refresh, BrgAt
  <1>2. Calm(nav, nav') /\ BridgeKnows(brg, nav') /\ ProviderInv(nav') /\ nav' \in ProviderRecords
    BY <1>1, StatusRead, BridgeStays DEF Calm, ProviderInv
  <1> DEFINE b == Merged(brg, nav')
  <1>3. IF b.asked /\ Terminal(b.st)
        THEN brg' = [TimedOut(b) EXCEPT !.since = "no", !.pc = "act"]
        ELSE brg' = [b EXCEPT !.pc = "expire"] \/ brg' = [b EXCEPT !.pc = "act"]
    BY DEF Refresh
  <1>4. b \in BridgeRecords /\ b.op = brg.op
        /\ (Active(nav'.st) => Active(b.st) /\ b.goal = nav'.goal)
    <2>1. CASE b = brg
      BY <1>1, <1>2, <2>1 DEF BridgeKnows, Sending
    <2>2. CASE b # brg
      <3> DEFINE s == IF Active(nav'.st) THEN brg.since ELSE "no"
      <3>1. b = [brg EXCEPT !.st = nav'.st, !.goal = nav'.goal, !.since = s]
        BY <2>2 DEF Merged
      <3>2. s \in {"no", "yes", "expired"}
        BY <1>1 DEF BridgeRecords
      <3>3. nav'.goal \in Nat
            /\ nav'.st \in {"idle", "disconnected", "accepted", "executing", "cancelled", "failed",
                            "succeeded", "rejected", "timedOut"}
        BY <1>2 DEF ProviderRecords
      <3> HIDE DEF s, b
      <3>4. b \in BridgeRecords
        BY <1>1, <3>1, <3>2, <3>3 DEF BridgeRecords
      <3>5. b.op = brg.op /\ b.st = nav'.st /\ b.goal = nav'.goal
        BY <1>1, <3>1 DEF BridgeRecords
      <3> QED BY <3>4, <3>5
    <2> QED BY <2>1, <2>2
  <1>5. nav'.ack => nav'.st = "disconnected"
    BY <1>1, <1>2 DEF BridgeKnows, Sending
  <1>6. brg.op = "submit" => nav'.gen < MaxGoals
    BY <1>1, <1>2 DEF BridgeKnows
  <1> HIDE DEF b
  <1>7. brg' \in BridgeRecords /\ brg'.pc \in {"act", "expire"} /\ brg'.op = brg.op
        /\ (Active(nav'.st) => Active(brg'.st) /\ brg'.goal = nav'.goal)
    <2>1. CASE b.asked /\ Terminal(b.st)
      <3> DEFINE t == TimedOut(b)
      <3>1. t \in BridgeRecords /\ t.op = b.op
        BY <1>4, TimedOutStays
      <3>2. ~Active(nav'.st)
        BY <1>4, <2>1 DEF Terminal, Active
      <3>3. brg' = [t EXCEPT !.since = "no", !.pc = "act"]
        BY <1>3, <2>1
      <3> HIDE DEF t
      <3> QED BY <1>4, <3>1, <3>2, <3>3 DEF BridgeRecords, NavPlaces
    <2>2. CASE ~(b.asked /\ Terminal(b.st))
      BY <1>3, <1>4, <2>2 DEF BridgeRecords, NavPlaces
    <2> QED BY <2>1, <2>2
  <1>8. BridgeKnows(brg', nav')
    BY <1>5, <1>6, <1>7 DEF BridgeKnows, Sending
  <1> QED BY <1>2, <1>7, <1>8 DEF NavInv

LEMMA CallForgotten ==
    ASSUME NEW n, ProviderInv(n), NEW c \in {"none", "asked"}, NEW a \in 0 .. MaxGoals
    PROVE  /\ Calm(n, [n EXCEPT !.call = c])
           /\ Calm(n, [n EXCEPT !.call = c, !.about = a])
  <1>1. n \in ProviderRecords
    BY DEF ProviderInv
  <1> DEFINE m == [n EXCEPT !.call = c]
             k == [n EXCEPT !.call = c, !.about = a]
  <1>2. m \in ProviderRecords /\ SameGoals(n, m) /\ m.ack = n.ack /\ m.st = n.st
        /\ m.goal = n.goal /\ m.cancelling = n.cancelling
    BY <1>1 DEF ProviderRecords, SameGoals
  <1>3. k \in ProviderRecords /\ SameGoals(n, k) /\ k.ack = n.ack /\ k.st = n.st
        /\ k.goal = n.goal /\ k.cancelling = n.cancelling
    BY <1>1 DEF ProviderRecords, SameGoals
  <1> HIDE DEF m, k
  <1>4. Calm(n, m)
    BY <1>2, QuietStep DEF Guarded
  <1>5. Calm(n, k)
    BY <1>3, QuietStep DEF Guarded
  <1> QED BY <1>4, <1>5 DEF m, k

LEMMA CancelMoves ==
    ASSUME NavInv, CancelAnswered \/ CancelWaitEnds \/ \E ready \in BOOLEAN : CancelBegins(ready)
    PROVE  NavInv'
  <1>1. /\ brg \in BridgeRecords /\ BridgeKnows(brg, nav) /\ ProviderInv(nav)
        /\ nav \in ProviderRecords /\ nav.handle \in 0 .. MaxGoals
    BY DEF NavInv, ProviderInv, ProviderRecords
  <1>2. ASSUME NEW c \in NavPlaces, brg' = [brg EXCEPT !.pc = c], c \notin Sending,
               brg.pc \notin Sending, brg.pc # "idle"
        PROVE  brg' \in BridgeRecords /\ BridgeKnows(brg', nav)
    <2>1. /\ brg' \in BridgeRecords /\ brg'.pc = c /\ brg'.op = brg.op
          /\ brg'.st = brg.st /\ brg'.goal = brg.goal
      BY <1>1, <1>2 DEF BridgeRecords
    <2> QED BY <1>1, <1>2, <2>1 DEF BridgeKnows, Sending
  <1>3. ASSUME NEW n, Calm(nav, n), nav' = n,
               \/ brg' \in BridgeRecords /\ BridgeKnows(brg', nav)
               \/ brg' \in BridgeRecords /\ BridgeKnows(brg', n)
        PROVE  NavInv'
    BY <1>3, BridgeStays DEF NavInv, Calm
  <1>4. \A p \in {"expire", "expireAnswer", "answer", "expireEnd", "end", "act"} :
           p \in NavPlaces /\ p \notin Sending /\ p # "idle"
    BY DEF NavPlaces, Sending
  <1>5. CASE CancelAnswered
    <2>1. /\ brg.pc \in {"expireAnswer", "answer"} /\ nav' = [nav EXCEPT !.call = "none"]
          /\ \/ Cancelled(brg, nav)
             \/ \E c \in {"end", "expireEnd"} : brg' = [brg EXCEPT !.pc = c]
      BY <1>5 DEF CancelAnswered
    <2>2. brg' \in BridgeRecords /\ BridgeKnows(brg', nav)
      BY <1>1, <1>2, <1>4, <2>1, CancelReturns
    <2>3. Calm(nav, [nav EXCEPT !.call = "none"])
      BY <1>1, CallForgotten
    <2> QED BY <1>3, <2>1, <2>2, <2>3
  <1>6. CASE CancelWaitEnds
    <2>1. /\ brg.pc \in {"expireAnswer", "answer", "expireEnd", "end"}
          /\ nav' = [nav EXCEPT !.call = "none"] /\ Cancelled(brg, nav)
      BY <1>6 DEF CancelWaitEnds
    <2>2. brg' \in BridgeRecords /\ BridgeKnows(brg', nav)
      BY <1>1, <1>4, <2>1, CancelReturns
    <2>3. Calm(nav, [nav EXCEPT !.call = "none"])
      BY <1>1, CallForgotten
    <2> QED BY <1>3, <2>1, <2>2, <2>3
  <1>7. ASSUME NEW ready \in BOOLEAN, CancelBegins(ready) PROVE NavInv'
    <2>1. brg.pc \in {"expire", "act"}
      BY <1>7 DEF CancelBegins, BrgAt
    <2>2. CASE Cancelled(brg, nav) /\ nav' = nav
      <3>1. brg' \in BridgeRecords /\ BridgeKnows(brg', nav)
        BY <1>1, <1>4, <2>1, <2>2, CancelReturns
      <3>2. Calm(nav, nav)
        BY <1>1, CalmStays
      <3> QED BY <1>3, <2>2, <3>1, <3>2
    <2>3. CASE nav' = ProviderStatus(nav, ready) /\ Cancelled(brg, nav')
      <3>1. Calm(nav, nav') /\ BridgeKnows(brg, nav') /\ nav' \in ProviderRecords
        BY <1>1, <2>3, StatusRead, BridgeStays DEF Calm, ProviderInv
      <3>2. brg' \in BridgeRecords /\ BridgeKnows(brg', nav')
        BY <1>1, <1>4, <2>1, <2>3, <3>1, CancelReturns
      <3> QED BY <1>3, <3>1, <3>2
    <2>4. CASE /\ nav' = [nav EXCEPT !.call = "asked", !.about = nav.handle]
               /\ brg' = [brg EXCEPT !.pc = IF BrgAt("expire") THEN "expireAnswer" ELSE "answer"]
      <3>1. \E c \in {"expireAnswer", "answer"} : brg' = [brg EXCEPT !.pc = c]
        BY <2>4
      <3>2. brg' \in BridgeRecords /\ BridgeKnows(brg', nav)
        BY <1>2, <1>4, <2>1, <3>1
      <3>3. Calm(nav, [nav EXCEPT !.call = "asked", !.about = nav.handle])
        BY <1>1, CallForgotten
      <3> QED BY <1>3, <2>4, <3>2, <3>3
    <2> QED BY <1>7, <2>2, <2>3, <2>4 DEF CancelBegins
  <1> QED BY <1>5, <1>6, <1>7

LEMMA SubmitMoves ==
    ASSUME NavInv, ServerUnavailable \/ GoalSent \/ AckReady \/ SubmitGivesUp
    PROVE  NavInv'
  <1>1. /\ brg \in BridgeRecords /\ BridgeKnows(brg, nav) /\ ProviderInv(nav)
        /\ nav \in ProviderRecords /\ GoalsMove(nav) /\ Awaited(nav) /\ OneGoes(nav)
        /\ brg.arg \in Nat /\ nav.gen \in 0 .. MaxGoals
    BY DEF NavInv, ProviderInv, BridgeRecords, ProviderRecords
  <1>2. Submitting =>
          /\ nav.ack => nav.st = "disconnected"
          /\ ~Active(nav.st) /\ nav.gen < MaxGoals
    BY <1>1 DEF Submitting, BridgeKnows, BrgAt, Sending
  <1>3. ASSUME NEW n, ProviderInv(n), nav' = n, Submitted(brg, n), n.ack => n.st = "disconnected"
        PROVE  NavInv'
    <2>1. n \in ProviderRecords
      BY <1>3 DEF ProviderInv
    <2>2. brg' \in BridgeRecords /\ BridgeKnows(brg', n)
      BY <1>1, <1>3, <2>1, SubmitReturns
    <2> QED BY <1>3, <2>2 DEF NavInv
  <1>4. CASE ServerUnavailable
    <2> DEFINE m == [nav EXCEPT !.st = "disconnected", !.goal = brg.arg]
    <2>1. Submitting /\ nav' = m /\ Submitted(brg, nav')
      BY <1>4 DEF ServerUnavailable
    <2>2. m \in ProviderRecords /\ SameGoals(nav, m) /\ m.ack = nav.ack /\ m.st = "disconnected"
          /\ m.cancelling = nav.cancelling
      BY <1>1 DEF ProviderRecords, SameGoals
    <2> HIDE DEF m
    <2>3. Calm(nav, m)
      BY <1>1, <1>2, <2>1, <2>2, QuietStep DEF Active, Guarded
    <2> QED BY <1>3, <2>1, <2>2, <2>3 DEF Calm
  <1>5. CASE GoalSent /\ Guarded(nav)
    <2>1. Submitting /\ nav' = nav /\ Submitted(brg, nav)
      BY <1>5 DEF GoalSent
    <2> QED BY <1>1, <1>2, <1>3, <2>1
  <1>6. CASE GoalSent /\ ~Guarded(nav)
    <2> DEFINE g == nav.gen + 1
               m == [nav EXCEPT !.gen = g, !.st = "accepted", !.goal = brg.arg, !.ack = TRUE,
                                !.phase[g] = "asked"]
    <2>1. Submitting /\ brg' = [brg EXCEPT !.pc = "wait"] /\ nav' = m
      BY <1>6 DEF GoalSent
    <2>2. g \in Goals /\ g \in 0 .. MaxGoals /\ g > nav.gen /\ (\A k \in Goals : k > g => k > nav.gen)
      BY <1>1, <1>2, <2>1, NavAssumption DEF Goals
    <2> HIDE DEF g
    <2>3. nav.phase \in [Goals -> {"none", "asked", "live", "ended"}]
      BY <1>1 DEF ProviderRecords
    <2>4. /\ m \in ProviderRecords /\ m.phase = [nav.phase EXCEPT ![g] = "asked"]
          /\ m.answer = nav.answer /\ m.callback = nav.callback /\ m.result = nav.result
          /\ m.gen = g /\ m.overtaken = nav.overtaken /\ m.ack /\ m.st = "accepted"
      BY <1>1, <2>2 DEF ProviderRecords
    <2> HIDE DEF m
    <2>5. nav.phase[g] = "none"
      BY <1>1, <2>2 DEF GoalsMove
    <2>6. GoalsMove(m)
      <3> SUFFICES ASSUME NEW k \in Goals
                   PROVE  /\ k > m.gen => m.phase[k] = "none"
                          /\ m.phase[k] \in {"none", "asked"} <=> m.answer[k] = "none"
                          /\ m.answer[k] = "none" => ~m.callback[k]
                          /\ m.answer[k] = "null" => m.phase[k] = "ended"
                          /\ m.result[k] # "none" => m.phase[k] = "ended"
        BY DEF GoalsMove
      <3>1. /\ k > nav.gen => nav.phase[k] = "none"
            /\ nav.phase[k] \in {"none", "asked"} <=> nav.answer[k] = "none"
            /\ nav.answer[k] = "none" => ~nav.callback[k]
            /\ nav.answer[k] = "null" => nav.phase[k] = "ended"
            /\ nav.result[k] # "none" => nav.phase[k] = "ended"
        BY <1>1 DEF GoalsMove
      <3>2. CASE k = g
        <4>1. ~(k > m.gen)
          BY <2>2, <2>4, <3>2 DEF Goals
        <4>2. m.phase[k] = "asked"
          BY <2>3, <2>4, <3>2
        <4> QED BY <2>4, <2>5, <3>1, <3>2, <4>1, <4>2
      <3>3. CASE k # g
        <4>1. m.phase[k] = nav.phase[k]
          BY <2>3, <2>4, <3>3
        <4> QED BY <2>2, <2>4, <3>1, <4>1
      <3> QED BY <3>2, <3>3
    <2>7. Awaited(m)
      BY <2>2, <2>3, <2>4 DEF Awaited
    <2>8. OneGoes(m)
      <3> SUFFICES ASSUME ~m.overtaken, NEW k \in Goals, m.phase[k] \in Going PROVE k = g
        BY <2>4 DEF OneGoes, Guarded
      <3>1. nav.phase[k] \notin Going
        BY <1>1, <1>6, <2>4 DEF OneGoes
      <3> QED BY <2>3, <2>4, <3>1
    <2>9. brg' \in BridgeRecords /\ BridgeKnows(brg', m)
      <3>1. brg' \in BridgeRecords /\ brg'.pc = "wait"
        BY <1>1, <2>1 DEF BridgeRecords, NavPlaces
      <3> QED BY <2>2, <2>4, <3>1 DEF BridgeKnows, Sending
    <2> QED BY <2>1, <2>4, <2>6, <2>7, <2>8, <2>9 DEF NavInv, ProviderInv
  <1>7. CASE AckReady
    <2>1. /\ brg.pc = "wait" /\ nav.answer[nav.gen] # "none" /\ Submitted(brg, nav')
          /\ nav' = IF nav.ack THEN HandleGoalResponse(nav, nav.gen) ELSE nav
      BY <1>7 DEF AckReady, BrgAt
    <2>2. nav.gen \in Goals
      BY <1>1, <2>1 DEF BridgeKnows, Sending
    <2>3. ProviderInv(nav') /\ ~nav'.ack
      BY <1>1, <2>1, <2>2, GoalAnswered DEF Calm
    <2> QED BY <1>3, <2>1, <2>3
  <1>8. CASE SubmitGivesUp
    <2> DEFINE o == nav.overtaken \/ ~nav.ack
               m == [nav EXCEPT !.st = "disconnected", !.overtaken = o]
    <2>1. nav' = m /\ Submitted(brg, nav')
      BY <1>8 DEF SubmitGivesUp, GaveUp
    <2>2. o \in BOOLEAN
      OBVIOUS
    <2>3. o = (nav.overtaken \/ ~nav.ack)
      OBVIOUS
    <2> HIDE DEF o
    <2>4. /\ m \in ProviderRecords /\ m.phase = nav.phase /\ m.answer = nav.answer
          /\ m.callback = nav.callback /\ m.result = nav.result /\ m.gen = nav.gen
          /\ m.overtaken = o /\ m.ack = nav.ack /\ m.st = "disconnected"
      BY <1>1, <2>2 DEF ProviderRecords
    <2> HIDE DEF m
    <2>5. GoalsMove(m) /\ Awaited(m)
      BY <1>1, <2>4 DEF GoalsMove, Awaited
    <2>6. OneGoes(m)
      BY <1>1, <2>3, <2>4 DEF OneGoes, Guarded
    <2>7. ProviderInv(m)
      BY <2>4, <2>5, <2>6 DEF ProviderInv
    <2> QED BY <1>3, <2>1, <2>4, <2>7
  <1> QED BY <1>4, <1>5, <1>6, <1>7, <1>8

LEMMA NavStep ==
    ASSUME NavInv, NavNext
    PROVE  NavInv'
  <1>1. ASSUME BridgeStep PROVE NavInv'
    BY <1>1, BridgeAlone, RefreshMoves, CancelMoves, SubmitMoves DEF BridgeStep
  <1> QED BY <1>1, BridgeAlone, ExecutorMoves, Nav2Moves DEF NavNext

LEMMA NavUntouched ==
    ASSUME NavInv, UNCHANGED navVars
    PROVE  NavInv'
  BY DEF NavInv, navVars

LEMMA OneIsGoing ==
    ASSUME NavInv PROVE OneGoalAtATime
  <1> DEFINE S == {g \in Goals : nav.phase[g] \in Going}
  <1>1. CASE ~nav.overtaken
    <2>1. S \subseteq {nav.gen}
      BY <1>1 DEF NavInv, ProviderInv, OneGoes
    <2>2. S = {} \/ S = {nav.gen}
      BY <2>1
    <2>3. Cardinality({}) = 0 /\ Cardinality({nav.gen}) = 1
      BY FS_EmptySet, FS_Singleton
    <2>4. Cardinality(S) <= 1
      BY <2>2, <2>3
    <2> QED BY <2>4 DEF OneGoalAtATime, Going
  <1> QED BY <1>1 DEF OneGoalAtATime

-----------------------------------------------------------------------------
(* The recorder.                                                           *)

DirtKinds == {"made", "name", "log", "art", "manifest", "complete", "mark"}
Dirs ==
    [name : {"none", "temp", "interrupted", "final"}, lines : Seq({"line", "file"}),
     cached : Nat, synced : Nat, arts : SUBSET Nat,
     manifest : {"none", "recording", "complete", "torn"}, count : Nat,
     complete : BOOLEAN, interrupted : BOOLEAN, dirty : SUBSET DirtKinds, erased : SUBSET Parts]
AfterSync == {"manifest", "fsync", "marker", "dir", "rename", "parent"}
StopPlaces == {"none", "close", "sync", "refresh", "prune"} \cup AfterSync
StartPlaces == {"none", "refresh", "prune", "total", "session"}
Phases == {"off", "recover", "rename", "sync", "refresh", "prune", "up"}
InMemory(X) ==
    [state : {"idle", "recording", "faulted"}, id : 0 .. MaxSessions, bytes : Nat, existing : X,
     seen : X, stop : StopPlaces, starter : StartPlaces]
RecordOK(r) == r \in InMemory({r.existing, r.seen})
Processes ==
    [phase : Phases, at : 0 .. MaxSessions, used : 0 .. MaxSessions, power : BOOLEAN, lives : Nat]

(* What stands under a final name is whole, and no power loss can undo it. *)
Durable(d) ==
    d.name = "final" =>
        /\ d.complete /\ d.manifest = "complete" /\ d.count = Len(d.lines)
        /\ d.cached = Len(d.lines) /\ {"log", "manifest", "complete"} \cap d.dirty = {}
InOrder(d) == d.synced <= d.cached /\ d.cached <= Len(d.lines)
Indexed(d) == \A i \in 1 .. Len(d.lines) : d.lines[i] = "file" => i \in d.arts

(* What a Stop has behind it at each of its steps; when it ends, a removal *)
(* can have taken the directory away.                                      *)
StopKnows(r, d) ==
    /\ r.stop \notin {"none", "refresh", "prune"} => r.state = "recording"
    /\ r.state # "idle" => r.id \in Sessions
    /\ r.state = "recording" /\ r.stop # "parent" => d.name # "final"
    /\ r.stop \in {"sync"} \cup AfterSync => d.cached = Len(d.lines)
    /\ r.stop \in AfterSync => "log" \notin d.dirty
    /\ r.stop \in AfterSync \ {"manifest"} /\ d.name # "none" =>
         d.manifest = "complete" /\ d.count = Len(d.lines)
    /\ r.stop \in {"marker", "dir", "rename", "parent"} => "manifest" \notin d.dirty
    /\ r.stop \in {"dir", "rename", "parent"} /\ d.name # "none" => d.complete
    /\ r.stop \in {"rename", "parent"} => "complete" \notin d.dirty
InStop == StopKnows(rec, Own)
AtRest == svc.phase # "up" => rec = IdleSession

RecordInv ==
    /\ disk \in [Sessions -> Dirs] /\ RecordOK(rec) /\ svc \in Processes
    /\ \A s \in Sessions : Durable(disk[s]) /\ InOrder(disk[s])
    /\ ~svc.power => \A s \in Sessions : Indexed(disk[s])
    /\ InStop /\ AtRest

LEMMA NothingRecorded ==
    /\ NoSession \in Dirs /\ Durable(NoSession) /\ InOrder(NoSession) /\ Indexed(NoSession)
    /\ RecordOK(IdleSession) /\ \A d : StopKnows(IdleSession, d)
    /\ \A r : \A d : StopKnows(r, d) => StopKnows(r, NoSession)
  <1>1. NoSession \in Dirs
    BY DEF NoSession, Dirs, DirtKinds
  <1>2. Durable(NoSession) /\ InOrder(NoSession) /\ Indexed(NoSession)
    BY DEF NoSession, Durable, InOrder, Indexed
  <1>3. RecordOK(IdleSession)
    BY RecordingAssumption DEF IdleSession, RecordOK, InMemory, StopPlaces, StartPlaces
  <1>4. ASSUME NEW d PROVE StopKnows(IdleSession, d)
    BY DEF IdleSession, StopKnows, AfterSync
  <1>5. ASSUME NEW r, NEW d, StopKnows(r, d) PROVE StopKnows(r, NoSession)
    <2>1. /\ NoSession.name = "none" /\ NoSession.cached = Len(NoSession.lines)
          /\ NoSession.dirty = {}
      BY DEF NoSession
    <2> QED BY <1>5, <2>1 DEF StopKnows
  <1> QED BY <1>1, <1>2, <1>3, <1>4, <1>5

LEMMA RecordBegins ==
    ASSUME RecordingInit PROVE RecordInv
  <1>1. /\ disk = [s \in Sessions |-> NoSession] /\ rec = IdleSession
        /\ svc = [phase |-> "off", at |-> 0, used |-> 0, power |-> FALSE, lives |-> 0]
    BY DEF RecordingInit
  <1>2. svc \in Processes
    BY <1>1, RecordingAssumption DEF Processes, Phases
  <1> QED BY <1>1, <1>2, NothingRecorded DEF RecordInv, InStop, AtRest

(* The process or the session in memory alone takes a step.                *)
LEMMA MemoryMoves ==
    ASSUME RecordInv, disk' = disk, RecordOK(rec'), svc' \in Processes,
           svc'.power = svc.power, svc'.phase # "up" => rec' = IdleSession,
           StopKnows(rec', disk[rec'.id])
    PROVE  RecordInv'
  BY DEF RecordInv, InStop, AtRest, Own, RecordOK, InMemory, StopKnows

(* One directory is written to.                                            *)
LEMMA DirectoryMoves ==
    ASSUME RecordInv, NEW s \in Sessions, NEW d \in Dirs,
           disk' \in [Sessions -> Dirs], disk'[s] = d,
           \A t \in Sessions : t # s => disk'[t] = disk[t],
           Durable(d), InOrder(d), ~svc.power => Indexed(d),
           RecordOK(rec'), svc' \in Processes, svc'.power = svc.power,
           svc'.phase # "up" => rec' = IdleSession,
           StopKnows(rec', disk'[rec'.id])
    PROVE  RecordInv'
  <1>1. \A t \in Sessions : Durable(disk'[t]) /\ InOrder(disk'[t])
    BY DEF RecordInv
  <1>2. ~svc'.power => \A t \in Sessions : Indexed(disk'[t])
    BY DEF RecordInv
  <1>3. InStop' /\ AtRest'
    BY DEF InStop, Own, AtRest
  <1> QED BY <1>1, <1>2, <1>3 DEF RecordInv, RecordOK, InMemory, Durable, InOrder, Indexed

LEMMA StopPointMoves ==
    ASSUME NEW r, RecordOK(r), NEW c \in StopPlaces
    PROVE  /\ RecordOK([r EXCEPT !.stop = c])
           /\ [r EXCEPT !.stop = c].stop = c /\ [r EXCEPT !.stop = c].state = r.state
           /\ [r EXCEPT !.stop = c].id = r.id
  BY DEF RecordOK, InMemory

LEMMA WrittenTwice ==
    ASSUME NEW S, NEW T, NEW f \in [S -> T], NEW x \in S, NEW u, NEW d
    PROVE  [[f EXCEPT ![x] = u] EXCEPT ![x] = d] = [f EXCEPT ![x] = d]
  <1> DEFINE a == [[f EXCEPT ![x] = u] EXCEPT ![x] = d]
             b == [f EXCEPT ![x] = d]
  <1>1. a = [y \in S |-> a[y]] /\ b = [y \in S |-> b[y]]
    OBVIOUS
  <1>2. \A y \in S : a[y] = b[y]
    OBVIOUS
  <1> HIDE DEF a, b
  <1>3. a = b
    BY <1>1, <1>2
  <1> QED BY <1>3 DEF a, b

(* Steps of the session that write nothing.                                *)
LEMMA NothingWritten ==
    ASSUME RecordInv,
           StartCalled \/ StartReads \/ SessionStartRefused \/ AppendFails \/ StopCalled \/ StopFails
    PROVE  RecordInv'
  <1>1. /\ disk' = disk /\ svc' = svc /\ svc \in Processes /\ svc.phase = "up"
        /\ RecordOK(rec) /\ StopKnows(rec, Own) /\ Own = disk[rec.id]
    <2>1. disk' = disk /\ svc' = svc /\ svc.phase = "up"
      BY DEF StartCalled, StartReads, Reached, SessionStartRefused, AppendFails, Recording,
             StopCalled, StopFails, StopStep, Up
    <2> QED BY <2>1 DEF RecordInv, InStop, Own
  <1>2. SUFFICES RecordOK(rec') /\ StopKnows(rec', disk[rec'.id])
    BY <1>1, <1>2, MemoryMoves
  <1>3. "none" \in StopPlaces /\ "close" \in StopPlaces /\ rec.stop \in StopPlaces
    BY <1>1 DEF StopPlaces, RecordOK, InMemory
  <1>4. CASE StartCalled \/ StartReads \/ SessionStartRefused
    <2> DEFINE n == SizeOf(cat)
    <2>1. \/ \E x \in StartPlaces : rec' = [rec EXCEPT !.starter = x]
          \/ rec' = [rec EXCEPT !.starter = "session", !.seen = n]
      BY <1>4 DEF StartCalled, StartReads, SessionStartRefused, StartPlaces
    <2> HIDE DEF n
    <2>2. RecordOK(rec') /\ rec'.state = rec.state /\ rec'.id = rec.id /\ rec'.stop = rec.stop
      BY <1>1, <2>1 DEF RecordOK, InMemory, StartPlaces
    <2> QED BY <1>1, <2>2 DEF StopKnows
  <1>5. CASE AppendFails
    <2>1. rec' = [rec EXCEPT !.state = "faulted"] /\ rec.stop \in {"none", "refresh", "prune"}
          /\ rec.state = "recording"
      BY <1>5 DEF AppendFails, SetFault, Recording, Held
    <2>2. RecordOK(rec') /\ rec'.state = "faulted" /\ rec'.id = rec.id /\ rec'.stop = rec.stop
      BY <1>1, <2>1 DEF RecordOK, InMemory
    <2> QED BY <1>1, <2>1, <2>2 DEF StopKnows, AfterSync
  <1>6. CASE StopCalled
    <2>1. rec' = [rec EXCEPT !.stop = "close"] /\ rec.stop = "none" /\ rec.state = "recording"
      BY <1>6 DEF StopCalled, StopStep
    <2>2. RecordOK(rec') /\ rec'.state = rec.state /\ rec'.id = rec.id /\ rec'.stop = "close"
      BY <1>1, <1>3, <2>1, StopPointMoves
    <2> QED BY <1>1, <2>1, <2>2 DEF StopKnows, AfterSync
  <1>7. CASE StopFails
    <2>1. rec' = [rec EXCEPT !.stop = "none", !.state = "faulted"] /\ rec.state = "recording"
      BY <1>1, <1>7 DEF StopFails, SetFault, StopKnows, Held
    <2>2. RecordOK(rec') /\ rec'.state = "faulted" /\ rec'.id = rec.id /\ rec'.stop = "none"
      BY <1>1, <1>3, <2>1 DEF RecordOK, InMemory
    <2> QED BY <1>1, <2>1, <2>2 DEF StopKnows, AfterSync
  <1> QED BY <1>4, <1>5, <1>6, <1>7

(* The process starts, up to its catalog.                                  *)
LEMMA RuntimeMoves ==
    ASSUME RecordInv, RuntimeBegins \/ RecoverEnds \/ RecoverFails
    PROVE  RecordInv'
  <1>1. /\ disk' = disk /\ rec' = rec /\ svc \in Processes /\ svc.phase # "up"
    BY DEF RuntimeBegins, RecoverEnds, RecoverFails, Recovers, RecordInv
  <1>2. rec = IdleSession
    BY <1>1 DEF RecordInv, AtRest
  <1>3. svc' \in Processes /\ svc'.power = svc.power
    <2>1. CASE RuntimeBegins
      <3> DEFINE n == svc.lives + 1
      <3>1. svc' = [svc EXCEPT !.phase = "recover", !.lives = n]
        BY <2>1 DEF RuntimeBegins
      <3>2. n \in Nat
        BY <1>1 DEF Processes
      <3> HIDE DEF n
      <3> QED BY <1>1, <3>1, <3>2 DEF Processes, Phases
    <2>2. CASE RecoverEnds \/ RecoverFails
      <3>1. svc' = [svc EXCEPT !.phase = "refresh", !.at = 0]
        BY <2>2 DEF RecoverEnds, RecoverFails, Recovers
      <3>2. 0 \in 0 .. MaxSessions
        BY RecordingAssumption
      <3> QED BY <1>1, <3>1, <3>2 DEF Processes, Phases
    <2> QED BY <2>1, <2>2
  <1> QED BY <1>1, <1>2, <1>3, NothingRecorded, MemoryMoves

(* A refresh and a prune, to what comes after them.                        *)
LEMMA GoesOn ==
    ASSUME RecordInv, NEW who \in Callers, NEW from \in {"refresh", "prune"}, Reached(who, from),
           NEW place, Goes(who, place), place \in {"prune", Pruned(who), FailsTo(who)},
           disk' = disk
    PROVE  RecordInv'
  <1>1. /\ svc \in Processes /\ RecordOK(rec) /\ StopKnows(rec, Own) /\ Own = disk[rec.id]
        /\ svc.phase # "up" => rec = IdleSession
    BY DEF RecordInv, InStop, Own, AtRest
  <1>2. CASE who = "up"
    <2>1. /\ svc' = [svc EXCEPT !.phase = place] /\ rec' = rec /\ svc.phase # "up"
          /\ place \in {"prune", "up", "off"}
      BY <1>2 DEF Goes, Reached, Pruned, FailsTo
    <2>2. svc' \in Processes /\ svc'.power = svc.power
      BY <1>1, <2>1 DEF Processes, Phases
    <2> QED BY <1>1, <2>1, <2>2, NothingRecorded, MemoryMoves
  <1>3. CASE who = "start"
    <2>1. /\ svc' = svc /\ rec' = [rec EXCEPT !.starter = place] /\ svc.phase = "up"
          /\ place \in {"prune", "total", "none"}
      BY <1>3 DEF Goes, Reached, Pruned, FailsTo, Up
    <2>2. RecordOK(rec') /\ rec'.state = rec.state /\ rec'.id = rec.id /\ rec'.stop = rec.stop
      BY <1>1, <2>1 DEF RecordOK, InMemory, StartPlaces
    <2>3. StopKnows(rec', disk[rec'.id])
      BY <1>1, <2>2 DEF StopKnows
    <2> QED BY <1>1, <2>1, <2>2, <2>3, MemoryMoves
  <1>4. CASE who = "stop"
    <2>1. /\ svc' = svc /\ rec' = [rec EXCEPT !.stop = place] /\ svc.phase = "up"
          /\ place \in {"prune", "none"} /\ rec.stop \in {"refresh", "prune"}
      BY <1>4 DEF Goes, Reached, Pruned, FailsTo, Up
    <2>2. RecordOK(rec') /\ rec'.state = rec.state /\ rec'.id = rec.id /\ rec'.stop = place
      BY <1>1, <2>1, StopPointMoves DEF StopPlaces
    <2>3. StopKnows(rec', disk[rec'.id])
      BY <1>1, <2>1, <2>2 DEF StopKnows, AfterSync
    <2> QED BY <1>1, <2>1, <2>2, <2>3, MemoryMoves
  <1>5. CASE who = "rpc"
    <2>1. svc' = svc /\ rec' = rec
      BY <1>5 DEF Goes
    <2> QED BY <1>1, <2>1, MemoryMoves
  <1> QED BY <1>2, <1>3, <1>4, <1>5 DEF Callers

(* The catalog looks at the directories and takes one to remove.           *)
LEMMA CatalogMoves ==
    ASSUME RecordInv,
           \/ \E who \in Callers :
                 CatalogRefreshes(who) \/ PruneTakes(who) \/ PruneEnds(who) \/ CatalogFails(who)
           \/ PruneAsked \/ (\E e \in cat : Delete(e)) \/ DeleteFails
    PROVE  RecordInv'
  <1>1. CASE \E who \in Callers : CatalogRefreshes(who) \/ PruneEnds(who) \/ CatalogFails(who)
    <2>1. PICK who \in Callers : CatalogRefreshes(who) \/ PruneEnds(who) \/ CatalogFails(who)
      BY <1>1
    <2>2. disk' = disk
      BY <2>1 DEF CatalogRefreshes, PruneEnds, CatalogFails
    <2>3. CASE CatalogRefreshes(who)
      <3>1. Reached(who, "refresh") /\ Goes(who, "prune")
        BY <2>3 DEF CatalogRefreshes
      <3> QED BY <2>1, <2>2, <3>1, GoesOn
    <2>4. CASE PruneEnds(who)
      <3>1. Reached(who, "prune") /\ Goes(who, Pruned(who))
        BY <2>4 DEF PruneEnds
      <3> QED BY <2>1, <2>2, <3>1, GoesOn
    <2>5. CASE CatalogFails(who)
      <3>1. (Reached(who, "refresh") \/ Reached(who, "prune")) /\ Goes(who, FailsTo(who))
        BY <2>5 DEF CatalogFails
      <3> QED BY <2>1, <2>2, <3>1, GoesOn
    <2> QED BY <2>1, <2>3, <2>4, <2>5
  <1>2. CASE \/ \E who \in Callers : PruneTakes(who)
             \/ PruneAsked \/ (\E e \in cat : Delete(e)) \/ DeleteFails
    <2>1. disk' = disk /\ rec' = rec /\ svc' = svc
      BY <1>2 DEF PruneTakes, PruneAsked, Delete, DeleteFails
    <2> QED BY <2>1 DEF RecordInv, InStop, AtRest, Own, RecordOK, InMemory
  <1> QED BY <1>1, <1>2

(* Two directories that differ in no more than markers, what a removal     *)
(* took, or what is on the disk already.                                   *)
Alike(d, e) ==
    /\ e.name = d.name /\ e.lines = d.lines /\ e.cached = d.cached /\ e.synced = d.synced
    /\ e.arts = d.arts /\ e.manifest = d.manifest /\ e.count = d.count
    /\ e.complete = d.complete /\ e.dirty \subseteq d.dirty

LEMMA AlikeHolds ==
    ASSUME NEW d, NEW e, Alike(d, e)
    PROVE  /\ Durable(d) => Durable(e)
           /\ InOrder(d) => InOrder(e)
           /\ Indexed(d) => Indexed(e)
           /\ \A r : StopKnows(r, d) => StopKnows(r, e)
  BY DEF Alike, Durable, InOrder, Indexed, StopKnows

(* A removal takes a file, or the directory.                               *)
LEMMA EraseMoves ==
    ASSUME RecordInv, NEW s \in Sessions, ErasesFile(s) \/ ErasesLast(s)
    PROVE  RecordInv'
  <1>1. /\ disk \in [Sessions -> Dirs] /\ disk[s] \in Dirs /\ Durable(disk[s]) /\ InOrder(disk[s])
        /\ (~svc.power => Indexed(disk[s])) /\ rec' = rec /\ svc' = svc
        /\ RecordOK(rec) /\ StopKnows(rec, Own) /\ svc \in Processes
        /\ svc.phase # "up" => rec = IdleSession
    BY DEF RecordInv, InStop, AtRest, ErasesFile, ErasesLast
  <1>2. CASE disk' = disk
    BY <1>1, <1>2, MemoryMoves DEF Own
  <1>3. CASE \E what \in Parts : Takes(s, what)
    <2>1. PICK what \in Parts : Takes(s, what)
      BY <1>3
    <2> DEFINE E == disk[s].erased \cup {what}
               d == [disk[s] EXCEPT !.erased = E]
    <2>2. disk' = [disk EXCEPT ![s] = d]
      BY <1>1, <2>1 DEF Takes
    <2>3. E \in SUBSET Parts
      BY <1>1 DEF Dirs
    <2> HIDE DEF E
    <2>4. d \in Dirs /\ Alike(disk[s], d)
      BY <1>1, <2>3 DEF Dirs, Alike
    <2> HIDE DEF d
    <2>5. /\ disk' \in [Sessions -> Dirs] /\ disk'[s] = d
          /\ \A t \in Sessions : t # s => disk'[t] = disk[t]
      BY <1>1, <2>2, <2>4
    <2>6. Durable(d) /\ InOrder(d) /\ (~svc.power => Indexed(d))
      BY <1>1, <2>4, AlikeHolds
    <2>7. StopKnows(rec', disk'[rec'.id])
      <3>1. CASE rec.id = s
        BY <1>1, <2>4, <2>5, <3>1, AlikeHolds DEF Own
      <3>2. CASE rec.id # s /\ rec.state # "idle"
        <4>1. rec.id \in Sessions
          BY <1>1, <3>2 DEF StopKnows
        <4> QED BY <1>1, <2>5, <3>2, <4>1 DEF Own
      <3>3. CASE rec.state = "idle"
        BY <1>1, <3>3 DEF StopKnows, AfterSync
      <3> QED BY <3>1, <3>2, <3>3
    <2> QED BY <1>1, <2>4, <2>5, <2>6, <2>7, DirectoryMoves
  <1>4. disk' = disk \/ \E what \in Parts : Takes(s, what)
    <2>1. CASE ErasesFile(s)
      BY <2>1 DEF ErasesFile, Remaining, FilesOf, Parts
    <2>2. CASE ErasesLast(s)
      BY <2>2 DEF ErasesLast, Parts
    <2> QED BY <2>1, <2>2
  <1> QED BY <1>2, <1>3, <1>4

(* Recovery: the marker and the name of an interrupted session.            *)
LEMMA RecoverMoves ==
    ASSUME RecordInv, NEW s \in Sessions, RecoverMarks(s) \/ RecoverRenames(s)
    PROVE  RecordInv'
  <1>1. /\ disk \in [Sessions -> Dirs] /\ disk[s] \in Dirs
        /\ InOrder(disk[s]) /\ (~svc.power => Indexed(disk[s])) /\ svc \in Processes
        /\ rec' = rec /\ rec = IdleSession
    BY DEF RecordInv, AtRest, RecoverMarks, RecoverRenames, Recovers
  <1>2. svc' \in Processes /\ svc'.power = svc.power
    <2>1. \E p \in Phases : svc' = [svc EXCEPT !.phase = p, !.at = s]
      BY DEF RecoverMarks, RecoverRenames, Recovers, Phases
    <2>2. s \in 0 .. MaxSessions
      BY RecordingAssumption DEF Sessions
    <2> QED BY <1>1, <2>1, <2>2 DEF Processes
  <1>3. PICK d \in Dirs : /\ disk' = [disk EXCEPT ![s] = d] /\ d.name # "final"
                          /\ d.lines = disk[s].lines /\ d.cached = disk[s].cached
                          /\ d.synced = disk[s].synced /\ d.arts = disk[s].arts
    <2>1. CASE RecoverMarks(s)
      <3> DEFINE e == disk[s].dirty \cup {"mark"}
                 x == disk[s].erased \ {"mark"}
                 u == [disk[s] EXCEPT !.interrupted = TRUE]
                 v == [disk[s] EXCEPT !.interrupted = TRUE, !.dirty = e]
                 d == [disk[s] EXCEPT !.interrupted = TRUE, !.dirty = e, !.erased = x]
      <3>1. disk' = [disk EXCEPT ![s] = d]
        <4>1. u.dirty = disk[s].dirty /\ v.erased = disk[s].erased
          BY <1>1 DEF Dirs
        <4>2. disk' = [[[disk EXCEPT ![s].interrupted = TRUE] EXCEPT ![s].dirty = @ \cup {"mark"}]
                         EXCEPT ![s].erased = @ \ {"mark"}]
          BY <2>1 DEF RecoverMarks
        <4>3. [disk EXCEPT ![s].interrupted = TRUE] = [disk EXCEPT ![s] = u]
          BY <1>1
        <4>4. [[disk EXCEPT ![s] = u] EXCEPT ![s].dirty = @ \cup {"mark"}] = [disk EXCEPT ![s] = v]
          <5>1. [[disk EXCEPT ![s] = u] EXCEPT ![s].dirty = @ \cup {"mark"}]
                  = [[disk EXCEPT ![s] = u] EXCEPT ![s] = v]
            <6>1. [disk EXCEPT ![s] = u][s] = u
              BY <1>1
            <6> HIDE DEF u
            <6>2. [u EXCEPT !.dirty = u.dirty \cup {"mark"}] = v
              BY <4>1 DEF u
            <6> HIDE DEF v
            <6> QED BY <6>1, <6>2
          <5> HIDE DEF u, v
          <5> QED BY <1>1, <5>1, WrittenTwice
        <4>5. [[disk EXCEPT ![s] = v] EXCEPT ![s].erased = @ \ {"mark"}] = [disk EXCEPT ![s] = d]
          <5>1. [[disk EXCEPT ![s] = v] EXCEPT ![s].erased = @ \ {"mark"}]
                  = [[disk EXCEPT ![s] = v] EXCEPT ![s] = d]
            <6>1. [disk EXCEPT ![s] = v][s] = v
              BY <1>1
            <6> HIDE DEF v
            <6>2. [v EXCEPT !.erased = v.erased \ {"mark"}] = d
              BY <4>1 DEF v
            <6> HIDE DEF d
            <6> QED BY <6>1, <6>2
          <5> HIDE DEF v, d
          <5> QED BY <1>1, <5>1, WrittenTwice
        <4> HIDE DEF u, v, d
        <4> QED BY <4>2, <4>3, <4>4, <4>5
      <3>2. e \in SUBSET DirtKinds /\ x \in SUBSET Parts /\ disk[s].name = "temp"
        BY <1>1, <2>1 DEF Dirs, DirtKinds, RecoverMarks, Hidden
      <3> HIDE DEF e, x
      <3>3. /\ d \in Dirs /\ d.name = disk[s].name /\ d.lines = disk[s].lines
            /\ d.cached = disk[s].cached /\ d.synced = disk[s].synced /\ d.arts = disk[s].arts
        BY <1>1, <3>2 DEF Dirs
      <3> HIDE DEF d
      <3> QED BY <3>1, <3>2, <3>3
    <2>2. CASE RecoverRenames(s)
      <3> DEFINE e == disk[s].dirty \cup {"name"}
                 u == [disk[s] EXCEPT !.name = "interrupted"]
                 d == [disk[s] EXCEPT !.name = "interrupted", !.dirty = e]
      <3>1. disk' = [disk EXCEPT ![s] = d]
        <4>1. u.dirty = disk[s].dirty
          BY <1>1 DEF Dirs
        <4>2. disk' = [[disk EXCEPT ![s].name = "interrupted"] EXCEPT ![s].dirty = @ \cup {"name"}]
          BY <2>2 DEF RecoverRenames
        <4>3. [disk EXCEPT ![s].name = "interrupted"] = [disk EXCEPT ![s] = u]
          BY <1>1
        <4>4. [[disk EXCEPT ![s] = u] EXCEPT ![s].dirty = @ \cup {"name"}]
                = [[disk EXCEPT ![s] = u] EXCEPT ![s] = d]
          <5>1. [disk EXCEPT ![s] = u][s] = u
            BY <1>1
          <5> HIDE DEF u
          <5>2. [u EXCEPT !.dirty = u.dirty \cup {"name"}] = d
            BY <4>1 DEF u
          <5> HIDE DEF d
          <5> QED BY <5>1, <5>2
        <4> HIDE DEF u, d
        <4> QED BY <1>1, <4>2, <4>3, <4>4, WrittenTwice
      <3>2. e \in SUBSET DirtKinds
        BY <1>1 DEF Dirs, DirtKinds
      <3> HIDE DEF e
      <3>3. /\ d \in Dirs /\ d.name = "interrupted" /\ d.lines = disk[s].lines
            /\ d.cached = disk[s].cached /\ d.synced = disk[s].synced /\ d.arts = disk[s].arts
        BY <1>1, <3>2 DEF Dirs
      <3> HIDE DEF d
      <3> QED BY <3>1, <3>3
    <2> QED BY <2>1, <2>2
  <1>4. Durable(d) /\ InOrder(d) /\ (~svc.power => Indexed(d))
    BY <1>1, <1>3 DEF Durable, InOrder, Indexed
  <1>5. /\ disk' \in [Sessions -> Dirs] /\ disk'[s] = d
        /\ \A t \in Sessions : t # s => disk'[t] = disk[t]
    BY <1>1, <1>3
  <1> QED BY <1>1, <1>2, <1>4, <1>5, NothingRecorded, DirectoryMoves

(* The sync of the directory above, by a recovery or at the end of a Stop. *)
LEMMA ParentMoves ==
    ASSUME RecordInv, RecoverSyncs \/ StopFinishes
    PROVE  RecordInv'
  <1>1. /\ disk \in [Sessions -> Dirs] /\ svc \in Processes /\ RecordOK(rec)
        /\ \A s \in Sessions : Durable(disk[s]) /\ InOrder(disk[s])
        /\ ~svc.power => \A s \in Sessions : Indexed(disk[s])
        /\ svc.phase # "up" => rec = IdleSession
    BY DEF RecordInv, AtRest
  <1>2. ASSUME NEW s \in Sessions
        PROVE  /\ disk'[s] \in Dirs
               /\ disk'[s] = NoSession \/ Alike(disk[s], disk'[s])
    <2> DEFINE E == disk[s].dirty \ {"name", "made"}
               d == [disk[s] EXCEPT !.dirty = E]
    <2>1. disk'[s] = d \/ disk'[s] = NoSession
      BY DEF RecoverSyncs, StopFinishes, SyncParent
    <2>2. E \in SUBSET DirtKinds /\ E \subseteq disk[s].dirty
      BY <1>1 DEF Dirs
    <2> HIDE DEF E
    <2>3. d \in Dirs /\ Alike(disk[s], d)
      BY <1>1, <2>2 DEF Dirs, Alike
    <2> HIDE DEF d
    <2> QED BY <2>1, <2>3, NothingRecorded
  <1>3. disk' \in [Sessions -> Dirs]
    <2>1. disk' = [s \in Sessions |-> disk'[s]]
      BY DEF RecoverSyncs, StopFinishes, SyncParent
    <2> QED BY <1>2, <2>1
  <1>4. /\ \A s \in Sessions : Durable(disk'[s]) /\ InOrder(disk'[s])
        /\ ~svc.power => \A s \in Sessions : Indexed(disk'[s])
    BY <1>1, <1>2, AlikeHolds, NothingRecorded
  <1>5. /\ svc' \in Processes /\ svc'.power = svc.power /\ RecordOK(rec')
        /\ svc'.phase # "up" => rec' = IdleSession
        /\ \A d : StopKnows(rec', d)
    <2>1. CASE RecoverSyncs
      <3>1. svc' = [svc EXCEPT !.phase = "recover", !.at = 0] /\ rec' = rec /\ svc.phase = "sync"
        BY <2>1 DEF RecoverSyncs, Recovers
      <3>2. 0 \in 0 .. MaxSessions
        BY RecordingAssumption
      <3>3. svc' \in Processes /\ svc'.power = svc.power
        BY <1>1, <3>1, <3>2 DEF Processes, Phases
      <3> QED BY <1>1, <3>1, <3>3, NothingRecorded
    <2>2. CASE StopFinishes
      <3>1. rec' = [rec EXCEPT !.stop = "refresh", !.state = "idle"] /\ svc' = svc
            /\ svc.phase = "up"
        BY <2>2 DEF StopFinishes, Up
      <3>2. RecordOK(rec') /\ rec'.state = "idle" /\ rec'.stop = "refresh"
        BY <1>1, <3>1 DEF RecordOK, InMemory, StopPlaces
      <3> QED BY <1>1, <3>1, <3>2 DEF StopKnows, AfterSync
    <2> QED BY <2>1, <2>2
  <1>6. InStop' /\ AtRest'
    BY <1>5 DEF InStop, AtRest
  <1> QED BY <1>3, <1>4, <1>5, <1>6 DEF RecordInv, RecordOK, InMemory, Durable, InOrder, Indexed

(* A new session gets a directory of its own.                              *)
LEMMA SessionMoves ==
    ASSUME RecordInv, SessionStarts \/ SessionStartFails
    PROVE  RecordInv'
  <1> DEFINE s == svc.used + 1
  <1>1. /\ disk \in [Sessions -> Dirs] /\ svc \in Processes /\ svc.phase = "up"
        /\ rec.stop \in {"none", "refresh", "prune"}
    BY DEF RecordInv, SessionStarts, SessionStartFails, Held, Up
  <1>2. s \in Sessions /\ s \in 0 .. MaxSessions
    BY <1>1, RecordingAssumption DEF SessionStarts, SessionStartFails, Sessions, Processes
  <1>3. svc' = [svc EXCEPT !.used = s]
    BY DEF SessionStarts, SessionStartFails
  <1>4. \E m \in {"recording", "torn"} :
           disk' = [disk EXCEPT ![s] = [NoSession EXCEPT !.name = "temp", !.manifest = m,
                                                         !.dirty = {"made"}]]
    BY DEF SessionStarts, SessionStartFails
  <1>5. PICK m \in {"recording", "torn"} :
           disk' = [disk EXCEPT ![s] = [NoSession EXCEPT !.name = "temp", !.manifest = m,
                                                         !.dirty = {"made"}]]
    BY <1>4
  <1>10. /\ RecordOK(rec') /\ rec'.id = s /\ rec'.state \in {"recording", "faulted"}
         /\ rec'.stop = rec.stop
    <2> HIDE DEF s
    <2>1. CASE SessionStarts
      <3>1. rec' = [IdleSession EXCEPT !.state = "recording", !.id = s, !.existing = rec.seen,
                                       !.stop = rec.stop]
        BY <2>1 DEF SessionStarts, s
      <3> QED BY <1>1, <1>2, <3>1 DEF RecordOK, InMemory, IdleSession, StopPlaces, StartPlaces
    <2>2. CASE SessionStartFails
      <3>1. rec' = [IdleSession EXCEPT !.state = "faulted", !.id = s, !.stop = rec.stop]
        BY <2>2 DEF SessionStartFails, s
      <3> QED BY <1>1, <1>2, <3>1 DEF RecordOK, InMemory, IdleSession, StopPlaces, StartPlaces
    <2> QED BY <2>1, <2>2
  <1> HIDE DEF s
  <1>6. svc' \in Processes /\ svc'.power = svc.power /\ svc'.phase = "up"
    BY <1>1, <1>2, <1>3 DEF Processes
  <1> DEFINE d == [NoSession EXCEPT !.name = "temp", !.manifest = m, !.dirty = {"made"}]
  <1>7. d \in Dirs /\ d.name = "temp" /\ d.lines = << >> /\ d.cached = 0 /\ d.synced = 0
    <2>1. NoSession \in Dirs /\ NoSession.lines = << >> /\ NoSession.cached = 0
          /\ NoSession.synced = 0
      BY NothingRecorded DEF NoSession
    <2>2. {"made"} \in SUBSET DirtKinds
      BY DEF DirtKinds
    <2> QED BY <2>1, <2>2 DEF Dirs
  <1>8. disk' = [disk EXCEPT ![s] = d]
    BY <1>5
  <1> HIDE DEF d
  <1>9. Durable(d) /\ InOrder(d) /\ Indexed(d)
    BY <1>7 DEF Durable, InOrder, Indexed
  <1>11. StopKnows(rec', d)
    BY <1>1, <1>2, <1>7, <1>10 DEF StopKnows, AfterSync
  <1>12. /\ disk' \in [Sessions -> Dirs] /\ disk'[s] = d
         /\ \A t \in Sessions : t # s => disk'[t] = disk[t]
    BY <1>1, <1>2, <1>7, <1>8
  <1> QED BY <1>2, <1>6, <1>7, <1>9, <1>10, <1>11, <1>12, DirectoryMoves

(* The session in memory writes to its own directory.                      *)
LEMMA OwnMoves ==
    ASSUME RecordInv, NEW d \in Dirs, rec.id \in Sessions,
           disk' \in [Sessions -> Dirs], disk'[rec.id] = d,
           \A t \in Sessions : t # rec.id => disk'[t] = disk[t],
           Durable(d), InOrder(d), ~svc.power => Indexed(d),
           RecordOK(rec'), rec'.id = rec.id, Up, svc' = svc, StopKnows(rec', d)
    PROVE  RecordInv'
  <1>1. svc \in Processes /\ svc'.phase = "up"
    BY DEF RecordInv, Up
  <1> QED BY <1>1, DirectoryMoves

LEMMA OwnIs ==
    ASSUME RecordInv, rec.state # "idle"
    PROVE  /\ rec.id \in Sessions /\ Own \in Dirs /\ disk \in [Sessions -> Dirs]
           /\ Durable(Own) /\ InOrder(Own) /\ (~svc.power => Indexed(Own))
           /\ RecordOK(rec) /\ StopKnows(rec, Own)
           /\ Len(Own.lines) \in Nat
  BY DEF RecordInv, InStop, StopKnows, Own, Dirs

LEMMA LinesGrow ==
    ASSUME NEW q \in Seq({"line", "file"}), NEW x \in {"line", "file"}
    PROVE  /\ Append(q, x) \in Seq({"line", "file"}) /\ Len(Append(q, x)) = Len(q) + 1
           /\ Append(q, x)[Len(q) + 1] = x
           /\ \A i \in 1 .. Len(q) : Append(q, x)[i] = q[i]
           /\ \A i \in 1 .. Len(q) + 1 : i \in 1 .. Len(q) \/ i = Len(q) + 1
           /\ Len(q) + 1 \in Nat
  <1>1. Len(q) \in Nat
    OBVIOUS
  <1> QED BY <1>1, AppendProperties

LEMMA LineMoves ==
    ASSUME RecordInv, AppendLine \/ AppendDataFile
    PROVE  RecordInv'
  <1>1. rec.state = "recording" /\ rec.stop \in {"none", "refresh", "prune"} /\ Up /\ svc' = svc
    BY DEF AppendLine, AppendDataFile, Recording, Held
  <1>2. /\ rec.id \in Sessions /\ Own \in Dirs /\ disk \in [Sessions -> Dirs]
        /\ Durable(Own) /\ InOrder(Own) /\ (~svc.power => Indexed(Own))
        /\ RecordOK(rec) /\ StopKnows(rec, Own) /\ Len(Own.lines) \in Nat
        /\ Own.name # "final" /\ Own.lines \in Seq({"line", "file"})
    BY <1>1, OwnIs DEF StopKnows, Dirs
  <1>3. /\ RecordOK(rec') /\ rec'.id = rec.id /\ rec'.stop = rec.stop
        /\ rec'.state \in {"recording", "faulted"}
    <2>1. rec.bytes + 1 \in Nat /\ rec.bytes + 2 \in Nat
      BY <1>2 DEF RecordOK, InMemory
    <2> DEFINE a == rec.bytes + 1
               b == rec.bytes + 2
    <2>2. \/ rec' = [rec EXCEPT !.bytes = a] \/ rec' = [rec EXCEPT !.bytes = b]
          \/ rec' = [rec EXCEPT !.bytes = a, !.state = "faulted"]
      BY DEF AppendLine, AppendDataFile, SetFault
    <2>3. a \in Nat /\ b \in Nat
      BY <2>1
    <2> HIDE DEF a, b
    <2> QED BY <1>1, <1>2, <2>2, <2>3 DEF RecordOK, InMemory
  <1>4. SUFFICES ASSUME NEW d \in Dirs, disk' = [disk EXCEPT ![rec.id] = d], d.name = Own.name,
                        d.cached = Own.cached, d.synced = Own.synced,
                        \/ d.lines = Own.lines /\ Own.arts \subseteq d.arts
                        \/ d.lines = Append(Own.lines, "line") /\ d.arts = Own.arts
                        \/ /\ d.lines = Append(Own.lines, "file")
                           /\ d.arts = Own.arts \cup {Len(Own.lines) + 1}
                 PROVE  RecordInv'
    <2>1. CASE AppendLine
      <3> DEFINE q == Append(Own.lines, "line")
                 e == Own.dirty \cup {"log"}
                 d == [Own EXCEPT !.lines = q, !.dirty = e]
      <3>1. disk' = [disk EXCEPT ![rec.id] = d]
        <4> DEFINE u == [Own EXCEPT !.lines = q]
                   D == [disk EXCEPT ![rec.id] = u]
        <4>1. disk' = [D EXCEPT ![rec.id] = [D[rec.id] EXCEPT !.dirty = D[rec.id].dirty \cup {"log"}]]
          BY <2>1 DEF AppendLine, Own
        <4>2. D[rec.id] = u /\ u.dirty = Own.dirty /\ d = [u EXCEPT !.dirty = e]
          BY <1>2 DEF Dirs
        <4>3. disk' = [D EXCEPT ![rec.id] = d]
          BY <4>1, <4>2
        <4> HIDE DEF d, u
        <4>4. [[disk EXCEPT ![rec.id] = u] EXCEPT ![rec.id] = d] = [disk EXCEPT ![rec.id] = d]
          BY <1>2, WrittenTwice
        <4> QED BY <4>3, <4>4
      <3>2. q \in Seq({"line", "file"}) /\ e \in SUBSET DirtKinds
        BY <1>2 DEF Dirs, DirtKinds
      <3> HIDE DEF q, e
      <3>3. /\ d \in Dirs /\ d.name = Own.name /\ d.cached = Own.cached /\ d.synced = Own.synced
            /\ d.arts = Own.arts /\ d.lines = q
        BY <1>2, <3>2 DEF Dirs
      <3> HIDE DEF d
      <3> QED BY <1>4, <3>1, <3>3 DEF q
    <2>2. CASE AppendDataFile
      <3> DEFINE q == IF Room(2) THEN Append(Own.lines, "file") ELSE Own.lines
                 e == Own.dirty \cup {"log", "art"}
                 f == Own.arts \cup {Len(Own.lines) + 1}
                 d == [Own EXCEPT !.arts = f, !.lines = q, !.dirty = e]
      <3>1. disk' = [disk EXCEPT ![rec.id] = d]
        <4>1. disk' = [disk EXCEPT ![rec.id] =
                        [Own EXCEPT !.arts = @ \cup {Len(Own.lines) + 1},
                                    !.lines = IF Room(2) THEN Append(@, "file") ELSE @,
                                    !.dirty = @ \cup {"log", "art"}]]
          BY <2>2 DEF AppendDataFile
        <4>2. [Own EXCEPT !.arts = f].lines = Own.lines
              /\ [Own EXCEPT !.arts = f, !.lines = q].dirty = Own.dirty
          BY <1>2 DEF Dirs
        <4> QED BY <4>1, <4>2
      <3>2. q \in Seq({"line", "file"}) /\ e \in SUBSET DirtKinds /\ f \in SUBSET Nat
        BY <1>2 DEF Dirs, DirtKinds
      <3>3. q = Own.lines \/ q = Append(Own.lines, "file")
        OBVIOUS
      <3> HIDE DEF q, e, f
      <3>4. /\ d \in Dirs /\ d.name = Own.name /\ d.cached = Own.cached /\ d.synced = Own.synced
            /\ d.arts = f /\ d.lines = q
        BY <1>2, <3>2 DEF Dirs
      <3> HIDE DEF d
      <3>5. Own.arts \subseteq f
        BY DEF f
      <3> QED BY <1>4, <3>1, <3>3, <3>4, <3>5 DEF f
    <2> QED BY <2>1, <2>2
  <1>5. /\ disk' \in [Sessions -> Dirs] /\ disk'[rec.id] = d
        /\ \A t \in Sessions : t # rec.id => disk'[t] = disk[t]
    BY <1>2, <1>4
  <1>6. Durable(d)
    BY <1>2, <1>4 DEF Durable
  <1>7. InOrder(d)
    <2>1. Len(d.lines) \in {Len(Own.lines), Len(Own.lines) + 1}
      BY <1>2, <1>4, LinesGrow
    <2>2. Own.cached \in Nat /\ Own.synced \in Nat
      BY <1>2 DEF Dirs
    <2> QED BY <1>2, <1>4, <2>1, <2>2 DEF InOrder
  <1>8. ASSUME ~svc.power PROVE Indexed(d)
    <2>1. \A i \in 1 .. Len(Own.lines) : Own.lines[i] = "file" => i \in Own.arts
      BY <1>2, <1>8 DEF Indexed
    <2>2. CASE d.lines = Own.lines /\ Own.arts \subseteq d.arts
      BY <2>1, <2>2 DEF Indexed
    <2>3. CASE d.lines = Append(Own.lines, "line") /\ d.arts = Own.arts
      BY <1>2, <2>1, <2>3, LinesGrow DEF Indexed
    <2>4. CASE d.lines = Append(Own.lines, "file") /\ d.arts = Own.arts \cup {Len(Own.lines) + 1}
      BY <1>2, <2>1, <2>4, LinesGrow DEF Indexed
    <2> QED BY <1>4, <2>2, <2>3, <2>4
  <1>9. StopKnows(rec', d)
    BY <1>1, <1>2, <1>3, <1>4 DEF StopKnows, AfterSync
  <1> QED BY <1>1, <1>2, <1>3, <1>4, <1>5, <1>6, <1>7, <1>8, <1>9, OwnMoves

(* A write that leaves the lines and the artifacts alone.                  *)
LEMMA MarksMove ==
    ASSUME RecordInv, rec.state # "idle", NEW d \in Dirs, disk' = [disk EXCEPT ![rec.id] = d],
           d.lines = Own.lines, d.arts = Own.arts, Durable(d), InOrder(d),
           RecordOK(rec'), rec'.id = rec.id, Up, svc' = svc, StopKnows(rec', d)
    PROVE  RecordInv'
  <1>1. rec.id \in Sessions /\ disk \in [Sessions -> Dirs] /\ (~svc.power => Indexed(Own))
    BY OwnIs
  <1>2. /\ disk' \in [Sessions -> Dirs] /\ disk'[rec.id] = d
        /\ \A t \in Sessions : t # rec.id => disk'[t] = disk[t]
    BY <1>1
  <1>3. ~svc.power => Indexed(d)
    BY <1>1 DEF Indexed
  <1> QED BY <1>1, <1>2, <1>3, OwnMoves

LEMMA BufferMoves ==
    ASSUME RecordInv, Flush \/ StopFaulted \/ StopCloses
    PROVE  RecordInv'
  <1>1. /\ rec.state # "idle" /\ Up /\ svc' = svc
        /\ disk' = [disk EXCEPT ![rec.id] = [disk[rec.id] EXCEPT !.cached = Len(Own.lines)]]
    BY DEF Flush, StopFaulted, StopCloses, StopStep, Recording, RecordInv, InStop, StopKnows
  <1>2. /\ rec.id \in Sessions /\ Own \in Dirs /\ disk \in [Sessions -> Dirs]
        /\ Durable(Own) /\ InOrder(Own) /\ RecordOK(rec) /\ StopKnows(rec, Own)
        /\ Len(Own.lines) \in Nat /\ Own = disk[rec.id]
    BY <1>1, OwnIs DEF Own
  <1> DEFINE n == Len(Own.lines)
             d == [Own EXCEPT !.cached = n]
  <1>3. disk' = [disk EXCEPT ![rec.id] = d]
    BY <1>1, <1>2
  <1>4. n \in Nat /\ Own.synced \in Nat /\ Own.cached \in Nat
    BY <1>2 DEF Dirs
  <1>5. Own.cached < n \/ rec.stop = "close"
    BY DEF Flush, StopFaulted, StopCloses, StopStep
  <1>6. Own.name # "final"
    BY <1>2, <1>4, <1>5 DEF Durable, StopKnows, AfterSync
  <1>7. n = Len(Own.lines)
    OBVIOUS
  <1> HIDE DEF n
  <1>8. /\ d \in Dirs /\ d.name = Own.name /\ d.lines = Own.lines /\ d.arts = Own.arts
        /\ d.cached = n /\ d.synced = Own.synced /\ d.dirty = Own.dirty
        /\ d.manifest = Own.manifest /\ d.count = Own.count /\ d.complete = Own.complete
    BY <1>2, <1>4 DEF Dirs
  <1> HIDE DEF d
  <1>9. Durable(d) /\ InOrder(d)
    BY <1>2, <1>4, <1>6, <1>7, <1>8 DEF Durable, InOrder
  <1>10. RecordOK(rec') /\ rec'.id = rec.id /\ StopKnows(rec', d)
    <2>1. CASE Flush \/ StopFaulted
      <3>1. rec' = rec
        BY <2>1 DEF Flush, StopFaulted
      <3> QED BY <1>2, <1>7, <1>8, <3>1 DEF StopKnows
    <2>2. CASE StopCloses
      <3>1. rec' = [rec EXCEPT !.stop = "sync"] /\ rec.stop = "close"
        BY <2>2 DEF StopCloses, StopStep
      <3>2. RecordOK(rec') /\ rec'.state = rec.state /\ rec'.id = rec.id /\ rec'.stop = "sync"
        BY <1>2, <3>1 DEF RecordOK, InMemory, StopPlaces
      <3> QED BY <1>2, <1>7, <1>8, <3>1, <3>2 DEF StopKnows, AfterSync
    <2> QED BY <2>1, <2>2
  <1> QED BY <1>1, <1>3, <1>8, <1>9, <1>10, MarksMove

(* A step of a Stop that only changes marks and what is not yet on disk.   *)
LEMMA StopMoves ==
    ASSUME RecordInv,
           \/ StopSyncs \/ StopManifest \/ StopManifestSync \/ StopMarker \/ StopDir
           \/ StopRenames
    PROVE  RecordInv'
  <1>1. rec.stop \in {"sync"} \cup AfterSync /\ Up /\ svc' = svc
    BY DEF StopSyncs, StopManifest, StopManifestSync, StopMarker, StopDir, StopRenames,
           StopStep, AfterSync
  <1>2. rec.state = "recording"
    BY <1>1 DEF RecordInv, InStop, StopKnows, AfterSync
  <1>3. /\ rec.id \in Sessions /\ Own \in Dirs /\ disk \in [Sessions -> Dirs]
        /\ Durable(Own) /\ InOrder(Own) /\ RecordOK(rec) /\ StopKnows(rec, Own)
        /\ Len(Own.lines) \in Nat /\ Own = disk[rec.id]
    BY <1>2, OwnIs DEF Own
  <1>4. Own.cached = Len(Own.lines)
    BY <1>1, <1>3 DEF StopKnows
  <1>5. /\ Own.synced \in Nat /\ Own.cached \in Nat /\ Own.dirty \in SUBSET DirtKinds
    BY <1>3 DEF Dirs
  <1>6. ASSUME NEW c \in StopPlaces, rec' = [rec EXCEPT !.stop = c]
        PROVE  /\ RecordOK(rec') /\ rec'.id = rec.id /\ rec'.stop = c /\ rec'.state = "recording"
    BY <1>2, <1>3, <1>6 DEF RecordOK, InMemory
  <1>7. AfterSync \subseteq StopPlaces
    BY DEF StopPlaces
  <1>8. ASSUME NEW E \in SUBSET DirtKinds, disk' = [disk EXCEPT ![rec.id].dirty = E]
        PROVE  \E d \in Dirs :
                 /\ disk' = [disk EXCEPT ![rec.id] = d] /\ d.dirty = E
                 /\ d.name = Own.name /\ d.lines = Own.lines /\ d.arts = Own.arts
                 /\ d.cached = Own.cached /\ d.synced = Own.synced
                 /\ d.manifest = Own.manifest /\ d.count = Own.count /\ d.complete = Own.complete
    <2> DEFINE d == [Own EXCEPT !.dirty = E]
    <2>1. disk' = [disk EXCEPT ![rec.id] = d]
      BY <1>3, <1>8
    <2>2. /\ d \in Dirs /\ d.dirty = E
          /\ d.name = Own.name /\ d.lines = Own.lines /\ d.arts = Own.arts
          /\ d.cached = Own.cached /\ d.synced = Own.synced
          /\ d.manifest = Own.manifest /\ d.count = Own.count /\ d.complete = Own.complete
      BY <1>3 DEF Dirs
    <2> HIDE DEF d
    <2> QED BY <2>1, <2>2
  <1>9. ASSUME NEW u, NEW d, disk' = [[disk EXCEPT ![rec.id] = u] EXCEPT ![rec.id] = d]
        PROVE  disk' = [disk EXCEPT ![rec.id] = d]
    <2>1. [[disk EXCEPT ![rec.id] = u] EXCEPT ![rec.id] = d] = [disk EXCEPT ![rec.id] = d]
      BY <1>3, WrittenTwice
    <2> QED BY <1>9, <2>1
  <1>10. CASE StopManifestSync \/ StopDir
    <2>1. PICK x \in {"manifest", "complete"} :
             /\ disk' = [disk EXCEPT ![rec.id].dirty = (@ \cup {}) \ {x}]
             /\ x = "manifest" => rec.stop = "fsync" /\ rec' = [rec EXCEPT !.stop = "marker"]
             /\ x = "complete" => rec.stop = "dir" /\ rec' = [rec EXCEPT !.stop = "rename"]
      BY <1>10 DEF StopManifestSync, StopDir, StopStep, Dirt
    <2> DEFINE E == (Own.dirty \cup {}) \ {x}
    <2>2. disk' = [disk EXCEPT ![rec.id].dirty = E] /\ E \in SUBSET DirtKinds
      BY <1>3, <1>5, <2>1
    <2>3. E = Own.dirty \ {x}
      OBVIOUS
    <2> HIDE DEF E
    <2>4. PICK d \in Dirs :
                 /\ disk' = [disk EXCEPT ![rec.id] = d] /\ d.dirty = E
                 /\ d.name = Own.name /\ d.lines = Own.lines /\ d.arts = Own.arts
                 /\ d.cached = Own.cached /\ d.synced = Own.synced
                 /\ d.manifest = Own.manifest /\ d.count = Own.count /\ d.complete = Own.complete
      BY <1>8, <2>2
    <2>5. /\ RecordOK(rec') /\ rec'.id = rec.id /\ rec'.state = "recording"
          /\ rec'.stop = IF x = "manifest" THEN "marker" ELSE "rename"
      <3>1. "marker" \in StopPlaces /\ "rename" \in StopPlaces
        BY <1>7 DEF AfterSync
      <3> QED BY <1>6, <2>1, <3>1
    <2>6. Own.name # "final"
      BY <1>2, <1>3, <2>1 DEF StopKnows
    <2>7. Durable(d) /\ InOrder(d)
      BY <1>3, <2>4, <2>6 DEF Durable, InOrder
    <2>8. StopKnows(rec', d)
      BY <1>3, <2>1, <2>3, <2>4, <2>5 DEF StopKnows, AfterSync
    <2> QED BY <1>1, <1>2, <2>4, <2>5, <2>7, <2>8, MarksMove
  <1>11. CASE StopSyncs
    <2> DEFINE E == (Own.dirty \cup {}) \ {"log"}
               n == Len(Own.lines)
               u == [Own EXCEPT !.dirty = E]
               d == [Own EXCEPT !.dirty = E, !.synced = n]
    <2>1. rec.stop = "sync" /\ rec' = [rec EXCEPT !.stop = "manifest"]
      BY <1>11 DEF StopSyncs, StopStep
    <2>2. disk' = [disk EXCEPT ![rec.id] = d]
      <3>1. disk' = [[disk EXCEPT ![rec.id] = u] EXCEPT ![rec.id] =
                        [[disk EXCEPT ![rec.id] = u][rec.id] EXCEPT !.synced = n]]
        BY <1>3, <1>11 DEF StopSyncs, Dirt
      <3>2. [disk EXCEPT ![rec.id] = u][rec.id] = u
        BY <1>3
      <3>3. disk' = [[disk EXCEPT ![rec.id] = u] EXCEPT ![rec.id] = d]
        BY <3>1, <3>2
      <3> HIDE DEF u, d
      <3> QED BY <1>9, <3>3
    <2>3. E \in SUBSET DirtKinds /\ E = Own.dirty \ {"log"} /\ n \in Nat /\ n = Own.cached
      BY <1>3, <1>4, <1>5
    <2> HIDE DEF E, n
    <2>4. /\ d \in Dirs /\ d.dirty = E
          /\ d.name = Own.name /\ d.lines = Own.lines /\ d.arts = Own.arts
          /\ d.cached = Own.cached /\ d.synced = n
          /\ d.manifest = Own.manifest /\ d.count = Own.count /\ d.complete = Own.complete
      BY <1>3, <2>3 DEF Dirs
    <2> HIDE DEF d
    <2>5. /\ RecordOK(rec') /\ rec'.id = rec.id /\ rec'.state = "recording"
          /\ rec'.stop = "manifest"
      BY <1>6, <1>7, <2>1 DEF AfterSync
    <2>6. Own.name # "final"
      BY <1>2, <1>3, <2>1 DEF StopKnows
    <2>7. Durable(d) /\ InOrder(d)
      BY <1>3, <1>4, <1>5, <2>3, <2>4, <2>6 DEF Durable, InOrder
    <2>8. StopKnows(rec', d)
      BY <1>3, <2>1, <2>3, <2>4, <2>5, <2>6 DEF StopKnows, AfterSync
    <2> QED BY <1>1, <1>2, <2>2, <2>4, <2>5, <2>7, <2>8, MarksMove
  <1>12. CASE StopManifest
    <2> DEFINE E == Own.dirty \cup {"manifest"}
               n == Len(Own.lines)
               u == [Own EXCEPT !.manifest = "complete"]
               w == [Own EXCEPT !.manifest = "complete", !.count = n]
               d == [Own EXCEPT !.manifest = "complete", !.count = n, !.dirty = E]
    <2>1. rec.stop = "manifest" /\ rec' = [rec EXCEPT !.stop = "fsync"]
      BY <1>12 DEF StopManifest, StopStep
    <2>2. disk' = [disk EXCEPT ![rec.id] = d]
      <3> DEFINE U == [disk EXCEPT ![rec.id] = u]
                 W == [U EXCEPT ![rec.id] = [U[rec.id] EXCEPT !.count = n]]
      <3>1. disk' = [W EXCEPT ![rec.id] = [W[rec.id] EXCEPT !.dirty = W[rec.id].dirty \cup {"manifest"}]]
        BY <1>3, <1>12 DEF StopManifest
      <3>2. U[rec.id] = u /\ [u EXCEPT !.count = n] = w /\ w.dirty = Own.dirty
        BY <1>3 DEF Dirs
      <3> HIDE DEF u, w
      <3>3. [[disk EXCEPT ![rec.id] = u] EXCEPT ![rec.id] = w] = [disk EXCEPT ![rec.id] = w]
        BY <1>3, WrittenTwice
      <3>4. W = [disk EXCEPT ![rec.id] = w] /\ W[rec.id] = w
        BY <1>3, <3>2, <3>3
      <3> HIDE DEF W
      <3>5. disk' = [[disk EXCEPT ![rec.id] = w] EXCEPT ![rec.id] = [w EXCEPT !.dirty = E]]
        BY <3>1, <3>2, <3>4
      <3>6. [w EXCEPT !.dirty = E] = d
        BY DEF w
      <3> HIDE DEF d
      <3> QED BY <1>9, <3>5, <3>6
    <2>3. E \in SUBSET DirtKinds /\ E = Own.dirty \cup {"manifest"} /\ n \in Nat /\ n = Len(Own.lines)
      BY <1>3, <1>5 DEF DirtKinds
    <2> HIDE DEF E, n
    <2>4. /\ d \in Dirs /\ d.dirty = E
          /\ d.name = Own.name /\ d.lines = Own.lines /\ d.arts = Own.arts
          /\ d.cached = Own.cached /\ d.synced = Own.synced
          /\ d.manifest = "complete" /\ d.count = n /\ d.complete = Own.complete
      BY <1>3, <2>3 DEF Dirs
    <2> HIDE DEF d
    <2>5. /\ RecordOK(rec') /\ rec'.id = rec.id /\ rec'.state = "recording"
          /\ rec'.stop = "fsync"
      BY <1>6, <1>7, <2>1 DEF AfterSync
    <2>6. Own.name # "final"
      BY <1>2, <1>3, <2>1 DEF StopKnows
    <2>7. Durable(d) /\ InOrder(d)
      BY <1>3, <2>4, <2>6 DEF Durable, InOrder
    <2>8. StopKnows(rec', d)
      BY <1>3, <2>1, <2>3, <2>4, <2>5, <2>6 DEF StopKnows, AfterSync
    <2> QED BY <1>1, <1>2, <2>2, <2>4, <2>5, <2>7, <2>8, MarksMove
  <1>13. CASE StopMarker
    <2> DEFINE E == (Own.dirty \cup {"complete"}) \ {}
               u == [Own EXCEPT !.dirty = E]
               d == [Own EXCEPT !.dirty = E, !.complete = TRUE]
    <2>1. rec.stop = "marker" /\ rec' = [rec EXCEPT !.stop = "dir"]
      BY <1>13 DEF StopMarker, StopStep
    <2>2. disk' = [disk EXCEPT ![rec.id] = d]
      <3>1. disk' = [[disk EXCEPT ![rec.id] = u] EXCEPT ![rec.id] =
                        [[disk EXCEPT ![rec.id] = u][rec.id] EXCEPT !.complete = TRUE]]
        BY <1>3, <1>13 DEF StopMarker, Dirt
      <3>2. [disk EXCEPT ![rec.id] = u][rec.id] = u
        BY <1>3
      <3>3. disk' = [[disk EXCEPT ![rec.id] = u] EXCEPT ![rec.id] = d]
        BY <3>1, <3>2
      <3> HIDE DEF u, d
      <3> QED BY <1>9, <3>3
    <2>3. E \in SUBSET DirtKinds /\ E = Own.dirty \cup {"complete"}
      BY <1>5 DEF DirtKinds
    <2> HIDE DEF E
    <2>4. /\ d \in Dirs /\ d.dirty = E
          /\ d.name = Own.name /\ d.lines = Own.lines /\ d.arts = Own.arts
          /\ d.cached = Own.cached /\ d.synced = Own.synced
          /\ d.manifest = Own.manifest /\ d.count = Own.count /\ d.complete = TRUE
      BY <1>3, <2>3 DEF Dirs
    <2> HIDE DEF d
    <2>5. /\ RecordOK(rec') /\ rec'.id = rec.id /\ rec'.state = "recording"
          /\ rec'.stop = "dir"
      BY <1>6, <1>7, <2>1 DEF AfterSync
    <2>6. Own.name # "final"
      BY <1>2, <1>3, <2>1 DEF StopKnows
    <2>7. Durable(d) /\ InOrder(d)
      BY <1>3, <2>4, <2>6 DEF Durable, InOrder
    <2>8. StopKnows(rec', d)
      BY <1>3, <2>1, <2>3, <2>4, <2>5, <2>6 DEF StopKnows, AfterSync
    <2> QED BY <1>1, <1>2, <2>2, <2>4, <2>5, <2>7, <2>8, MarksMove
  <1>14. CASE StopRenames /\ Hidden(rec.id)
    <2> DEFINE E == (Own.dirty \cup {"name"}) \ {}
               u == [Own EXCEPT !.dirty = E]
               d == [Own EXCEPT !.dirty = E, !.name = "final"]
    <2>1. rec.stop = "rename" /\ rec' = [rec EXCEPT !.stop = "parent"] /\ Own.name = "temp"
      BY <1>3, <1>14 DEF StopRenames, Hidden
    <2>2. disk' = [disk EXCEPT ![rec.id] = d]
      <3>1. disk' = [[disk EXCEPT ![rec.id] = u] EXCEPT ![rec.id] =
                        [[disk EXCEPT ![rec.id] = u][rec.id] EXCEPT !.name = "final"]]
        BY <1>3, <1>14 DEF StopRenames, Dirt
      <3>2. [disk EXCEPT ![rec.id] = u][rec.id] = u
        BY <1>3
      <3>3. disk' = [[disk EXCEPT ![rec.id] = u] EXCEPT ![rec.id] = d]
        BY <3>1, <3>2
      <3> HIDE DEF u, d
      <3> QED BY <1>9, <3>3
    <2>3. E \in SUBSET DirtKinds /\ E = Own.dirty \cup {"name"}
      BY <1>5 DEF DirtKinds
    <2> HIDE DEF E
    <2>4. /\ d \in Dirs /\ d.dirty = E
          /\ d.name = "final" /\ d.lines = Own.lines /\ d.arts = Own.arts
          /\ d.cached = Own.cached /\ d.synced = Own.synced
          /\ d.manifest = Own.manifest /\ d.count = Own.count /\ d.complete = Own.complete
      BY <1>3, <2>3 DEF Dirs
    <2> HIDE DEF d
    <2>5. /\ RecordOK(rec') /\ rec'.id = rec.id /\ rec'.state = "recording"
          /\ rec'.stop = "parent"
      BY <1>6, <1>7, <2>1 DEF AfterSync
    <2>6. /\ Own.complete /\ Own.manifest = "complete" /\ Own.count = Len(Own.lines)
          /\ "log" \notin Own.dirty /\ "manifest" \notin Own.dirty /\ "complete" \notin Own.dirty
      BY <1>3, <1>14, <2>1 DEF StopKnows, AfterSync
    <2>7. Durable(d) /\ InOrder(d)
      BY <1>3, <1>4, <2>3, <2>4, <2>6 DEF Durable, InOrder
    <2>8. StopKnows(rec', d)
      BY <1>3, <1>4, <2>1, <2>3, <2>4, <2>5, <2>6 DEF StopKnows, AfterSync
    <2> QED BY <1>1, <1>2, <2>2, <2>4, <2>5, <2>7, <2>8, MarksMove
  <1>15. CASE StopRenames /\ ~Hidden(rec.id)
    <2>1. disk' = disk /\ rec' = [rec EXCEPT !.stop = "none", !.state = "faulted"]
      BY <1>15 DEF StopRenames, SetFault
    <2>2. RecordOK(rec') /\ rec'.state = "faulted" /\ rec'.id = rec.id /\ rec'.stop = "none"
      BY <1>3, <2>1 DEF RecordOK, InMemory, StopPlaces
    <2>3. StopKnows(rec', disk[rec'.id])
      BY <1>3, <2>2 DEF StopKnows, AfterSync
    <2>4. svc \in Processes /\ svc'.phase = "up"
      BY <1>1 DEF RecordInv, Up
    <2> QED BY <1>1, <2>1, <2>2, <2>3, <2>4, MemoryMoves
  <1> QED BY <1>10, <1>11, <1>12, <1>13, <1>14, <1>15

LEMMA LinesCut ==
    ASSUME NEW q \in Seq({"line", "file"}), NEW n \in Nat, n <= Len(q)
    PROVE  /\ SubSeq(q, 1, n) \in Seq({"line", "file"}) /\ Len(SubSeq(q, 1, n)) = n
           /\ \A i \in 1 .. n : SubSeq(q, 1, n)[i] = q[i]
  <1>1. \A i \in 1 .. n : q[i] \in {"line", "file"}
    OBVIOUS
  <1> QED BY <1>1, SubSeqProperties

(* The process dies, alone or with the power, at whatever step it is.      *)
LEMMA Crashes ==
    ASSUME RecordInv, ProcessDies \/ PowerLoss
    PROVE  RecordInv'
  <1>1. /\ disk \in [Sessions -> Dirs] /\ svc \in Processes
        /\ \A s \in Sessions : Durable(disk[s]) /\ InOrder(disk[s])
        /\ ~svc.power => \A s \in Sessions : Indexed(disk[s])
    BY DEF RecordInv
  <1>2. rec' = IdleSession
    BY DEF ProcessDies, PowerLoss, Dies
  <1>3. RecordOK(rec') /\ InStop' /\ AtRest'
    BY <1>2, NothingRecorded DEF InStop, AtRest
  <1>4. SUFFICES /\ disk' \in [Sessions -> Dirs] /\ svc' \in Processes
                 /\ \A s \in Sessions : Durable(disk'[s]) /\ InOrder(disk'[s])
                 /\ ~svc'.power => \A s \in Sessions : Indexed(disk'[s])
    BY <1>3, <1>4 DEF RecordInv, RecordOK, InMemory, Durable, InOrder, Indexed
  <1>5. CASE ProcessDies
    <2>1. svc' = [svc EXCEPT !.phase = "off", !.at = 0] /\ disk' = Died(disk)
      BY <1>5 DEF ProcessDies
    <2>2. svc' \in Processes /\ svc'.power = svc.power
      <3>1. 0 \in 0 .. MaxSessions
        BY RecordingAssumption
      <3> QED BY <1>1, <2>1, <3>1 DEF Processes, Phases
    <2>3. ASSUME NEW s \in Sessions
          PROVE  /\ Died(disk)[s] \in Dirs /\ Durable(Died(disk)[s]) /\ InOrder(Died(disk)[s])
                 /\ (~svc.power => Indexed(Died(disk)[s]))
      <3> DEFINE d == disk[s]
                 q == SubSeq(d.lines, 1, d.cached)
                 e == [d EXCEPT !.lines = q]
      <3>1. Died(disk)[s] = e
        BY DEF Died
      <3>2. d \in Dirs /\ Durable(d) /\ InOrder(d) /\ (~svc.power => Indexed(d))
        BY <1>1
      <3> HIDE DEF d
      <3>3. /\ d.lines \in Seq({"line", "file"}) /\ d.cached \in Nat /\ d.synced \in Nat
            /\ d.cached <= Len(d.lines) /\ d.synced <= d.cached /\ Len(d.lines) \in Nat
        BY <3>2 DEF Dirs, InOrder
      <3>4. /\ q \in Seq({"line", "file"}) /\ Len(q) = d.cached
            /\ \A i \in 1 .. d.cached : q[i] = d.lines[i]
        BY <3>3, LinesCut
      <3> HIDE DEF q
      <3>5. /\ e \in Dirs /\ e.lines = q /\ e.name = d.name /\ e.cached = d.cached
            /\ e.synced = d.synced /\ e.arts = d.arts /\ e.manifest = d.manifest
            /\ e.count = d.count /\ e.complete = d.complete /\ e.dirty = d.dirty
        BY <3>2, <3>4 DEF Dirs
      <3> HIDE DEF e
      <3>6. Durable(e)
        BY <3>2, <3>4, <3>5 DEF Durable
      <3>7. InOrder(e)
        BY <3>3, <3>4, <3>5 DEF InOrder
      <3>8. ~svc.power => Indexed(e)
        <4> SUFFICES ASSUME ~svc.power, NEW i \in 1 .. Len(q), q[i] = "file" PROVE i \in d.arts
          BY <3>5 DEF Indexed
        <4>1. i \in 1 .. Len(d.lines) /\ d.lines[i] = "file"
          BY <3>3, <3>4
        <4> QED BY <3>2, <4>1 DEF Indexed
      <3> QED BY <3>1, <3>5, <3>6, <3>7, <3>8
    <2>4. disk' \in [Sessions -> Dirs]
      <3>1. Died(disk) = [s \in Sessions |-> Died(disk)[s]]
        BY DEF Died
      <3> HIDE DEF Died
      <3> QED BY <2>1, <2>3, <3>1
    <2> QED BY <2>1, <2>2, <2>3, <2>4
  <1>6. CASE PowerLoss
    <2>1. svc' = [svc EXCEPT !.phase = "off", !.at = 0, !.power = TRUE]
      BY <1>6 DEF PowerLoss
    <2>2. svc' \in Processes /\ svc'.power
      <3>1. 0 \in 0 .. MaxSessions
        BY RecordingAssumption
      <3> QED BY <1>1, <2>1, <3>1 DEF Processes, Phases
    <2>3. PICK all \in SUBSET UNION {{s} \X disk[s].dirty : s \in Sessions} :
             \E kept : disk' = [s \in Sessions |-> Lost(disk[s], Of(s, all), Of(s, kept))]
      BY <1>6 DEF PowerLoss
    <2>7. PICK kept : disk' = [s \in Sessions |-> Lost(disk[s], Of(s, all), Of(s, kept))]
      BY <2>3
    <2>8. ASSUME NEW s \in Sessions PROVE Of(s, all) \subseteq disk[s].dirty
      <3> SUFFICES ASSUME NEW part, <<s, part>> \in all PROVE part \in disk[s].dirty
        BY DEF Of
      <3>1. PICK x \in Sessions : <<s, part>> \in {x} \X disk[x].dirty
        BY <2>3
      <3> QED BY <3>1
    <2>4. ASSUME NEW s \in Sessions, NEW G \in SUBSET disk[s].dirty, NEW B
          PROVE  Lost(disk[s], G, B) \in Dirs /\ Durable(Lost(disk[s], G, B))
                 /\ InOrder(Lost(disk[s], G, B))
      <3> DEFINE d == disk[s]
                 a == IF "name" \in G THEN "temp" ELSE d.name
                 c == IF "log" \in G THEN d.synced ELSE d.cached
                 q == SubSeq(d.lines, 1, c)
                 f == IF "art" \in G THEN {} ELSE d.arts
                 m == IF "manifest" \in G THEN "torn" ELSE d.manifest
                 x == d.complete /\ "complete" \notin G
                 y == d.interrupted /\ "mark" \notin G
                 z == d.erased \ B
                 e == [d EXCEPT !.name = a, !.cached = c, !.lines = q, !.arts = f, !.manifest = m,
                                !.complete = x, !.interrupted = y, !.dirty = {}, !.erased = z]
      <3>1. d \in Dirs /\ Durable(d) /\ InOrder(d) /\ G \subseteq d.dirty
        BY <1>1
      <3>2. Lost(d, G, B) \in {NoSession, e}
        <4> HIDE DEF d
        <4>1. [d EXCEPT !.name = a].cached = d.cached
          BY <3>1 DEF Dirs
        <4> QED BY <3>1, <4>1 DEF Lost, Dirs
      <3> HIDE DEF d
      <3>3. /\ d.lines \in Seq({"line", "file"}) /\ d.cached \in Nat /\ d.synced \in Nat
            /\ d.cached <= Len(d.lines) /\ d.synced <= d.cached /\ Len(d.lines) \in Nat
            /\ d.name \in {"none", "temp", "interrupted", "final"} /\ d.arts \in SUBSET Nat
            /\ d.manifest \in {"none", "recording", "complete", "torn"}
            /\ d.complete \in BOOLEAN /\ d.interrupted \in BOOLEAN /\ d.erased \in SUBSET Parts
        BY <3>1 DEF Dirs, InOrder
      <3>4. c \in Nat /\ c <= Len(d.lines) /\ d.synced <= c
        BY <3>3
      <3>5. /\ a \in {"none", "temp", "interrupted", "final"} /\ f \in SUBSET Nat
            /\ m \in {"none", "recording", "complete", "torn"} /\ x \in BOOLEAN /\ y \in BOOLEAN
            /\ z \in SUBSET Parts
        BY <3>3
      <3>6. d.name # "final" => a # "final"
        BY <3>3
      <3>7. "log" \notin G => c = d.cached
        OBVIOUS
      <3>8. "manifest" \notin G => m = d.manifest
        OBVIOUS
      <3>9. "complete" \notin G /\ d.complete => x
        OBVIOUS
      <3> HIDE DEF a, c, f, m, x, y, z
      <3>10. q \in Seq({"line", "file"}) /\ Len(q) = c
        BY <3>3, <3>4, LinesCut
      <3> HIDE DEF q
      <3>11. /\ e \in Dirs /\ e.name = a /\ e.cached = c /\ e.lines = q /\ e.manifest = m
             /\ e.complete = x /\ e.dirty = {} /\ e.synced = d.synced /\ e.count = d.count
        <4> DEFINE e1 == [d EXCEPT !.name = a, !.cached = c, !.lines = q, !.arts = f]
        <4>1. e1 \in Dirs
          BY <3>1, <3>4, <3>5, <3>10 DEF Dirs
        <4>2. e = [e1 EXCEPT !.manifest = m, !.complete = x, !.interrupted = y, !.dirty = {},
                             !.erased = z]
          OBVIOUS
        <4>3. /\ e1.name = a /\ e1.cached = c /\ e1.lines = q /\ e1.synced = d.synced
              /\ e1.count = d.count
          BY <3>1 DEF Dirs
        <4> HIDE DEF e, e1
        <4>4. e \in Dirs
          BY <3>5, <4>1, <4>2 DEF Dirs, DirtKinds
        <4>5. /\ e.name = e1.name /\ e.cached = e1.cached /\ e.lines = e1.lines /\ e.manifest = m
              /\ e.complete = x /\ e.dirty = {} /\ e.synced = e1.synced /\ e.count = e1.count
          BY <4>1, <4>2 DEF Dirs
        <4> QED BY <4>3, <4>4, <4>5
      <3> HIDE DEF e
      <3>12. InOrder(e)
        BY <3>4, <3>10, <3>11 DEF InOrder
      <3>13. Durable(e)
        <4> SUFFICES ASSUME a = "final"
                     PROVE  x /\ m = "complete" /\ d.count = c
          BY <3>10, <3>11 DEF Durable
        <4>1. d.name = "final"
          BY <3>6
        <4>2. "log" \notin G /\ "manifest" \notin G /\ "complete" \notin G
          BY <3>1, <4>1 DEF Durable
        <4> QED BY <3>1, <3>7, <3>8, <3>9, <4>1, <4>2 DEF Durable
      <3> QED BY <3>2, <3>11, <3>12, <3>13, NothingRecorded DEF d
    <2>6. \A s \in Sessions : disk'[s] = Lost(disk[s], Of(s, all), Of(s, kept))
      BY <2>7
    <2>9. \A s \in Sessions : disk'[s] \in Dirs /\ Durable(disk'[s]) /\ InOrder(disk'[s])
      BY <2>4, <2>6, <2>8
    <2>5. disk' \in [Sessions -> Dirs]
      BY <2>7, <2>9
    <2> QED BY <2>2, <2>5, <2>9
  <1> QED BY <1>5, <1>6

LEMMA RecordStep ==
    ASSUME RecordInv, RecordingNext
    PROVE  RecordInv'
  <1>1. ASSUME Recorder PROVE RecordInv'
    BY <1>1, RecoverMoves, ParentMoves, RuntimeMoves, CatalogMoves, EraseMoves, NothingWritten,
       SessionMoves, BufferMoves, StopMoves DEF Recorder, Catalog
  <1> QED BY <1>1, RuntimeMoves, NothingWritten, CatalogMoves, SessionMoves, LineMoves, BufferMoves,
             Crashes DEF RecordingNext

LEMMA RecordUntouched ==
    ASSUME RecordInv, UNCHANGED recordingVars
    PROVE  RecordInv'
  BY DEF RecordInv, InStop, AtRest, Own, RecordOK, InMemory, recordingVars

LEMMA WholeOnDisk ==
    ASSUME RecordInv PROVE CompleteIsWhole
  <1> SUFFICES ASSUME NEW s \in Sessions, disk[s].name = "final", disk[s].erased = {}
               PROVE  /\ disk[s].complete /\ disk[s].manifest = "complete" /\ TimelineWhole(s)
                      /\ ~svc.power => Verified(s)
    BY DEF CompleteIsWhole
  <1>1. Durable(disk[s]) /\ (~svc.power => Indexed(disk[s]))
    BY DEF RecordInv
  <1> QED BY <1>1 DEF Durable, Indexed, TimelineWhole, Verified

-----------------------------------------------------------------------------
(* The services together.                                                  *)

ServicesInv == RecordInv /\ NavInv /\ SocketInv

LEMMA ServicesBegin == Init => ServicesInv
  BY RecordBegins, NavBegins, SocketBegins DEF Init, ServicesInv

LEMMA ServicesMove ==
    ServicesInv /\ [Next]_<<driving, helping, showing, scene>> => ServicesInv'
  <1> SUFFICES ASSUME ServicesInv, [Next]_<<driving, helping, showing, scene>>
               PROVE  ServicesInv'
    OBVIOUS
  <1>1. RecordInv /\ NavInv /\ SocketInv
    BY DEF ServicesInv
  <1>2. RecordingNext \/ UNCHANGED recordingVars
    BY DEF Next, Driving, Helping, Showing, driving, helping, showing
  <1>3. NavNext \/ UNCHANGED navVars
    BY DEF Next, Driving, Helping, Showing, driving, helping, showing
  <1>4. SocketNext \/ UNCHANGED socketVars
    BY DEF Next, Driving, Helping, Showing, driving, helping, showing
  <1>5. RecordInv' /\ NavInv' /\ SocketInv'
    BY <1>1, <1>2, <1>3, <1>4, RecordStep, RecordUntouched, NavStep, NavUntouched, SocketStep,
       SocketUntouched
  <1> QED BY <1>5 DEF ServicesInv

(* Nav2 never has two goals of the bridge, or one beside another that is   *)
(* on its way, but for the gap OneGoalAtATime names; and the socket's path *)
(* leads to the one Navigator that serves, which carries out once what it  *)
(* answers (Ros2Nav2Provider's pending_ack_ and pending_cancel_,           *)
(* IpcConnector's lock and inode).                                         *)
THEOREM OneGoalAndOneNavigator == Spec => []OneAtATime
  <1>1. ServicesInv => OneAtATime
    <2> SUFFICES ASSUME ServicesInv PROVE OneAtATime
      OBVIOUS
    <2>1. OneGoalAtATime
      BY OneIsGoing DEF ServicesInv
    <2>2. NavigatorReachable
      <3>1. LockHeld /\ PathKept /\ ExecutedOnce
        BY DEF ServicesInv, SocketInv
      <3> QED BY <3>1 DEF NavigatorReachable, LockHeld, PathKept, ExecutedOnce, SockAt
    <2> QED BY <2>1, <2>2 DEF OneAtATime
  <1> QED BY <1>1, ServicesBegin, ServicesMove, PTL DEF Spec

(* A recording under its final name, of which no removal took a file, is   *)
(* whole, wherever a Stop, a removal file by file, a recovery in any of    *)
(* its steps, the process or the power stops, in however many lives        *)
(* (RecordingSession::Stop's order of syncs, manifest, marker and rename). *)
THEOREM FinalRecordingsAreWhole == Spec => []CompleteIsWhole
  <1>1. ServicesInv => CompleteIsWhole
    BY WholeOnDisk DEF ServicesInv
  <1> QED BY <1>1, ServicesBegin, ServicesMove, PTL DEF Spec
=============================================================================
