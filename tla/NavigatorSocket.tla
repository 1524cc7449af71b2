-------------------------- MODULE NavigatorSocket ---------------------------
(***************************************************************************)
(* IpcConnector: the Unix socket on which Navigator takes its commands.    *)
(* Open takes a lock, removes what a dead Navigator has left, binds and    *)
(* listens; Close undoes it; a process may be killed or replace itself     *)
(* between any two steps.  The other end is SendRequest, as the tools use  *)
(* it.  A socket file is an id that nobody can see and an inode number     *)
(* that the file system uses again.                                        *)
(***************************************************************************)
EXTENDS Naturals, FiniteSets, Scene

CONSTANTS
    Navigators,    \* processes that may be started on one socket path
    Inodes,        \* inode numbers
    MaxBinds       \* bound: socket files ever made

ASSUME SocketAssumption == "nobody" \notin Navigators /\ 0 \notin Inodes

VARIABLES
    server,   \* each process: where it is, its socket and the inode it remembers
    path,     \* the file at the socket path, or NoFile
    flock,    \* who holds the lock on the lock file, or "nobody"
    request   \* one SendRequest, and what the Navigator made of it

socketVars == <<server, path, flock, request>>

NoFile == [id |-> 0, ino |-> 0]
Closed == [pc |-> "down", file |-> 0, ino |-> 0, listens |-> FALSE]

SocketInit ==
    /\ server = [p \in Navigators |-> Closed] /\ path = NoFile /\ flock = "nobody"
    /\ request = [pc |-> "none", to |-> "nobody", files |-> 0, executed |-> 0]

SockAt(p, pc) == server[p].pc = pc
SockStep(p, r) == server' = [server EXCEPT ![p] = r]
SockGoto(p, pc) == SockStep(p, [server[p] EXCEPT !.pc = pc])

-----------------------------------------------------------------------------
(* Open.                                                                     *)

OpenLock(p) ==
    /\ SockAt(p, "start")
    /\ IF flock = "nobody" THEN flock' = p /\ SockGoto(p, "inspect")
       ELSE SockGoto(p, "down") /\ UNCHANGED flock
    /\ UNCHANGED <<path, request>>
OpenInspect(p) ==
    /\ SockAt(p, "inspect") /\ SockGoto(p, IF path = NoFile THEN "bind" ELSE "probe")
    /\ UNCHANGED <<path, flock, request>>

(* ExistingSocketIsActive connects to the socket.                            *)
Listener == {q \in Navigators : server[q].listens /\ server[q].file = path.id /\ path # NoFile}
OpenProbe(p) ==
    /\ SockAt(p, "probe") /\ SockGoto(p, IF Listener # {} THEN "close" ELSE "unlink")
    /\ UNCHANGED <<path, flock, request>>
OpenUnlink(p) ==
    /\ SockAt(p, "unlink") /\ SockGoto(p, IF path = NoFile THEN "close" ELSE "bind")
    /\ path' = NoFile /\ UNCHANGED <<flock, request>>
OpenBind(p, ino) ==
    /\ SockAt(p, "bind") /\ request.files < MaxBinds
    /\ IF path # NoFile THEN SockGoto(p, "close") /\ UNCHANGED <<path, request>>
       ELSE /\ path' = [id |-> request.files + 1, ino |-> ino]
            /\ request' = [request EXCEPT !.files = @ + 1]
            /\ SockStep(p, [server[p] EXCEPT !.pc = "stat", !.file = request.files + 1])
    /\ UNCHANGED flock
OpenStat(p) ==
    /\ SockAt(p, "stat")
    /\ SockStep(p, IF path = NoFile THEN [server[p] EXCEPT !.pc = "close"]
                ELSE [server[p] EXCEPT !.pc = "listen", !.ino = path.ino])
    /\ UNCHANGED <<path, flock, request>>
OpenListen(p) ==
    /\ SockAt(p, "listen") /\ SockStep(p, [server[p] EXCEPT !.pc = "serve", !.listens = TRUE])
    /\ UNCHANGED <<path, flock, request>>

(* Close: the socket, the file if it is still ours, the lock.                *)
CloseSocket(p) ==
    /\ SockAt(p, "close") /\ SockStep(p, [server[p] EXCEPT !.pc = "remove", !.listens = FALSE])
    /\ request' = IF request.to = p THEN [request EXCEPT !.pc = "cut", !.to = "nobody"] ELSE request
    /\ UNCHANGED <<path, flock>>
CloseRemove(p) ==
    /\ SockAt(p, "remove") /\ SockGoto(p, "release")
    /\ path' = IF server[p].file # 0 /\ path.ino = server[p].ino THEN NoFile ELSE path
    /\ UNCHANGED <<flock, request>>
CloseLock(p) ==
    /\ SockAt(p, "release") /\ SockStep(p, Closed)
    /\ flock' = IF flock = p THEN "nobody" ELSE flock
    /\ UNCHANGED <<path, request>>

(* Navigator starts, ends, is killed or replaces itself by another version:  *)
(* the kernel closes the descriptors, the file stays.                        *)
NavigatorStarts(p) ==
    /\ Use("socket") /\ SockAt(p, "down") /\ request.files < MaxBinds
    /\ SockGoto(p, "start") /\ UNCHANGED <<path, flock, request>>
NavigatorEnds(p) ==
    /\ SockAt(p, "serve") /\ request.pc # "executing" /\ SockGoto(p, "close")
    /\ UNCHANGED <<path, flock, request>>
NavigatorKilled(p) ==
    /\ Use("kill") /\ ~SockAt(p, "down") /\ SockStep(p, Closed)
    /\ flock' = IF flock = p THEN "nobody" ELSE flock
    /\ request' = IF request.to = p THEN [request EXCEPT !.pc = "cut", !.to = "nobody"] ELSE request
    /\ UNCHANGED path

-----------------------------------------------------------------------------
(* SendRequest and WaitForRequest.                                           *)

RequestGoto(r) == request' = r /\ UNCHANGED <<server, path, flock>>
ClientConnects ==
    /\ Use("client") /\ request.pc = "none"
    /\ RequestGoto(IF Listener = {} THEN [request EXCEPT !.pc = "refused"]
                   ELSE [request EXCEPT !.pc = "connected", !.to = CHOOSE q \in Listener : TRUE])
ClientSends == request.pc = "connected" /\ RequestGoto([request EXCEPT !.pc = "sent"])

(* The line has not come within a second: the connection is closed.          *)
ServerGivesUp ==
    request.pc = "connected" /\ RequestGoto([request EXCEPT !.pc = "cut", !.to = "nobody"])
ServerReads ==
    request.pc = "sent" /\ RequestGoto([request EXCEPT !.pc = "executing"])
ServerReplies ==
    /\ request.pc \in {"executing", "abandoned"}
    /\ RequestGoto([request EXCEPT !.pc = IF @ = "executing" THEN "answered" ELSE "overdue",
                                   !.executed = @ + 1, !.to = "nobody"])
(* The client's own limit passes while the command is carried out.           *)
ClientTimesOut ==
    request.pc = "executing" /\ RequestGoto([request EXCEPT !.pc = "abandoned"])
ClientReturns ==
    /\ request.pc \in {"answered", "cut", "refused", "overdue"}
    /\ RequestGoto([request EXCEPT !.pc = "returned"])

SocketNext ==
    \/ \E p \in Navigators :
          \/ OpenLock(p) \/ OpenInspect(p) \/ OpenProbe(p) \/ OpenUnlink(p)
          \/ \E ino \in Inodes : OpenBind(p, ino)
          \/ OpenStat(p) \/ OpenListen(p) \/ CloseSocket(p) \/ CloseRemove(p) \/ CloseLock(p)
          \/ NavigatorStarts(p) \/ NavigatorEnds(p) \/ NavigatorKilled(p)
    \/ ClientConnects \/ ClientSends \/ ServerGivesUp \/ ServerReads \/ ServerReplies
    \/ ClientTimesOut \/ ClientReturns

(* A Navigator that serves holds the lock and is the one the path leads to:  *)
(* there are never two, and neither a start that fails nor a stop that is    *)
(* late takes the path away from it.  What is answered was carried out once. *)
NavigatorReachable ==
    /\ \A p \in Navigators : SockAt(p, "serve") => flock = p /\ path.id = server[p].file
    /\ request.pc = "answered" => request.executed = 1
=============================================================================
