---------------------------------- MODULE Llm ----------------------------------
(***************************************************************************)
(* The local language model: LlamaServerProcess spawns llama-server, waits *)
(* until it is healthy, watches it and restarts it with a back-off;        *)
(* LlamaServerLocalLlmClient sends it one request and reads the streamed   *)
(* answer, under deadlines and a cancel that shuts the socket down.  The   *)
(* server may exit, hang or cut an answer short at any time.               *)
(***************************************************************************)
EXTENDS Naturals, Scene

CONSTANTS
    MaxSpawns,        \* bound: servers spawned
    RestartLimit,     \* restart_limit
    FailureThreshold, \* health_failure_threshold
    MaxChunks         \* bound: pieces of an answer

ASSUME LlmAssumption ==
    MaxSpawns \in Nat \ {0} /\ RestartLimit \in Nat /\ FailureThreshold \in Nat \ {0}

VARIABLES
    kid,   \* the child: its number, what it does; a zombie until it is reaped
    lsp,   \* LlamaServerProcess: the thread that starts or monitors, and Stop
    llc    \* LlamaServerLocalLlmClient: one request

llmVars == <<kid, lsp, llc>>

LlmInit ==
    /\ kid = [pid |-> 0, state |-> "none"]
    /\ lsp = [pc |-> "off", by |-> "start", pid |-> 0, ready |-> FALSE, stopping |-> FALSE,
              attempts |-> 0, failures |-> 0, stop |-> "none"]
    /\ llc = [pc |-> "idle", cancel |-> FALSE, shut |-> FALSE, head |-> "none",
              content |-> FALSE, finished |-> FALSE, done |-> FALSE, chunks |-> 0, result |-> "none"]

-----------------------------------------------------------------------------
(* The child.                                                               *)

KidAlive == kid.state \in {"loading", "healthy", "hung"}
KidTurns(state) ==
    /\ Use("llm") /\ KidAlive /\ kid.state # state
    /\ kid' = [kid EXCEPT !.state = state] /\ UNCHANGED <<lsp, llc>>

Reaped == kid' = [kid EXCEPT !.state = "none"]

-----------------------------------------------------------------------------
(* Start and MonitorLoop, which both run SpawnAndWaitUntilReady.            *)

LspAt(p) == lsp.pc = p
LspGoto(r) == lsp' = r /\ UNCHANGED <<kid, llc>>

StartServer == Use("llm") /\ LspAt("off") /\ LspGoto([lsp EXCEPT !.pc = "spawn"])

(* SpawnAndWaitUntilReady failed: Start gives up, the monitor counts.        *)
SpawnFailed(r) ==
    IF r.by = "start" THEN [r EXCEPT !.pc = "failed"]
    ELSE IF r.stopping THEN [r EXCEPT !.pc = "ended"]
    ELSE [r EXCEPT !.pc = "backoff", !.attempts = @ + 1]

Spawn ==
    /\ LspAt("spawn") /\ kid.pid < MaxSpawns
    /\ kid' = [pid |-> kid.pid + 1, state |-> "loading"]
    /\ lsp' = [lsp EXCEPT !.pc = "publish"] /\ UNCHANGED llc
SpawnFails == LspAt("spawn") /\ LspGoto(SpawnFailed(lsp))

PublishPid ==
    /\ LspAt("publish")
    /\ LspGoto(IF lsp.stopping THEN [lsp EXCEPT !.pc = "undo"]
               ELSE [lsp EXCEPT !.pc = "wait", !.pid = kid.pid, !.ready = FALSE])

(* WaitUntilReady: a stop, an exit, a healthy answer, or the timeout.        *)
WaitCancelled == LspAt("wait") /\ lsp.stopping /\ LspGoto([lsp EXCEPT !.pc = "undo"])
WaitExited == LspAt("wait") /\ kid.state = "exited" /\ LspGoto([lsp EXCEPT !.pc = "undo"])
WaitExpires == LspAt("wait") /\ LspGoto([lsp EXCEPT !.pc = "undo"])
WaitReady ==
    /\ LspAt("wait") /\ kid.state = "healthy" /\ ~lsp.stopping
    /\ LspGoto([lsp EXCEPT !.ready = TRUE, !.pc = "watch", !.by = "monitor", !.failures = 0])

(* TerminateAndReap in WaitUntilReady: SIGTERM, then SIGKILL, to the group.  *)
Undo ==
    /\ LspAt("undo") /\ Reaped
    /\ lsp' = SpawnFailed([lsp EXCEPT !.pid = 0, !.ready = FALSE]) /\ UNCHANGED llc

(* MonitorLoop.                                                              *)
WatchStops == LspAt("watch") /\ lsp.stopping /\ LspGoto([lsp EXCEPT !.pc = "ended"])
WatchExited ==
    /\ LspAt("watch") /\ ~lsp.stopping /\ kid.state = "exited" /\ LspGoto([lsp EXCEPT !.pc = "replace"])
WatchHealthy ==
    /\ LspAt("watch") /\ ~lsp.stopping /\ kid.state = "healthy"
    /\ lsp.failures + lsp.attempts > 0
    /\ LspGoto([lsp EXCEPT !.failures = 0, !.attempts = 0])
WatchUnhealthy ==
    /\ LspAt("watch") /\ ~lsp.stopping /\ kid.state = "hung"
    /\ LspGoto([lsp EXCEPT !.failures = IF @ < FailureThreshold THEN @ + 1 ELSE @,
                           !.pc = IF lsp.failures + 1 >= FailureThreshold THEN "replace" ELSE @])
Replace ==
    /\ LspAt("replace") /\ Reaped
    /\ lsp' = [lsp EXCEPT !.pid = 0, !.ready = FALSE, !.attempts = @ + 1, !.pc = "backoff"]
    /\ UNCHANGED llc

(* The back-off waits for the stop.                                          *)
Backoff ==
    /\ LspAt("backoff")
    /\ LspGoto([lsp EXCEPT !.pc = IF lsp.attempts > RestartLimit \/ lsp.stopping
                                  THEN "ended" ELSE "spawn"])

-----------------------------------------------------------------------------
(* Stop: the flag, the monitor, then whatever child is left.                *)

StopServer ==
    /\ Use("llmstop") /\ lsp.stop = "none" /\ lsp.pc \notin {"off", "failed"} /\ lsp.by = "monitor"
    /\ LspGoto([lsp EXCEPT !.stopping = TRUE, !.stop = "join"])
StopTakes ==
    /\ lsp.stop = "join" /\ LspAt("ended")
    /\ LspGoto([lsp EXCEPT !.stop = IF lsp.pid > 0 THEN "reap" ELSE "returned",
                           !.pid = 0, !.ready = FALSE])
StopReaps ==
    /\ lsp.stop = "reap" /\ Reaped
    /\ lsp' = [lsp EXCEPT !.stop = "returned"] /\ UNCHANGED llc

-----------------------------------------------------------------------------
(* GenerateResponse and Cancel.                                              *)

LlcAt(p) == llc.pc = p
LlcGoto(r) == llc' = r /\ UNCHANGED <<kid, lsp>>
Result(r, what) == [r EXCEPT !.pc = "returned", !.result = what]

Generate == Use("ask llm") /\ LlcAt("idle") /\ LlcGoto([llc EXCEPT !.pc = "connect"])
(* connect blocks without a look at the deadline or at a cancel.             *)
Connected == LlcAt("connect") /\ KidAlive /\ LlcGoto([llc EXCEPT !.pc = "registered"])
ConnectFails == LlcAt("connect") /\ LlcGoto(Result(llc, "failed"))
SendRequest ==
    /\ LlcAt("registered")
    /\ LlcGoto(IF llc.cancel THEN Result(llc, "cancelled") ELSE [llc EXCEPT !.pc = "receive"])
ReceiveCancelled == LlcAt("receive") /\ llc.cancel /\ LlcGoto(Result(llc, "cancelled"))
DeadlinePasses == llc.pc \in {"registered", "receive"} /\ LlcGoto(Result(llc, "expired"))

(* A piece of the answer: headers with a status, a delta, a finish reason,   *)
(* [DONE], or something that does not parse.                                 *)
Pieces == {"ok", "error", "delta", "finish", "done", "bad"}
Piece(p) ==
    /\ LlcAt("receive") /\ ~llc.shut /\ kid.state = "healthy" /\ llc.chunks < MaxChunks
    /\ (p \in {"ok", "error"}) = (llc.head = "none")
    /\ llc.head = "error" => p = "bad"
    /\ LET r == [llc EXCEPT !.chunks = @ + 1]
       IN  LlcGoto(CASE p \in {"ok", "error"} -> [r EXCEPT !.head = p]
                     [] p = "bad" /\ llc.head = "error" -> r
                     [] p = "bad" -> Result(r, "failed")
                     [] p = "delta" -> [r EXCEPT !.content = TRUE]
                     [] p = "finish" -> [r EXCEPT !.finished = TRUE]
                     [] p = "done" -> [r EXCEPT !.done = TRUE, !.pc = "parse"])

(* The connection ends: by the server, its death, or Cancel's shutdown.      *)
EndOfAnswer ==
    /\ LlcAt("receive")
    /\ LlcGoto(IF llc.cancel THEN Result(llc, "cancelled") ELSE [llc EXCEPT !.pc = "parse"])

(* What there is after the last byte; a body that is one JSON value counts   *)
(* as an answer only without any delta.                                      *)
ParseAnswer(whole) ==
    /\ LlcAt("parse") /\ (whole => ~llc.content /\ ~llc.done /\ ~llc.finished)
    /\ LlcGoto(Result(llc, IF llc.head = "ok"
                              /\ (((llc.done \/ llc.finished) /\ llc.content) \/ whole)
                           THEN "answer" ELSE "failed"))

CancelGenerate ==
    /\ Use("llmcancel") /\ ~llc.cancel /\ llc.pc \notin {"idle", "returned"}
    /\ LlcGoto([llc EXCEPT !.cancel = TRUE, !.shut = llc.pc \in {"registered", "receive", "parse"}])

-----------------------------------------------------------------------------
MonitorSteps ==
    \/ Spawn \/ SpawnFails \/ PublishPid \/ WaitCancelled \/ WaitExited \/ WaitExpires \/ WaitReady
    \/ Undo \/ WatchStops \/ WatchExited \/ WatchHealthy \/ WatchUnhealthy \/ Replace \/ Backoff
StopServerSteps == StopTakes \/ StopReaps
ClientOfLlmSteps ==
    \/ Connected \/ ConnectFails \/ SendRequest \/ ReceiveCancelled \/ DeadlinePasses \/ EndOfAnswer
    \/ \E p \in Pieces : Piece(p)
    \/ \E whole \in BOOLEAN : ParseAnswer(whole)

LlmNext ==
    \/ \E state \in {"healthy", "hung", "exited"} : KidTurns(state)
    \/ StartServer \/ MonitorSteps \/ StopServer \/ StopServerSteps
    \/ Generate \/ ClientOfLlmSteps \/ CancelGenerate

LlmFairness ==
    WF_llmVars(MonitorSteps) /\ WF_llmVars(StopServerSteps) /\ WF_llmVars(ClientOfLlmSteps)

(* Stop of the server process returned and left no child behind, and a       *)
(* request returned, by an answer, its deadline or a cancel.                 *)
LlmStopped ==
    /\ lsp.stop # "none" => lsp.stop = "returned" /\ kid.state = "none"
    /\ llc.pc # "idle" => llc.pc = "returned"
=============================================================================
