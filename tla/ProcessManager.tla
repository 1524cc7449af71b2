--------------------------- MODULE ProcessManager ---------------------------
(***************************************************************************)
(* Navigator: cockpit/navigator/process/process_manager.cc and the run     *)
(* loop of cockpit/navigator/navigator.cc.  Navigator is one thread; the   *)
(* module children it spawns exit on their own at any moment, also in the  *)
(* middle of a mode switch, and stay zombies until they are reaped.        *)
(*                                                                         *)
(* A command is a sequence of StopModule and StartModule calls, each of    *)
(* which may block for seconds, so each is an action of its own.  phase    *)
(* says where the loop is:                                                 *)
(*   command   WaitForRequest                                              *)
(*   stop, start, rb_stop, rb_start   SwitchMode and its rollback          *)
(*   stopall   StopAll, for reload, shutdown, reexec and a failure         *)
(*   reap, restart, check   ReapExited, RestartPending, HasCriticalFailure *)
(*   gone      Run has returned                                            *)
(***************************************************************************)
EXTENDS Integers, Sequences, FiniteSets

CONSTANTS
    N,              \* number of configured modules
    ModeModules,    \* RunConfig::modes: mode -> sequence of modules
    Initial,        \* RunConfig::initial_mode
    Critical,       \* modules whose failure stops Navigator
    RestartLimit,   \* ModuleConfig::restart_limit, one for all modules
    StopMayFail     \* kill or waitpid may report an error

Modules == 1 .. N       \* in the order of RunConfig::modules
Modes == DOMAIN ModeModules

ASSUME SizeAssumption == N \in Nat /\ RestartLimit \in Nat

ASSUME ModesAssumption ==
    /\ \A t \in Modes : ModeModules[t] \in Seq(Modules)
    /\ Initial \in Modes
    /\ "" \notin Modes

ASSUME OptionsAssumption == Critical \subseteq Modules /\ StopMayFail \in BOOLEAN

VARIABLES
    rec,        \* ProcessRecord of every module
    child,      \* the process behind pid: none (pid 0), up, or a zombie
    mode,       \* mode_, "" when cleared
    critical,   \* critical_failure_
    phase,      \* where the loop is
    op          \* locals of the running command

vars == <<rec, child, mode, critical, phase, op>>

States == {"stopped", "restarting", "running", "failed"}
Records == [state : States, desired : BOOLEAN, pending : BOOLEAN,
            restarts : 0 .. RestartLimit]
Rec(s, d, p, n) == [state |-> s, desired |-> d, pending |-> p, restarts |-> n]
Stopped == Rec("stopped", FALSE, FALSE, 0)
Phases == {"command", "stop", "start", "rb_stop", "rb_start", "stopall",
           "reap", "restart", "check", "gone"}
Ops == [target : Modes, prev : SUBSET Modules, i : Nat,
        next : {"reap", "switch", "quit"},
        outcome : {"none", "ok", "restored", "failed"}, boot : BOOLEAN]

TypeOK ==
    /\ rec \in [Modules -> Records]
    /\ child \in [Modules -> {"none", "up", "exited"}]
    /\ mode \in Modes \cup {""}
    /\ critical \in BOOLEAN
    /\ phase \in Phases
    /\ op \in Ops

Desired == {m \in Modules : rec[m].desired}
ModeSet(t) == {ModeModules[t][k] : k \in 1 .. Len(ModeModules[t])}

NoOp == [target |-> Initial, prev |-> {}, i |-> 0, next |-> "reap",
         outcome |-> "none", boot |-> FALSE]

Init ==
    /\ rec = [m \in Modules |-> Stopped]
    /\ child = [m \in Modules |-> "none"]
    /\ mode = ""
    /\ critical = FALSE
    /\ phase = "stop"
    /\ op = [NoOp EXCEPT !.boot = TRUE]

-----------------------------------------------------------------------------
(* The calls a command is made of.                                         *)

(* Start: spawn and wait for the ready byte, or kill and wait for the      *)
(* child.                                                                  *)
Start(m, desired, restarts, ok) ==
    /\ rec' = [rec EXCEPT ![m] = Rec(IF ok THEN "running" ELSE "failed",
                                     desired, FALSE, restarts)]
    /\ child' = [child EXCEPT ![m] = IF ok THEN "up" ELSE "none"]

(* StartModule: a record that says running is only marked desired.         *)
StartModule(m, ok) ==
    \/ /\ rec[m].state = "running" /\ ok
       /\ rec' = [rec EXCEPT ![m] = Rec("running", TRUE, rec[m].pending,
                                        rec[m].restarts)]
       /\ UNCHANGED child
    \/ /\ rec[m].state # "running"
       /\ Start(m, TRUE, 0, ok)

(* Mutant: a pending restart survives the stop.                            *)
StopModuleKeepsPending(m, ok) ==
    /\ ok
    /\ rec' = [rec EXCEPT ![m] = Rec("stopped", FALSE, rec[m].pending, 0)]
    /\ child' = [child EXCEPT ![m] = "none"]

(* StopModule: terminate the process group and wait for the leader.        *)
StopModule(m, ok) ==
    \/ /\ ok
       /\ rec' = [rec EXCEPT ![m] = Stopped]
       /\ child' = [child EXCEPT ![m] = "none"]
    \/ /\ ~ok /\ StopMayFail /\ child[m] # "none"
       /\ rec' = [rec EXCEPT ![m] = Rec(rec[m].state, FALSE, FALSE, 0)]
       /\ UNCHANGED child

(* Mutant: a failure is recorded in the module only.                       *)
MarkFailedQuietly(m) == UNCHANGED critical

(* MarkFailed.                                                             *)
MarkFailed(m) == critical' = (critical \/ m \in Critical)

-----------------------------------------------------------------------------
(* ExecuteCommand.                                                         *)

SwitchTo(t) ==
    /\ phase' = "stop"
    /\ op' = [NoOp EXCEPT !.target = t, !.prev = Desired]

(* The loop goes on to ReapExited; a failed first switch ends Run.         *)
Finish(outcome) ==
    /\ phase' = IF op.boot /\ outcome # "ok" THEN "stopall" ELSE "reap"
    /\ op' = [op EXCEPT !.outcome = outcome, !.i = N + 1,
                        !.next = IF op.boot /\ outcome # "ok" THEN "quit" ELSE "reap"]

NoCommand ==
    /\ phase = "command"
    /\ phase' = "reap"
    /\ UNCHANGED <<rec, child, mode, critical, op>>

CmdSwitch(t) ==
    /\ phase = "command"
    /\ SwitchTo(t)
    /\ UNCHANGED <<rec, child, mode, critical>>

CmdStart(m) ==
    /\ phase = "command"
    /\ \E ok \in BOOLEAN : StartModule(m, ok)
    /\ phase' = "reap"
    /\ UNCHANGED <<mode, critical, op>>

CmdStop(m) ==
    /\ phase = "command"
    /\ \E ok \in BOOLEAN : StopModule(m, ok)
    /\ phase' = "reap"
    /\ UNCHANGED <<mode, critical, op>>

(* RestartModule stops, then starts; nothing comes between but the child.  *)
CmdRestart(m) ==
    /\ phase = "command"
    /\ \/ \E ok \in BOOLEAN : Start(m, TRUE, 0, ok)
       \/ StopModule(m, FALSE)
    /\ phase' = "reap"
    /\ UNCHANGED <<mode, critical, op>>

CmdReload ==
    /\ phase = "command" /\ mode # ""
    /\ phase' = "stopall"
    /\ op' = [op EXCEPT !.target = mode, !.i = N + 1, !.next = "switch"]
    /\ UNCHANGED <<rec, child, mode, critical>>

(* shutdown, reexec or a signal: the loop ends after this round.           *)
CmdQuit ==
    /\ phase = "command"
    /\ phase' = "reap"
    /\ op' = [op EXCEPT !.next = "quit"]
    /\ UNCHANGED <<rec, child, mode, critical>>

-----------------------------------------------------------------------------
(* SwitchMode.                                                             *)

(* The undesired modules, from the last configured to the first.           *)
Undesired == Desired \ ModeSet(op.target)
Last(S) == CHOOSE m \in S : \A k \in S : k <= m

(* Mutant: the new mode is started without stopping the old one.           *)
SwitchStopDropped ==
    /\ phase = "stop"
    /\ phase' = "start" /\ op' = [op EXCEPT !.i = 1]
    /\ UNCHANGED <<rec, child, mode, critical>>

SwitchStop ==
    /\ phase = "stop"
    /\ \/ /\ Undesired = {}
          /\ phase' = "start" /\ op' = [op EXCEPT !.i = 1]
          /\ UNCHANGED <<rec, child>>
       \/ /\ Undesired # {}
          /\ \/ StopModule(Last(Undesired), TRUE) /\ UNCHANGED <<phase, op>>
             \/ StopModule(Last(Undesired), FALSE)
                /\ phase' = "rb_stop" /\ op' = [op EXCEPT !.outcome = "restored"]
    /\ UNCHANGED <<mode, critical>>

(* The modules of the mode in its order; the first failure rolls back.     *)
SwitchStart ==
    /\ phase = "start"
    /\ op.i <= Len(ModeModules[op.target])
    /\ LET m == ModeModules[op.target][op.i] IN
       \/ /\ rec[m].desired /\ rec[m].state = "running"
          /\ op' = [op EXCEPT !.i = @ + 1]
          /\ UNCHANGED <<rec, child, phase>>
       \/ /\ ~(rec[m].desired /\ rec[m].state = "running")
          /\ \/ StartModule(m, TRUE)
                /\ op' = [op EXCEPT !.i = @ + 1] /\ UNCHANGED phase
             \/ StartModule(m, FALSE)
                /\ phase' = "rb_stop" /\ op' = [op EXCEPT !.outcome = "restored"]
    /\ UNCHANGED <<mode, critical>>

SwitchDone ==
    /\ phase = "start"
    /\ op.i > Len(ModeModules[op.target])
    /\ mode' = op.target
    /\ critical' = FALSE
    /\ Finish("ok")
    /\ UNCHANGED <<rec, child>>

(* Mutant: the rollback leaves the new mode's modules running.             *)
RollbackStopDropped ==
    /\ phase = "rb_stop"
    /\ phase' = "rb_start" /\ op' = [op EXCEPT !.i = 1]
    /\ UNCHANGED <<rec, child, mode, critical>>

(* restore_previous_mode: stop what was not desired before ...             *)
RollbackStop ==
    /\ phase = "rb_stop"
    /\ LET extra == Desired \ op.prev IN
       \/ /\ extra = {}
          /\ phase' = "rb_start" /\ op' = [op EXCEPT !.i = 1]
          /\ UNCHANGED <<rec, child>>
       \/ /\ extra # {}
          /\ \/ StopModule(Last(extra), TRUE) /\ UNCHANGED op
             \/ StopModule(Last(extra), FALSE)
                /\ op' = [op EXCEPT !.outcome = "failed"]
          /\ UNCHANGED phase
    /\ UNCHANGED <<mode, critical>>

(* ... and start what was, in configuration order, whatever fails.         *)
RollbackStart ==
    /\ phase = "rb_start"
    /\ op.i <= N
    /\ \/ /\ op.i \in op.prev
          /\ \/ StartModule(op.i, TRUE)
                /\ op' = [op EXCEPT !.i = @ + 1]
             \/ StartModule(op.i, FALSE)
                /\ op' = [op EXCEPT !.i = @ + 1, !.outcome = "failed"]
       \/ /\ op.i \notin op.prev
          /\ op' = [op EXCEPT !.i = @ + 1]
          /\ UNCHANGED <<rec, child>>
    /\ UNCHANGED <<mode, critical, phase>>

RollbackDone ==
    /\ phase = "rb_start"
    /\ op.i > N
    /\ Finish(op.outcome)
    /\ UNCHANGED <<rec, child, mode, critical>>

-----------------------------------------------------------------------------
(* StopAll, in reverse order; a module that will not stop is passed over.  *)

StopAll ==
    /\ phase = "stopall"
    /\ op.i > 1
    /\ LET m == op.i - 1 IN
       \/ /\ child[m] # "none" \/ rec[m].desired \/ rec[m].pending
          /\ \E ok \in BOOLEAN : StopModule(m, ok)
       \/ /\ child[m] = "none" /\ ~rec[m].desired /\ ~rec[m].pending
          /\ UNCHANGED <<rec, child>>
    /\ op' = [op EXCEPT !.i = @ - 1]
    /\ UNCHANGED <<mode, critical, phase>>

(* Mutant: the loop ends one module early.                                 *)
StopAllDoneEarly ==
    /\ phase = "stopall" /\ op.i <= 2
    /\ mode' = "" /\ critical' = FALSE
    /\ phase' = "gone"
    /\ UNCHANGED <<rec, child, op>>

StopAllDone ==
    /\ phase = "stopall"
    /\ op.i <= 1
    /\ mode' = ""
    /\ critical' = FALSE
    /\ \/ op.next = "switch" /\ SwitchTo(op.target)
       \/ op.next # "switch" /\ phase' = "gone" /\ UNCHANGED op
    /\ UNCHANGED <<rec, child>>

-----------------------------------------------------------------------------
(* ReapExited and the critical check.                                      *)

(* Mutant: one restart more than the limit.                                *)
HandleExitOffByOne(m) ==
    /\ phase = "reap" /\ child[m] = "exited" /\ rec[m].desired
    /\ rec[m].restarts <= RestartLimit
    /\ child' = [child EXCEPT ![m] = "none"]
    /\ rec' = [rec EXCEPT ![m] = Rec("restarting", TRUE, TRUE, rec[m].restarts + 1)]
    /\ UNCHANGED <<critical, mode, phase, op>>

(* HandleExit.  Restarts that are older than the window are forgotten.     *)
HandleExit(m) ==
    /\ phase = "reap"
    /\ child[m] = "exited"
    /\ child' = [child EXCEPT ![m] = "none"]
    /\ \/ /\ ~rec[m].desired
          /\ rec' = [rec EXCEPT ![m] = Rec("stopped", FALSE, rec[m].pending,
                                           rec[m].restarts)]
          /\ UNCHANGED critical
       \/ /\ rec[m].desired
          /\ \E kept \in 0 .. rec[m].restarts :
               \/ /\ kept >= RestartLimit
                  /\ rec' = [rec EXCEPT ![m] = Rec("failed", TRUE, FALSE, kept)]
                  /\ MarkFailed(m)
               \/ /\ kept < RestartLimit
                  /\ rec' = [rec EXCEPT ![m] = Rec("restarting", TRUE, TRUE, kept + 1)]
                  /\ UNCHANGED critical
    /\ UNCHANGED <<mode, phase, op>>

(* waitpid has nothing more to report.                                     *)
ReapDone ==
    /\ phase = "reap"
    /\ \A m \in Modules : child[m] # "exited"
    /\ phase' = "restart" /\ op' = [op EXCEPT !.i = 1]
    /\ UNCHANGED <<rec, child, mode, critical>>

(* Mutant: the restart is not struck off.                                  *)
RestartDueKeepsPending ==
    /\ phase = "restart" /\ op.i <= N /\ rec[op.i].pending
    /\ rec' = [rec EXCEPT ![op.i] = Rec("running", TRUE, TRUE, rec[op.i].restarts)]
    /\ child' = [child EXCEPT ![op.i] = "up"]
    /\ op' = [op EXCEPT !.i = @ + 1]
    /\ UNCHANGED <<critical, mode, phase>>

(* RestartPending, one record at a time, when its delay has passed.        *)
RestartDue ==
    /\ phase = "restart" /\ op.i <= N
    /\ rec[op.i].pending
    /\ \E ok \in BOOLEAN :
         /\ Start(op.i, rec[op.i].desired, rec[op.i].restarts, ok)
         /\ \/ ok /\ UNCHANGED critical
            \/ ~ok /\ MarkFailed(op.i)
    /\ op' = [op EXCEPT !.i = @ + 1]
    /\ UNCHANGED <<mode, phase>>

RestartSkip ==
    /\ phase = "restart" /\ op.i <= N
    /\ op' = [op EXCEPT !.i = @ + 1]
    /\ UNCHANGED <<rec, child, mode, critical, phase>>

RestartDone ==
    /\ phase = "restart" /\ op.i > N
    /\ phase' = "check"
    /\ UNCHANGED <<rec, child, mode, critical, op>>

(* Mutant: the loop goes on after a critical failure.                      *)
CheckCriticalDropped ==
    /\ phase = "check" /\ op.next # "quit"
    /\ phase' = "command" /\ op' = NoOp
    /\ UNCHANGED <<rec, child, mode, critical>>

(* Run leaves its loop on a critical failure or when it was told to.       *)
CheckCritical ==
    /\ phase = "check"
    /\ \/ /\ critical \/ op.next = "quit"
          /\ phase' = "stopall"
          /\ op' = [NoOp EXCEPT !.i = N + 1, !.next = "quit"]
       \/ /\ ~critical /\ op.next # "quit"
          /\ phase' = "command" /\ op' = NoOp
    /\ UNCHANGED <<rec, child, mode, critical>>

-----------------------------------------------------------------------------
(* A module child exits by itself.                                         *)
ChildExits(m) ==
    /\ child[m] = "up"
    /\ child' = [child EXCEPT ![m] = "exited"]
    /\ UNCHANGED <<rec, mode, critical, phase, op>>

Loop ==
    \/ NoCommand
    \/ SwitchStop \/ SwitchStart \/ SwitchDone
    \/ RollbackStop \/ RollbackStart \/ RollbackDone
    \/ StopAll \/ StopAllDone
    \/ \E m \in Modules : HandleExit(m)
    \/ ReapDone \/ RestartDue \/ RestartSkip \/ RestartDone \/ CheckCritical

Command ==
    \/ \E t \in Modes : CmdSwitch(t)
    \/ \E m \in Modules : CmdStart(m) \/ CmdStop(m) \/ CmdRestart(m)
    \/ CmdReload \/ CmdQuit

Next == Loop \/ Command \/ \E m \in Modules : ChildExits(m)

Spec == Init /\ [][Next]_vars
(* The loop runs whenever Navigator does, and a restart delay passes: a    *)
(* record that comes up again and again is found due in the end.           *)
Fairness ==
    /\ WF_vars(Loop)
    /\ \A m \in Modules : SF_vars(RestartDue /\ op.i = m)

FairSpec == Spec /\ Fairness

-----------------------------------------------------------------------------
(* Properties.                                                             *)

(* A record agrees with the process table: it says running exactly as long *)
(* as a child is there to be reaped (so no second child is spawned and     *)
(* none is lost), restarting exactly while a restart is pending, and only  *)
(* a module somebody wants is ever restarted.                              *)
RecordConsistent ==
    \A m \in Modules :
        /\ rec[m].state = "running" <=> child[m] # "none"
        /\ rec[m].state = "restarting" <=> rec[m].pending
        /\ rec[m].pending => rec[m].desired

(* A mode switch is all or nothing, whatever fails in the middle: it ends  *)
(* with the new mode's modules desired and started, or with the previous   *)
(* ones, all of them started again, and mode_ as it was.                   *)
SwitchEnds == phase \in {"start", "rb_start"} /\ phase' = "reap"
SwitchResult ==
    LET wanted == IF op'.outcome = "ok" THEN ModeSet(op.target) ELSE op.prev IN
    /\ Desired' = wanted
    /\ op'.outcome # "failed" => \A m \in wanted : rec'[m].state = "running"
    /\ mode' = IF op'.outcome = "ok" THEN op.target ELSE mode
SwitchAllOrNothing == [][SwitchEnds => SwitchResult]_vars

(* Navigator takes no further command once a critical module has used up   *)
(* its restarts or failed to come back.                                    *)
CriticalNotIgnored ==
    phase = "command" =>
        \A m \in Critical : rec[m].restarts > 0 => rec[m].state # "failed"

(* A mode excludes every module that is not of it: when a switch succeeds  *)
(* no process of another module is left (the upgrade mode relies on it).   *)
ModeIsExclusive ==
    [][phase = "start" /\ phase' = "reap" =>
         \A m \in Modules \ ModeSet(op.target) : child'[m] = "none"]_vars

(* When Run returns, no module process survives it.                        *)
NothingLeftBehind == phase = "gone" => \A m \in Modules : child[m] = "none"

(* A module that died is reaped, and one that is to be restarted is        *)
(* restarted, stopped or given up.                                         *)
DeadModuleHandled ==
    \A m \in Modules :
        /\ child[m] = "exited" ~> child[m] # "exited"
        /\ rec[m].pending ~> ~rec[m].pending

(* A critical failure ends Navigator, for systemd to restart it.           *)
CriticalFailureExits == critical ~> phase = "gone"

=============================================================================
