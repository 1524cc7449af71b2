------------------------------ MODULE SafeOta ------------------------------
(***************************************************************************)
(* tools/safe-ota/action/safe_ota.cc (ExecuteSafeOta), the upgrader module *)
(* Navigator starts for it (upgrader_runtime.cc), and Navigator as far as  *)
(* the two use it: its mode, the release its executable comes from, the    *)
(* upgrader process it starts, stops and restarts.                         *)
(*                                                                         *)
(* safe-ota holds run/safe-ota.lock for as long as it runs, so there is at *)
(* most one of it: pc["ota"] = "idle" is the free lock.                    *)
(***************************************************************************)
EXTENDS UpgradeTransaction

CONSTANT MaxKills   \* bound: processes killed between two boots

ASSUME MaxKillsAssumption == MaxKills \in Nat

VARIABLES
    kills,      \* processes killed since the machine was booted
    job,        \* how the running safe-ota was called
    request,    \* version in run/upgrade-request.yaml, or NoVersion
    result,     \* run/upgrade-result.yaml
    nav         \* Navigator: mode, and the release its executable is from

orchVars == <<kills, job, request, result, nav>>
vars == <<fs, may, pc, loc, kills, job, request, result, nav>>

Jobs == {"none", "recover", "standalone", "online"}
Results == {"none", "failed", "activated"}
NavModes == {"down", "normal", "upgrade"}
NavDown == [mode |-> "down", exe |-> NoVersion]

OtaLabels == {"idle", "o_recovered", "o_restore", "o_failed", "o_exit", "o_unhealthy",
              "o_confirmfail", "o_request", "o_switch", "o_wait", "o_back",
              "o_backwait", "o_reexec", "o_runtime", "o_health"}
UpgLabels == {"idle", "u_dead", "u_done"}
Labels == OtaLabels \cup UpgLabels \cup InstallLabels \cup RecoverLabels
            \cup ConfirmLabels \cup ReturnLabels

TypeOK ==
    /\ StoreTypeOK
    /\ pc \in [Procs -> Labels]
    /\ loc \in [Procs -> Locals]
    /\ kills \in 0 .. MaxKills
    /\ job \in Jobs
    /\ request \in MaybeVersion
    /\ result \in Results
    /\ nav \in [mode : NavModes, exe : MaybeVersion]

Init ==
    /\ TxnInit
    /\ kills = 0
    /\ job = "none"
    /\ request = NoVersion
    /\ result = "none"
    /\ nav = NavDown

-----------------------------------------------------------------------------
(* Navigator and the upgrader module.                                      *)

(* systemd starts current/bin/cockpit-navigator in normal mode.            *)
NavBoot ==
    /\ nav.mode = "down"
    /\ Bootable(fs, fs.current)
    /\ nav' = [mode |-> "normal", exe |-> fs.current]
    /\ UNCHANGED <<kills, fs, may, pc, loc, job, request, result>>

(* The upgrader module (re)starts: LoadUpgradeRequest, remove the result,  *)
(* run InstallUpgrade on the worker thread.                                *)
StartUpgrader(otaLabel) ==
    /\ request # NoVersion
    /\ pc' = [pc EXCEPT !["upg"] = "i_check", !["ota"] = otaLabel]
    /\ loc' = [loc EXCEPT !["upg"] = [NoLoc EXCEPT !.ver = request]]
    /\ result' = "none"

(* RestartPending after the upgrader died in upgrade mode.                 *)
UpgraderRestart ==
    /\ pc["upg"] = "u_dead" /\ nav.mode = "upgrade"
    /\ StartUpgrader(pc["ota"])
    /\ UNCHANGED <<kills, fs, may, job, request, nav>>

UpgraderGone(l) ==
    /\ Goto("upg", l)
    /\ loc' = [loc EXCEPT !["upg"] = NoLoc]

(* SaveUpgradeResult on the worker thread; the module stays loaded, or     *)
(* leaves with an error when the result cannot be saved.                   *)
UpgraderPublish ==
    /\ pc["upg"] \in {"i_ok", "i_fail"}
    /\ \/ /\ result' = IF pc["upg"] = "i_ok" THEN "activated" ELSE "failed"
          /\ UpgraderGone("u_done")
       \/ "io" \in Faults /\ UpgraderGone("u_dead") /\ UNCHANGED result
    /\ UNCHANGED <<kills, fs, may, job, request, nav>>

-----------------------------------------------------------------------------
(* ExecuteSafeOta.                                                         *)

(* Take the lock and recover whatever an earlier run left.                 *)
Start(j, v) ==
    /\ pc["ota"] = "idle"
    /\ job' = j
    /\ Goto("ota", "r_load")
    /\ loc' = [loc EXCEPT !["ota"] = [NoLoc EXCEPT !.ver = v, !.ret = "o_recovered"]]
    /\ UNCHANGED <<kills, fs, may, request, result, nav>>

(* The process ends and frees the lock.                                    *)
Exit ==
    /\ Goto("ota", "idle")
    /\ loc' = [loc EXCEPT !["ota"] = NoLoc]
    /\ job' = "none"

(* After the initial recovery: leave, install in this process, or ask      *)
(* Navigator.  The package checks may refuse.                              *)
OtaRecovered ==
    /\ pc["ota"] = "o_recovered"
    /\ \/ Exit
       \/ /\ job # "recover"
          /\ Goto("ota", IF job = "standalone" THEN "i_check" ELSE "o_request")
          /\ UNCHANGED <<loc, job>>
    /\ UNCHANGED <<kills, fs, may, request, result, nav>>

(* An error return, after an online attempt with the request removed.      *)
OtaFailed ==
    /\ pc["ota"] \in {"o_failed", "o_exit"}
    /\ request' = IF pc["ota"] = "o_failed" THEN NoVersion ELSE request
    /\ Exit
    /\ UNCHANGED <<kills, fs, may, result, nav>>

(* InstallUpgrade returned in standalone mode.                             *)
OtaInstalled ==
    /\ \/ pc["ota"] = "i_ok" /\ Goto("ota", "o_health") /\ SameLoc
       \/ pc["ota"] = "i_fail" /\ CallRecover("ota", "o_exit")
    /\ UNCHANGED <<fs, may, orchVars>>

(* Remove the old result and save the request; a save that fails may have  *)
(* renamed the new request into place before (WriteYaml).                  *)
OtaRequest ==
    /\ pc["ota"] = "o_request"
    /\ result' = "none"
    /\ \/ request' = loc["ota"].ver /\ Goto("ota", "o_switch")
       \/ /\ "io" \in Faults /\ Goto("ota", "o_exit")
          /\ request' \in {request, loc["ota"].ver}
    /\ UNCHANGED <<kills, fs, may, loc, job, nav>>

(* "switch upgrade".  A Navigator already in upgrade mode with a loaded    *)
(* upgrader answers OK and starts nothing.  With "orphan" the answer may   *)
(* come after safe-ota's 30 seconds, with the upgrader at work.            *)
SwitchAnswers == {"o_wait"} \cup {l \in {"o_failed"} : "orphan" \in Faults}

OtaSwitchUpgrade ==
    /\ pc["ota"] = "o_switch"
    /\ \/ /\ \/ nav.mode = "normal"
             \/ nav.mode = "upgrade" /\ pc["upg"] \in {"idle", "u_dead"}
          /\ \E l \in SwitchAnswers : StartUpgrader(l)
          /\ nav' = [nav EXCEPT !.mode = "upgrade"]
       \/ /\ nav.mode = "upgrade" /\ pc["upg"] \notin {"idle", "u_dead"}
          /\ Goto("ota", "o_wait")
          /\ UNCHANGED <<loc, result, nav>>
       \/ /\ Goto("ota", "o_failed")
          /\ UNCHANGED <<loc, result, nav>>
    /\ UNCHANGED <<kills, fs, may, job, request>>

(* WaitForResult: the published result, or the 600 second timeout.         *)
OtaWaitResult ==
    /\ pc["ota"] = "o_wait"
    /\ \/ /\ result # "none"
          /\ Goto("ota", IF result = "activated" THEN "o_reexec" ELSE "o_back")
          /\ request' = NoVersion /\ result' = "none"
       \/ /\ Goto("ota", "o_back")
          /\ UNCHANGED <<request, result>>
    /\ UNCHANGED <<kills, fs, may, loc, job, nav>>

(* "switch normal" before recovering: StopModule clears the upgrader's     *)
(* running flag and waits.  Without a Navigator the command fails, which   *)
(* safe-ota ignores.                                                       *)
OtaSwitchNormal ==
    /\ pc["ota"] = "o_back"
    /\ \/ /\ nav.mode = "upgrade"
          /\ loc' = [loc EXCEPT !["upg"].cancel = TRUE]
          /\ Goto("ota", "o_backwait") /\ UNCHANGED storeVars
       \/ /\ nav.mode # "upgrade"
          /\ CallRecover("ota", "o_failed")
    /\ UNCHANGED orchVars

(* The upgrader has left, or the stop timeout killed it.  With "orphan"    *)
(* the normal modules may not start, and Navigator restores upgrade mode   *)
(* with an upgrader that finds the request still there.                    *)
RestoredUpgrade ==
    {b \in BOOLEAN : b => "orphan" \in Faults /\ nav.mode = "upgrade" /\ request # NoVersion}

OtaSwitchedNormal ==
    /\ pc["ota"] = "o_backwait"
    /\ \E again \in RestoredUpgrade :
         /\ nav' = [nav EXCEPT !.mode = IF @ = "upgrade" /\ ~again THEN "normal" ELSE @]
         /\ pc' = [pc EXCEPT !["ota"] = "r_load",
                             !["upg"] = IF again THEN "i_check" ELSE "idle"]
         /\ loc' = [loc EXCEPT !["ota"].ret = "o_failed",
                        !["upg"] = IF again THEN [NoLoc EXCEPT !.ver = request] ELSE NoLoc]
         /\ result' = IF again THEN "none" ELSE result
    /\ UNCHANGED <<kills, fs, may, job, request>>

(* "reexec normal": Navigator answers OK, stops all modules and execs      *)
(* current/bin/cockpit-navigator, which may not come up.  Or the command   *)
(* fails.                                                                  *)
SendReexec(otaLocal, ok, fail) ==
    \/ /\ nav.mode # "down"
       /\ pc' = [pc EXCEPT !["ota"] = ok, !["upg"] = "idle"]
       /\ loc' = [loc EXCEPT !["ota"] = otaLocal, !["upg"] = NoLoc]
       /\ \/ Bootable(fs, fs.current) /\ nav' = [mode |-> "normal", exe |-> fs.current]
          \/ nav' = NavDown
    \/ /\ UNCHANGED nav
       /\ Goto("ota", fail)
       /\ loc' = [loc EXCEPT !["ota"] = otaLocal]

(* A failed reexec recovers and returns to OtaRestore.                     *)
OtaReexec ==
    /\ pc["ota"] = "o_reexec"
    /\ SendReexec([loc["ota"] EXCEPT !.ret = "o_restore"], "o_runtime", "r_load")
    /\ UNCHANGED <<kills, fs, may, job, request, result>>

(* WaitForRuntime: the replacement answers from the release current names. *)
OtaWaitRuntime ==
    /\ pc["ota"] = "o_runtime"
    /\ \/ /\ nav = [mode |-> "normal", exe |-> fs.current]
          /\ Goto("ota", "o_health") /\ SameLoc /\ Stay
       \/ CallRecover("ota", "o_unhealthy")
    /\ UNCHANGED orchVars

(* WaitForUpgradeHealth.                                                   *)
OtaHealth ==
    /\ pc["ota"] = "o_health"
    /\ \/ Goto("ota", "c_load") /\ SameLoc /\ Stay
       \/ CallRecover("ota", "o_unhealthy")
    /\ UNCHANGED orchVars

(* ConfirmUpgrade returned.                                                *)
OtaConfirmed ==
    /\ \/ pc["ota"] = "c_ok" /\ Exit /\ Stay
       \/ pc["ota"] = "c_fail" /\ CallRecover("ota", "o_confirmfail") /\ UNCHANGED job
    /\ UNCHANGED <<kills, request, result, nav>>

(* After the recovery that follows a failed reexec, an unhealthy release   *)
(* or a failed confirmation: Navigator is sent back to current.            *)
OtaRolledBack ==
    /\ pc["ota"] \in {"o_restore", "o_unhealthy", "o_confirmfail"}
    /\ job' = "none"
    /\ \/ job = "standalone" /\ Exit /\ UNCHANGED nav
       \/ job = "online" /\ SendReexec(NoLoc, "idle", "idle")
    /\ UNCHANGED <<kills, fs, may, request, result>>

-----------------------------------------------------------------------------
(* Faults.                                                                 *)

Kill ==
    /\ "kill" \in Faults /\ kills < MaxKills
    /\ kills' = kills + 1

(* The upgrader is installing, or will again once Navigator restarts it.   *)
UpgBusy == pc["upg"] \notin {"idle", "u_done"}

(* The machine loses power.  A request or a result left behind is          *)
(* overwritten before anything reads it again, so neither is kept.         *)
PowerLoss ==
    /\ "power" \in Faults
    /\ LosePower
    /\ pc' = [p \in Procs |-> "idle"]
    /\ loc' = [p \in Procs |-> NoLoc]
    /\ kills' = 0
    /\ job' = "none"
    /\ nav' = NavDown
    /\ request' = NoVersion
    /\ result' = "none"

(* safe-ota is killed and its lock freed.  Without "orphan" this does not  *)
(* happen while the upgrader it started is at work.                        *)
OtaKilled ==
    /\ Kill
    /\ pc["ota"] # "idle"
    /\ ~UpgBusy \/ "orphan" \in Faults
    /\ Exit
    /\ UNCHANGED <<fs, may, request, result, nav>>

UpgraderKilled ==
    /\ Kill
    /\ UpgBusy /\ pc["upg"] # "u_dead"
    /\ UpgraderGone("u_dead")
    /\ UNCHANGED <<fs, may, job, request, result, nav>>

(* Navigator dies in upgrade mode and takes the upgrader with it, which is *)
(* sent SIGTERM (PR_SET_PDEATHSIG).  Bound: it is gone at once; what a     *)
(* safe-ota does beside one that is still leaving is not modelled.         *)
NavKilled ==
    /\ Kill
    /\ nav.mode = "upgrade"
    /\ nav' = NavDown
    /\ UpgraderGone("idle")
    /\ UNCHANGED <<fs, may, job, request, result>>

-----------------------------------------------------------------------------

Library(p) == TxnNext(p) /\ UNCHANGED orchVars

OtaStep ==
    \/ OtaRecovered \/ OtaFailed \/ OtaInstalled \/ OtaRequest
    \/ OtaSwitchUpgrade \/ OtaWaitResult \/ OtaSwitchNormal \/ OtaSwitchedNormal
    \/ OtaReexec \/ OtaWaitRuntime \/ OtaHealth
    \/ OtaConfirmed \/ OtaRolledBack
    \/ Library("ota")

UpgStep == UpgraderPublish \/ Library("upg")

Fault == PowerLoss \/ OtaKilled \/ UpgraderKilled \/ NavKilled

StartRun ==
    \/ \E v \in Versions : Start("standalone", v) \/ Start("online", v)
    \/ Start("recover", NoVersion)

Next == StartRun \/ OtaStep \/ UpgStep \/ NavBoot \/ UpgraderRestart \/ Fault

Spec == Init /\ [][Next]_vars
(* An administrator runs `safe-ota --recover' again after every            *)
(* interruption (docs: before the service is started), and the processes   *)
(* that are running take their steps.                                      *)
Fairness ==
    /\ WF_vars(OtaStep)
    /\ WF_vars(UpgStep)
    /\ SF_vars(Start("recover", NoVersion))

FairSpec == Spec /\ Fairness

-----------------------------------------------------------------------------
(* Properties.                                                             *)

(* Where a device ends up from a transaction and a `current' it may find   *)
(* on disk: an unconfirmed upgrade falls back to the previous release.     *)
Home(t, c) == IF t.state \in {"prepared", "activated"} THEN t.prev ELSE c

(* Whatever the disk holds after a power loss at any instant, the release  *)
(* the transaction file leads back to is there in full, and a confirmed    *)
(* transaction always finds its own release active (RecoverInterrupted-    *)
(* Upgrade would otherwise refuse for ever).                               *)
Recoverable ==
    \A t \in may.txn, c \in may.current :
        /\ Home(t, c) \in Versions => may.rel[Home(t, c)] = {"complete"}
        /\ t.state = "confirmed" => c = t.version

(* A device without a transaction keeps no half-copied or half-removed     *)
(* release and nothing at all of a version newer than the active one: a    *)
(* leftover would block that version ("release already exists") for ever.  *)
RetryPossible ==
    NoTxn \in may.txn =>
        \A v \in Versions :
            /\ "partial" \notin may.rel[v]
            /\ (\A c \in may.current : v > c) => may.rel[v] = {"absent"}

(* Anti-rollback: the release a device runs or falls back to is never      *)
(* older than the version floor, on any disk image.                        *)
NotBelowFloor ==
    \A t \in may.txn, c \in may.current, f \in may.floor : Home(t, c) >= f

(* When ConfirmUpgrade reports success the new release, its floor and the  *)
(* end of the transaction are all durable.                                 *)
SuccessIsDurable ==
    pc["ota"] = "c_ok" =>
        /\ may.txn = {NoTxn}
        /\ may.current = {loc["ota"].ver}
        /\ may.floor = {loc["ota"].ver}

(* The floor a power loss can bring back never goes down.                  *)
FloorNeverLowered ==
    [][\A g \in may'.floor : \E f \in may.floor : g >= f]_vars

(* Once faults stop, an interrupted upgrade is resolved: the transaction   *)
(* goes away.                                                              *)
InterruptedUpgradeResolved ==
    <>[][~Fault]_vars => []<>(fs.txn = NoTxn)

(* docs: run/safe-ota.lock lets only one upgrade run on an install root.   *)
Working(p) == pc[p] \in InstallLabels \cup RecoverLabels \cup ConfirmLabels
OneUpgradeAtATime == ~(Working("ota") /\ Working("upg"))

=============================================================================
