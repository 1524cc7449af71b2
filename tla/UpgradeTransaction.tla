------------------------- MODULE UpgradeTransaction -------------------------
(***************************************************************************)
(* cockpit/upgrader/runtime/upgrade_transaction.cc: InstallUpgrade,        *)
(* RecoverInterruptedUpgrade (with RollbackUpgrade and PersistVersionFloor *)
(* inside it) and ConfirmUpgrade, one action per call that reads or        *)
(* changes the install root, so that a kill, a power loss or another       *)
(* process can come between any two of them.                               *)
(*                                                                         *)
(* Two processes run this code: "ota" (safe-ota itself, standalone         *)
(* installs, recovery and confirmation) and "upg" (the upgrader module     *)
(* Navigator starts).  pc[p] is where process p is; loc[p] holds its       *)
(* locals: the requested version, the previous release, the loaded         *)
(* transaction, the activated release, where RecoverInterruptedUpgrade     *)
(* returns to, and whether the running flag was cleared (cancel).          *)
(***************************************************************************)
EXTENDS UpgradeStore

CONSTANT Faults     \* which faults the environment may inject

FaultKinds == {"io", "sync", "power", "kill", "orphan"}

ASSUME FaultsAssumption == Faults \subseteq FaultKinds

VARIABLES pc, loc

txnVars == <<fs, may, pc, loc>>

Procs == {"ota", "upg"}

NoLoc == [ver |-> NoVersion, prev |-> NoVersion, txn |-> NoTxn,
          act |-> NoVersion, ret |-> "idle", cancel |-> FALSE]

InstallLabels == {"i_check", "i_prep", "i_prepsync", "i_mkdir", "i_copy",
                  "i_link", "i_sync", "i_verify", "i_act", "i_actsync"}
RecoverLabels == {"r_load", "r_floor", "r_floorsync", "r_read", "r_link",
                  "r_rmact", "r_syncroot", "r_syncrel", "r_rmcand",
                  "r_synccand", "r_rmtxn", "r_syncrun"}
ConfirmLabels == {"c_load", "c_save", "c_savesync", "c_floor", "c_floorsync",
                  "c_rmtxn", "c_syncrun"}
(* Where a library call returns to its caller.                             *)
ReturnLabels == {"i_ok", "i_fail", "c_ok", "c_fail"}

RecoverReturns == {"o_recovered", "o_restore", "o_failed", "o_exit",
                   "o_unhealthy", "o_confirmfail", "i_fail"}

Locals == [ver : MaybeVersion, prev : MaybeVersion, txn : Txns,
           act : MaybeVersion, cancel : BOOLEAN,
           ret : RecoverReturns \cup {"idle"}]

Goto(p, l) == pc' = [pc EXCEPT ![p] = l]
Stay == UNCHANGED storeVars
SameLoc == UNCHANGED loc

(* A step that may fail without changing anything, when the run injects it.*)
IoFails(p, l) == "io" \in Faults /\ Goto(p, l) /\ Stay /\ SameLoc
SyncFails(p, l) == "sync" \in Faults /\ Goto(p, l) /\ Stay /\ SameLoc

(* The directory of a release a symlink may name; no release needs none.   *)
ReleaseExists(v) == v \in Versions => fs.rel[v] # "absent"

-----------------------------------------------------------------------------
(* RecoverInterruptedUpgrade.  It returns to loc[p].ret when it succeeds   *)
(* and to RecoverFailed of that label when it fails.                       *)

RecoverFailed(l) ==
    IF l \in {"o_recovered", "o_restore", "o_unhealthy"} THEN "o_exit" ELSE l

CallRecover(p, l) ==
    /\ Goto(p, "r_load")
    /\ loc' = [loc EXCEPT ![p].ret = l]
    /\ Stay

(* RecoverInterruptedUpgrade returns to label l; its locals go away.       *)
RecoverEnd(p, l) ==
    /\ Goto(p, l)
    /\ loc' = [loc EXCEPT ![p].txn = NoTxn, ![p].act = NoVersion, ![p].ret = "idle"]

RecoverFail(p) == RecoverEnd(p, RecoverFailed(loc[p].ret)) /\ Stay
RecoverIoFails(p) == "io" \in Faults /\ RecoverFail(p)
RecoverSyncFails(p) == "sync" \in Faults /\ RecoverFail(p)

(* LoadTransaction: there is a file, and it names two releases.            *)
LoadTransaction == fs.txn # NoTxn /\ fs.txn.prev # fs.txn.version

(* The confirmed branch's checks: the new release is active and there.     *)
ConfirmedActive ==
    /\ fs.current = fs.txn.version
    /\ fs.rel[fs.txn.version] # "absent"

RecoverLoad(p) ==
    /\ pc[p] = "r_load"
    /\ \/ /\ fs.txn = NoTxn
          /\ RecoverEnd(p, loc[p].ret) /\ Stay
       \/ /\ LoadTransaction
          /\ fs.txn.state = "confirmed" => ConfirmedActive
          /\ loc' = [loc EXCEPT ![p].txn = fs.txn]
          /\ Goto(p, IF fs.txn.state = "confirmed" THEN "r_floor" ELSE "r_read")
          /\ Stay
       \/ /\ fs.txn # NoTxn
          /\ LoadTransaction => fs.txn.state = "confirmed" /\ ~ConfirmedActive
          /\ RecoverFail(p)

(* Mutant: the floor is set one past the confirmed version.                *)
PersistVersionFloorOffByOne(p, v, sync, done, fail) ==
    \/ v < fs.floor /\ fail
    \/ v = fs.floor /\ Goto(p, done) /\ Stay /\ SameLoc
    \/ v > fs.floor /\ PutFloor(v + 1) /\ Goto(p, sync) /\ SameLoc

(* PersistVersionFloor: never lowers the floor, writes only to raise it.   *)
PersistVersionFloor(p, v, sync, done, fail) ==
    \/ /\ v < fs.floor
       /\ fail
    \/ /\ v = fs.floor
       /\ Goto(p, done) /\ Stay /\ SameLoc
    \/ /\ v > fs.floor
       /\ \/ PutFloor(v) /\ Goto(p, sync) /\ SameLoc
          \/ "io" \in Faults /\ fail

RecoverFloor(p) ==
    /\ pc[p] = "r_floor"
    /\ PersistVersionFloor(p, loc[p].txn.version, "r_floorsync", "r_rmtxn",
                           RecoverFail(p))

RecoverFloorSync(p) ==
    /\ pc[p] = "r_floorsync"
    /\ \/ SyncData /\ Goto(p, "r_rmtxn") /\ SameLoc
       \/ RecoverSyncFails(p)

(* RollbackUpgrade: which release is active now.                           *)
RollbackRead(p) ==
    /\ pc[p] = "r_read"
    /\ loc' = [loc EXCEPT ![p].act = fs.current]
    /\ Goto(p, "r_link") /\ Stay

(* current.new is renamed over current, or current is removed.             *)
RollbackLink(p) ==
    LET prev == loc[p].txn.prev IN
    /\ pc[p] = "r_link"
    /\ \/ /\ ReleaseExists(prev)
          /\ PutCurrent(prev) /\ Goto(p, "r_rmact") /\ SameLoc
       \/ /\ ~ReleaseExists(prev)
          /\ RecoverFail(p)
       \/ RecoverIoFails(p)

(* remove_all of a release: it may be seen, or cut short, half done.       *)
RemoveTree(p, v, next) ==
    \/ /\ fs.rel[v] = "complete"
       /\ PutRelease(v, "partial") /\ UNCHANGED <<pc, loc>>
    \/ /\ fs.rel[v] # "absent"
       /\ PutRelease(v, "absent") /\ Goto(p, next) /\ SameLoc
    \/ /\ fs.rel[v] = "absent"
       /\ Goto(p, next) /\ Stay /\ SameLoc
    \/ RecoverIoFails(p)

RollbackRemove(p) ==
    /\ pc[p] = "r_rmact"
    /\ \/ /\ loc[p].act \notin {NoVersion, loc[p].txn.prev}
          /\ RemoveTree(p, loc[p].act, "r_syncroot")
       \/ /\ loc[p].act \in {NoVersion, loc[p].txn.prev}
          /\ Goto(p, "r_syncroot") /\ Stay /\ SameLoc

(* Mutant: the rolled back symlink is not synced.                          *)
RollbackSyncRootDropped(p) ==
    pc[p] = "r_syncroot" /\ Goto(p, "r_syncrel") /\ Stay /\ SameLoc

RollbackSyncRoot(p) ==
    /\ pc[p] = "r_syncroot"
    /\ \/ SyncRoot /\ Goto(p, "r_syncrel") /\ SameLoc
       \/ RecoverSyncFails(p)

RollbackSyncReleases(p) ==
    /\ pc[p] = "r_syncrel"
    /\ \/ SyncReleases /\ Goto(p, "r_rmcand") /\ SameLoc
       \/ RecoverSyncFails(p)

RecoverRemoveCandidate(p) ==
    /\ pc[p] = "r_rmcand"
    /\ RemoveTree(p, loc[p].txn.version, "r_synccand")

(* Mutant: the removed candidate directory is not synced.                  *)
RecoverSyncCandidateDropped(p) ==
    pc[p] = "r_synccand" /\ Goto(p, "r_rmtxn") /\ Stay /\ SameLoc

RecoverSyncCandidate(p) ==
    /\ pc[p] = "r_synccand"
    /\ \/ SyncReleases /\ Goto(p, "r_rmtxn") /\ SameLoc
       \/ RecoverSyncFails(p)

(* Mutant: the transaction file is left behind.                            *)
RecoverRemoveTxnDropped(p) ==
    pc[p] = "r_rmtxn" /\ Goto(p, "r_syncrun") /\ Stay /\ SameLoc

RecoverRemoveTxn(p) ==
    /\ pc[p] = "r_rmtxn"
    /\ \/ PutTxn(NoTxn) /\ Goto(p, "r_syncrun") /\ SameLoc
       \/ RecoverIoFails(p)

RecoverSyncRun(p) ==
    /\ pc[p] = "r_syncrun"
    /\ \/ SyncRun /\ RecoverEnd(p, loc[p].ret)
       \/ RecoverSyncFails(p)

Recover(p) ==
    \/ RecoverLoad(p) \/ RecoverFloor(p) \/ RecoverFloorSync(p)
    \/ RollbackRead(p) \/ RollbackLink(p) \/ RollbackRemove(p)
    \/ RollbackSyncRoot(p) \/ RollbackSyncReleases(p)
    \/ RecoverRemoveCandidate(p) \/ RecoverSyncCandidate(p)
    \/ RecoverRemoveTxn(p) \/ RecoverSyncRun(p)

-----------------------------------------------------------------------------
(* InstallUpgrade.                                                         *)

(* CheckAntiRollback: newer than the floor and than the active release.    *)
CheckAntiRollback(v) == v > fs.floor /\ v > fs.current

(* Signature, manifest, checksum, current and anti-rollback checks.  A bad *)
(* package, a cancelled check or an injected failure ends the install      *)
(* before anything is written.                                             *)
InstallCheck(p) ==
    LET v == loc[p].ver IN
    /\ pc[p] = "i_check"
    /\ \/ /\ ReleaseExists(fs.current)
          /\ CheckAntiRollback(v)
          /\ fs.rel[v] = "absent"
          /\ ~loc[p].cancel
          /\ loc' = [loc EXCEPT ![p].prev = fs.current]
          /\ Goto(p, "i_prep") /\ Stay
       \/ Goto(p, "i_fail") /\ Stay /\ SameLoc

(* SaveTransaction: rename of the synced temporary, then the directory.    *)
InstallPrepare(p) ==
    /\ pc[p] = "i_prep"
    /\ \/ /\ PutTxn(Txn("prepared", loc[p].ver, loc[p].prev))
          /\ Goto(p, "i_prepsync") /\ SameLoc
       \/ IoFails(p, "i_fail")

InstallPrepareSync(p) ==
    /\ pc[p] = "i_prepsync"
    /\ \/ SyncRun /\ Goto(p, "i_mkdir") /\ SameLoc
       \/ SyncFails(p, "i_fail")

(* deploy/install.sh, run by RunProcess.  A non-zero exit, a timeout or a  *)
(* cleared running flag kills it where it is and recovers.                 *)
InstallerFails(p) ==
    /\ pc[p] \in {"i_mkdir", "i_copy", "i_link", "i_sync"}
    /\ \/ "io" \in Faults
       \/ loc[p].cancel
       \/ pc[p] = "i_copy" /\ fs.rel[loc[p].ver] = "absent"
    /\ CallRecover(p, "i_fail")

InstallMkdir(p) ==
    /\ pc[p] = "i_mkdir"
    /\ PutRelease(loc[p].ver, "partial")
    /\ Goto(p, "i_copy") /\ SameLoc

(* cp of the release, then sync -f of the file system.                     *)
InstallCopy(p) ==
    /\ pc[p] = "i_copy"
    /\ fs.rel[loc[p].ver] # "absent"
    /\ fs' = [fs EXCEPT !.rel[loc[p].ver] = "complete"]
    /\ SyncAll(fs')
    /\ Goto(p, "i_link") /\ SameLoc

InstallLink(p) ==
    /\ pc[p] = "i_link"
    /\ PutCurrent(loc[p].ver)
    /\ Goto(p, "i_sync") /\ SameLoc

InstallSync(p) ==
    /\ pc[p] = "i_sync"
    /\ SyncAll(fs) /\ UNCHANGED fs
    /\ Goto(p, "i_verify") /\ SameLoc

InstallVerify(p) ==
    /\ pc[p] = "i_verify"
    /\ \/ fs.current = loc[p].ver /\ Goto(p, "i_act") /\ Stay /\ SameLoc
       \/ fs.current # loc[p].ver /\ CallRecover(p, "i_fail")

InstallActivate(p) ==
    /\ pc[p] = "i_act"
    /\ \/ /\ PutTxn(Txn("activated", loc[p].ver, loc[p].prev))
          /\ Goto(p, "i_actsync") /\ SameLoc
       \/ "io" \in Faults /\ CallRecover(p, "i_fail")

InstallActivateSync(p) ==
    /\ pc[p] = "i_actsync"
    /\ \/ SyncRun /\ Goto(p, "i_ok") /\ SameLoc
       \/ "sync" \in Faults /\ CallRecover(p, "i_fail")

InstallUpgrade(p) ==
    \/ InstallCheck(p) \/ InstallPrepare(p) \/ InstallPrepareSync(p)
    \/ InstallerFails(p) \/ InstallMkdir(p) \/ InstallCopy(p)
    \/ InstallLink(p) \/ InstallSync(p) \/ InstallVerify(p)
    \/ InstallActivate(p) \/ InstallActivateSync(p)

-----------------------------------------------------------------------------
(* ConfirmUpgrade.                                                         *)

ConfirmEnd(p, l) ==
    /\ Goto(p, l)
    /\ loc' = [loc EXCEPT ![p].txn = NoTxn]

ConfirmFail(p) == ConfirmEnd(p, "c_fail") /\ Stay

(* The transaction to confirm: activated, this version's, and active.      *)
Confirmable(v) ==
    /\ LoadTransaction
    /\ fs.txn.state = "activated" /\ fs.txn.version = v
    /\ fs.current = v

ConfirmLoad(p) ==
    /\ pc[p] = "c_load"
    /\ \/ /\ Confirmable(loc[p].ver)
          /\ loc' = [loc EXCEPT ![p].txn = [fs.txn EXCEPT !.state = "confirmed"]]
          /\ Goto(p, "c_save") /\ Stay
       \/ /\ ~Confirmable(loc[p].ver)
          /\ Goto(p, "c_fail") /\ Stay /\ SameLoc

(* Mutant: the confirmed transaction is published without the sync.        *)
ConfirmSaveUnsynced(p) ==
    pc[p] = "c_save" /\ PutTxn(loc[p].txn) /\ Goto(p, "c_floor") /\ SameLoc

ConfirmSave(p) ==
    /\ pc[p] = "c_save"
    /\ \/ PutTxn(loc[p].txn) /\ Goto(p, "c_savesync") /\ SameLoc
       \/ "io" \in Faults /\ ConfirmFail(p)

ConfirmSaveSync(p) ==
    /\ pc[p] = "c_savesync"
    /\ \/ SyncRun /\ Goto(p, "c_floor") /\ SameLoc
       \/ "sync" \in Faults /\ ConfirmFail(p)

ConfirmFloor(p) ==
    /\ pc[p] = "c_floor"
    /\ PersistVersionFloor(p, loc[p].txn.version, "c_floorsync", "c_rmtxn",
                           ConfirmFail(p))

ConfirmFloorSync(p) ==
    /\ pc[p] = "c_floorsync"
    /\ \/ SyncData /\ Goto(p, "c_rmtxn") /\ SameLoc
       \/ "sync" \in Faults /\ ConfirmFail(p)

ConfirmRemoveTxn(p) ==
    /\ pc[p] = "c_rmtxn"
    /\ \/ PutTxn(NoTxn) /\ Goto(p, "c_syncrun") /\ SameLoc
       \/ "io" \in Faults /\ ConfirmFail(p)

(* Mutant: success is reported before the removal is synced.               *)
ConfirmSyncRunDropped(p) ==
    pc[p] = "c_syncrun" /\ ConfirmEnd(p, "c_ok") /\ Stay

ConfirmSyncRun(p) ==
    /\ pc[p] = "c_syncrun"
    /\ \/ SyncRun /\ ConfirmEnd(p, "c_ok")
       \/ "sync" \in Faults /\ ConfirmFail(p)

ConfirmUpgrade(p) ==
    \/ ConfirmLoad(p) \/ ConfirmSave(p) \/ ConfirmSaveSync(p)
    \/ ConfirmFloor(p) \/ ConfirmFloorSync(p)
    \/ ConfirmRemoveTxn(p) \/ ConfirmSyncRun(p)

TxnNext(p) == Recover(p) \/ InstallUpgrade(p) \/ ConfirmUpgrade(p)

TxnInit ==
    /\ StoreInit
    /\ pc = [p \in Procs |-> "idle"]
    /\ loc = [p \in Procs |-> NoLoc]
=============================================================================
