---------------------------- MODULE UpgradeStore ----------------------------
(***************************************************************************)
(* The install root the OTA upgrader works on: the transaction file, the   *)
(* version floor, the `current' symlink and the release directories, each  *)
(* with the values a power loss may leave on disk.                         *)
(*                                                                         *)
(* fs is what a process that reads the file system sees now.  may holds,   *)
(* for every object, the values its directory may contain after a power    *)
(* loss: a write adds one, a sync of the directory leaves only the visible *)
(* one.  Directories are independent, as POSIX allows.                     *)
(***************************************************************************)
EXTENDS Integers, FiniteSets

CONSTANT MaxVersion         \* bound: versions that packages exist for

ASSUME MaxVersionAssumption == MaxVersion \in Nat \ {0}

Versions == 1 .. MaxVersion
NoVersion == 0              \* no floor file, no `current' symlink
MaybeVersion == Versions \cup {NoVersion}

TransactionState == {"prepared", "activated", "confirmed"}
NoTxn == [state |-> "none", version |-> NoVersion, prev |-> NoVersion]
Txns == [state : TransactionState, version : Versions, prev : MaybeVersion]
            \cup {NoTxn}
Txn(s, v, p) == [state |-> s, version |-> v, prev |-> p]

ReleaseState == {"absent", "partial", "complete"}

VARIABLES fs, may

storeVars == <<fs, may>>

StoreTypeOK ==
    /\ fs \in [txn : Txns, floor : MaybeVersion, current : MaybeVersion,
               rel : [Versions -> ReleaseState]]
    /\ may \in [txn : SUBSET Txns, floor : SUBSET MaybeVersion,
                current : SUBSET MaybeVersion,
                rel : [Versions -> SUBSET ReleaseState]]

(* A device with release 1 installed and nothing pending, or an empty one. *)
StoreInit ==
    /\ \E v \in {NoVersion, 1} :
         fs = [txn |-> NoTxn, floor |-> NoVersion, current |-> v,
               rel |-> [r \in Versions |-> IF r = v THEN "complete" ELSE "absent"]]
    /\ may = [txn |-> {fs.txn}, floor |-> {fs.floor}, current |-> {fs.current},
              rel |-> [r \in Versions |-> {fs.rel[r]}]]

-----------------------------------------------------------------------------
(* Writes: visible at once, durable only after the directory is synced.    *)

PutTxn(t) ==
    /\ fs' = [fs EXCEPT !.txn = t]
    /\ may' = [may EXCEPT !.txn = @ \cup {t}]

(* Mutant: the floor file is truncated and rewritten in place.             *)
PutFloorInPlace(v) ==
    /\ fs' = [fs EXCEPT !.floor = v]
    /\ may' = [may EXCEPT !.floor = @ \cup {v, NoVersion}]

PutFloor(v) ==
    /\ fs' = [fs EXCEPT !.floor = v]
    /\ may' = [may EXCEPT !.floor = @ \cup {v}]

PutCurrent(v) ==
    /\ fs' = [fs EXCEPT !.current = v]
    /\ may' = [may EXCEPT !.current = @ \cup {v}]

PutRelease(v, s) ==
    /\ fs' = [fs EXCEPT !.rel[v] = s]
    /\ may' = [may EXCEPT !.rel[v] = @ \cup {s}]

-----------------------------------------------------------------------------
(* SyncPath on each directory, and sync -f of the whole file system.       *)

SyncRun == /\ may' = [may EXCEPT !.txn = {fs.txn}]
           /\ UNCHANGED fs

SyncData == /\ may' = [may EXCEPT !.floor = {fs.floor}]
            /\ UNCHANGED fs

SyncRoot == /\ may' = [may EXCEPT !.current = {fs.current}]
            /\ UNCHANGED fs

SyncReleases == /\ may' = [may EXCEPT !.rel = [r \in Versions |-> {fs.rel[r]}]]
                /\ UNCHANGED fs

SyncAll(f) ==
    may' = [txn |-> {f.txn}, floor |-> {f.floor}, current |-> {f.current},
            rel |-> [r \in Versions |-> {f.rel[r]}]]

(* The power fails: every directory comes back as one of the images it may *)
(* have on disk, and what comes back is durable.                           *)
LosePower ==
    /\ \E t \in may.txn, f \in may.floor, c \in may.current,
          r \in [Versions -> ReleaseState] :
         /\ \A v \in Versions : r[v] \in may.rel[v]
         /\ fs' = [txn |-> t, floor |-> f, current |-> c, rel |-> r]
    /\ SyncAll(fs')

(* A release directory holds a runnable system.                            *)
Bootable(f, v) == v \in Versions /\ f.rel[v] = "complete"
=============================================================================
