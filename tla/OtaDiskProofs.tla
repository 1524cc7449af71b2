--------------------------- MODULE OtaDiskProofs ----------------------------
(***************************************************************************)
(* No kill, failure or power loss in the middle of an install, a recovery  *)
(* or a confirmation leaves a device that cannot boot, cannot retry or     *)
(* forgets a reported success: the disk's inductive invariant.             *)
(***************************************************************************)
EXTENDS OtaProofs

-----------------------------------------------------------------------------
(* The disk.                                                               *)

Unconfirmed == {"prepared", "activated"}

Whole(v) == v \in Versions => may.rel[v] = {"complete"}

(* But for version v, no release is half there, and none newer than p is.  *)
Clean(p, v) ==
    \A w \in Versions \ {v} : "partial" \notin may.rel[w] /\ (w > p => may.rel[w] = {"absent"})

(* A transaction that may be found while `current' is h for certain: it    *)
(* starts from h, or it led to h and its way back is open.                 *)
Fits(t, h) ==
    \/ t = NoTxn
    \/ /\ t.prev < t.version
       /\ \/ t.state = "confirmed" /\ t.version = h
          \/ /\ t.state \in Unconfirmed
             /\ t.prev = h \/ (t.version = h /\ Whole(t.prev) /\ Clean(t.prev, h))

(* `current' is certain.                                                   *)
Settled ==
    /\ may.current = {fs.current} /\ Whole(fs.current) /\ Clean(fs.current, NoVersion)
    /\ \A t \in may.txn : Fits(t, fs.current)
    /\ fs.txn.state \in Unconfirmed => fs.txn.prev = fs.current

(* An unconfirmed transaction is certain; `current' is at either end of it.*)
Moving ==
    LET t == fs.txn IN
    /\ t.state \in Unconfirmed /\ t.prev < t.version
    /\ may.txn \subseteq {Txn(s, t.version, t.prev) : s \in Unconfirmed}
    /\ may.current \subseteq {t.version, t.prev}
    /\ Whole(t.prev) /\ Clean(t.prev, t.version)

Disk == Settled \/ Moving

-----------------------------------------------------------------------------
(* The processes.                                                          *)

(* Release v is installed and activated, for certain, and not confirmed.   *)
Activated(v) ==
    /\ v \in Versions /\ v > fs.floor
    /\ fs.txn.state = "activated" /\ fs.txn.version = v
    /\ may.txn = {fs.txn} /\ may.current = {v} /\ may.rel[v] = {"complete"}

Rolling == {"r_read", "r_link", "r_rmact", "r_syncroot", "r_syncrel", "r_rmcand", "r_synccand"}

RecoverPhase(l, x) ==
    /\ l \in {"r_floor", "r_floorsync"} => fs.txn.state = "confirmed"
    /\ l \in Rolling => fs.txn.state \in Unconfirmed
    /\ l \in {"r_floor", "r_floorsync", "r_rmtxn"} \cup Rolling => x.txn = fs.txn
    /\ l \in {"r_link", "r_rmact"} => x.act \in may.current
    /\ l \in Rolling \ {"r_read", "r_link"} => fs.current = x.txn.prev
    /\ l \in {"r_syncrel", "r_rmcand", "r_synccand"} => may.current = {x.txn.prev}
    /\ l = "r_synccand" => fs.rel[x.txn.version] = "absent"
    /\ l = "r_rmtxn" =>
         /\ fs.txn # NoTxn
         /\ fs.txn.state \in Unconfirmed => /\ may.current = {x.txn.prev}
                                            /\ may.rel[x.txn.version] = {"absent"}
    /\ l = "r_syncrun" => fs.txn = NoTxn

Owned(v) == fs.txn = NoTxn \/ (fs.txn.state \in Unconfirmed /\ fs.txn.version = v)

InstallPhase(l, x) ==
    /\ l \in InstallLabels => x.ver \in Versions
    /\ l \in InstallLabels \ {"i_check"} => x.ver > fs.floor /\ x.prev < x.ver
    /\ l = "i_check" => Owned(x.ver)
    /\ l \in {"i_prep", "i_prepsync", "i_mkdir"} => fs.rel[x.ver] = "absent"
    /\ l \in {"i_prep", "i_prepsync", "i_mkdir", "i_copy", "i_link"} => fs.current = x.prev
    /\ l = "i_prep" => Owned(x.ver) /\ (fs.txn # NoTxn => fs.txn.prev = x.prev)
    /\ l \in {"i_prepsync", "i_mkdir", "i_copy", "i_link", "i_sync", "i_verify", "i_act"} =>
         fs.txn = Txn("prepared", x.ver, x.prev)
    /\ l \in {"i_mkdir", "i_copy", "i_link", "i_sync", "i_verify", "i_act"} =>
         may.txn = {fs.txn}
    /\ l = "i_link" => may.current = {x.prev}
    /\ l \in {"i_link", "i_sync", "i_verify", "i_act", "i_actsync"} =>
         may.rel[x.ver] = {"complete"}
    /\ l = "i_sync" => fs.current = x.ver
    /\ l \in {"i_verify", "i_act", "i_actsync"} => may.current = {x.ver}
    /\ l = "i_actsync" => fs.txn = Txn("activated", x.ver, x.prev)
    /\ l = "i_ok" => Activated(x.ver)

ConfirmPhase(l, x) ==
    /\ l \in {"o_health", "o_reexec", "o_runtime", "c_load", "c_save"} => Activated(x.ver)
    /\ l = "c_save" => x.txn = Txn("confirmed", x.ver, fs.txn.prev)
    /\ l \in {"c_savesync", "c_floor", "c_floorsync", "c_rmtxn"} =>
         /\ x.ver \in Versions /\ x.txn = fs.txn
         /\ fs.txn.state = "confirmed" /\ fs.txn.version = x.ver
    /\ l \in {"c_savesync", "c_floor"} => x.ver > fs.floor
    /\ l \in {"c_floor", "c_floorsync", "c_rmtxn"} => may.txn = {fs.txn}
    /\ l = "c_floorsync" => fs.floor = x.ver
    /\ l \in {"c_rmtxn", "c_syncrun", "c_ok"} => may.floor = {x.ver}
    /\ l = "c_syncrun" => fs.txn = NoTxn
    /\ l \in {"c_syncrun", "c_ok"} => may.current = {x.ver}
    /\ l = "c_ok" => may.txn = {NoTxn}

PhaseOf(l, x) == RecoverPhase(l, x) /\ InstallPhase(l, x) /\ ConfirmPhase(l, x)
Phase(p) == PhaseOf(pc[p], loc[p])

(* While the upgrader works, safe-ota waits for it, for the same version.  *)
Waiting == {"o_wait", "o_back", "o_backwait"}

Turns ==
    /\ UpgBusy => /\ pc["ota"] \in Waiting /\ nav.mode = "upgrade" /\ result = "none"
                  /\ request = loc["ota"].ver /\ request \in Versions
                  /\ Owned(request)
                  /\ pc["upg"] # "u_dead" => loc["upg"].ver = request
    /\ pc["ota"] = "o_switch" => result = "none" /\ request = loc["ota"].ver
    /\ pc["ota"] # "idle" /\ job # "recover" => loc["ota"].ver \in Versions
    /\ pc["ota"] \in {"o_recovered", "o_request", "o_switch"} => fs.txn = NoTxn
    /\ pc["ota"] \in {"o_request", "o_switch"} => loc["ota"].ver \in Versions
    /\ pc["ota"] = "o_wait" /\ result = "activated" => Activated(loc["ota"].ver)

(* Which labels belong to whom.                                            *)
Places ==
    /\ pc["upg"] \in UpgLabels \cup InstallLabels \cup RecoverLabels \cup {"i_ok", "i_fail"}
    /\ pc["ota"] \in OtaLabels \cup InstallLabels \cup RecoverLabels \cup ConfirmLabels
                       \cup ReturnLabels
    /\ pc["upg"] \in RecoverLabels => loc["upg"].ret = "i_fail"

(* Without a failed sync and without a kill, a confirmed transaction and   *)
(* the unconfirmed one it replaces are both found only until the sync.     *)
FloorInv ==
    /\ NotBelowFloor
    /\ \A t, u \in may.txn : t.state = "confirmed" /\ u.state \in Unconfirmed =>
                               pc["ota"] = "c_savesync" \/ u.prev = t.version

OtaInv == TypeInv /\ Disk /\ Phase("ota") /\ Phase("upg") /\ Turns /\ Places

-----------------------------------------------------------------------------
(* What each write does to the disk.                                       *)

LEMMA FactsOfDisk ==
    ASSUME TypeInv
    PROVE  /\ fs.txn \in Txns /\ fs.current \in MaybeVersion /\ fs.floor \in MaybeVersion
           /\ fs.txn \in may.txn /\ fs.current \in may.current /\ fs.floor \in may.floor
           /\ may.txn \subseteq Txns /\ may.current \subseteq MaybeVersion
           /\ \A v \in Versions : fs.rel[v] \in may.rel[v] /\ fs.rel[v] \in ReleaseState
           /\ DOMAIN fs.rel = Versions /\ DOMAIN may.rel = Versions
BY DEF TypeInv, StoreInv, StoreTypeOK, Visible

(* A sync, or a write elsewhere: fewer images, the same visible one.       *)
LEMMA DiskShrinks ==
    ASSUME TypeInv, Disk,
           fs'.txn = fs.txn, fs'.current = fs.current,
           may'.txn \subseteq may.txn, may'.current \subseteq may.current,
           fs.current \in may'.current,
           \A v \in Versions : may'.rel[v] \subseteq may.rel[v] /\ may'.rel[v] # {}
    PROVE  Disk'
<1>1. \A v : Whole(v) => Whole(v)'
  BY DEF Whole
<1>2. \A p, v : Clean(p, v) => Clean(p, v)'
  BY DEF Clean
<1>3. \A t, h : Fits(t, h) => Fits(t, h)'
  BY <1>1, <1>2 DEF Fits
<1>4. CASE Settled
  <2>1. may'.current = {fs'.current}
    BY <1>4 DEF Settled
  <2> QED
    BY <1>1, <1>2, <1>3, <1>4, <2>1 DEF Settled, Disk
<1>5. CASE Moving
  BY <1>1, <1>2, <1>5 DEF Moving, Disk
<1> QED
  BY <1>4, <1>5 DEF Disk

LEMMA SameDisk ==
    ASSUME TypeInv, Disk, Same
    PROVE  Disk'
<1>1. \A v \in Versions : may.rel[v] # {}
  BY FactsOfDisk
<1> QED
  BY <1>1, FactsOfDisk, DiskShrinks DEF Same

LEMMA SyncsKeepDisk ==
    ASSUME TypeInv, Disk, SyncRun \/ SyncData \/ SyncRoot \/ SyncReleases
    PROVE  Disk'
<1>1. StoreInv /\ \A v \in Versions : fs.rel[v] \in may.rel[v] /\ may.rel[v] # {}
  BY FactsOfDisk DEF TypeInv
<1>2. CASE SyncRun
  BY <1>1, <1>2, FactsOfDisk, SyncRunStore, DiskShrinks
<1>3. CASE SyncData
  BY <1>1, <1>3, FactsOfDisk, SyncDataStore, DiskShrinks
<1>4. CASE SyncRoot
  BY <1>1, <1>4, FactsOfDisk, SyncRootStore, DiskShrinks
<1>5. CASE SyncReleases
  BY <1>1, <1>5, FactsOfDisk, SyncReleasesStore, DiskShrinks
<1> QED
  BY <1>2, <1>3, <1>4, <1>5

LEMMA PutFloorKeepsDisk ==
    ASSUME TypeInv, Disk, NEW v \in MaybeVersion, PutFloor(v)
    PROVE  Disk'
<1>1. StoreInv /\ \A w \in Versions : may.rel[w] # {}
  BY FactsOfDisk DEF TypeInv
<1> QED
  BY <1>1, FactsOfDisk, PutFloorStore, DiskShrinks

LEMMA LosePowerKeepsDisk ==
    ASSUME TypeInv, Disk, LosePower
    PROVE  Disk'
<1>0. /\ fs'.txn \in may.txn /\ fs'.current \in may.current
      /\ \A v \in Versions : fs'.rel[v] \in may.rel[v]
      /\ may'.txn = {fs'.txn} /\ may'.current = {fs'.current}
      /\ may'.rel = [r \in Versions |-> {fs'.rel[r]}]
  BY LosePowerStore DEF TypeInv
<1>1. \A v : Whole(v) => Whole(v)'
  BY <1>0 DEF Whole
<1>2. \A p, v : Clean(p, v) => Clean(p, v)'
  BY <1>0 DEF Clean
<1>3. \A t, h : Fits(t, h) => Fits(t, h)'
  BY <1>1, <1>2 DEF Fits
<1>4. CASE Settled
  <2>0. PICK t \in may.txn : t = fs'.txn
    BY <1>0
  <2>1. fs'.current = fs.current
    BY <1>0, <1>4 DEF Settled
  <2>2. PICK h \in may.current : h = fs.current
    BY FactsOfDisk
  <2>3. Whole(h)' /\ Clean(h, NoVersion)' /\ Fits(t, h)'
    BY <1>1, <1>2, <1>3, <1>4, <2>0, <2>2 DEF Settled
  <2>4. CASE t.state \in Unconfirmed => t.prev = h
    BY <1>0, <2>0, <2>1, <2>2, <2>3, <2>4 DEF Settled, Disk
  <2>5. CASE t.state \in Unconfirmed /\ t.prev # h
    <3>1. t \in Txns /\ t # NoTxn /\ t.state # "confirmed"
      BY <2>5, FactsOfDisk DEF Unconfirmed, NoTxn
    <3>2. /\ t.prev < t.version /\ t.version = h
          /\ Whole(t.prev)' /\ Clean(t.prev, h)'
      BY <2>3, <2>5, <3>1 DEF Fits
    <3>3. t = Txn(t.state, t.version, t.prev)
      BY <3>1 DEF Txns, Txn
    <3> QED
      BY <1>0, <2>0, <2>1, <2>2, <2>5, <3>2, <3>3 DEF Moving, Disk
  <2> QED
    BY <2>4, <2>5
<1>5. CASE Moving
  <2>1. PICK s \in Unconfirmed : fs'.txn = Txn(s, fs.txn.version, fs.txn.prev)
    BY <1>0, <1>5 DEF Moving
  <2>2. fs'.txn.state = s /\ fs'.txn.version = fs.txn.version /\ fs'.txn.prev = fs.txn.prev
    BY <2>1 DEF Txn
  <2> QED
    BY <1>0, <1>1, <1>2, <1>5, <2>1, <2>2 DEF Moving, Disk
<1> QED
  BY <1>4, <1>5 DEF Disk

(* The transaction is removed once its version is out of reach, or when it *)
(* is confirmed.                                                           *)
LEMMA RemoveTxnKeepsDisk ==
    ASSUME TypeInv, Disk, PutTxn(NoTxn),
           fs.txn.state \in Unconfirmed => /\ may.current = {fs.txn.prev}
                                           /\ may.rel[fs.txn.version] = {"absent"},
           fs.txn # NoTxn
    PROVE  Disk'
<1>0. /\ fs'.txn = NoTxn /\ may'.txn = may.txn \cup {NoTxn} /\ fs'.current = fs.current
      /\ may'.current = may.current /\ may'.rel = may.rel
  BY PutTxnStore, TxnTypes DEF TypeInv
<1>1. \A v : Whole(v) <=> Whole(v)'
  BY <1>0 DEF Whole
<1>2. \A p, v : Clean(p, v) <=> Clean(p, v)'
  BY <1>0 DEF Clean
<1>3. \A t, h : Fits(t, h) => Fits(t, h)'
  BY <1>1, <1>2 DEF Fits
<1>4. NoTxn.state \notin Unconfirmed /\ \A h : Fits(NoTxn, h)'
  BY DEF NoTxn, Unconfirmed, Fits
<1>5. CASE Settled
  <2>1. \A t \in may'.txn : Fits(t, fs.current)'
    BY <1>0, <1>3, <1>4, <1>5 DEF Settled
  <2> QED
    BY <1>0, <1>1, <1>2, <1>4, <1>5, <2>1 DEF Settled, Disk
<1>6. CASE Moving
  <2>1. PICK u \in Txns : u = fs.txn
    BY FactsOfDisk
  <2>2. /\ u.state \in Unconfirmed /\ u.prev < u.version /\ u.version \in Versions
        /\ may.current = {u.prev} /\ fs.current = u.prev
        /\ may.rel[u.version] = {"absent"}
        /\ Whole(u.prev) /\ Clean(u.prev, u.version)
        /\ may.txn \subseteq {Txn(s, u.version, u.prev) : s \in Unconfirmed}
    BY <1>6, <2>1, FactsOfDisk, TxnTypes DEF Moving
  <2>3. Clean(u.prev, NoVersion)
    BY <2>2, VersionTypes DEF Clean
  <2>4. \A t \in may.txn : Fits(t, u.prev)
    BY <2>2 DEF Fits, Txn
  <2>5. \A t \in may'.txn : Fits(t, u.prev)'
    BY <1>0, <1>3, <1>4, <2>4
  <2>6. Whole(u.prev)' /\ Clean(u.prev, NoVersion)'
    BY <1>1, <1>2, <2>2, <2>3
  <2>7. /\ fs'.current = u.prev /\ may'.current = {u.prev}
        /\ ~(fs'.txn.state \in Unconfirmed)
    BY <1>0, <1>4, <2>2
  <2>8. Settled'
    BY <2>5, <2>6, <2>7 DEF Settled
  <2> QED
    BY <2>8 DEF Disk
<1> QED
  BY <1>5, <1>6 DEF Disk

(* The install publishes what it is about to do.                           *)
LEMMA PrepareKeepsDisk ==
    ASSUME TypeInv, Disk, NEW v \in Versions, NEW q \in MaybeVersion,
           PutTxn(Txn("prepared", v, q)),
           fs.current = q, q < v,
           \/ fs.txn = NoTxn
           \/ fs.txn.state \in Unconfirmed /\ fs.txn.version = v /\ fs.txn.prev = q
    PROVE  Disk'
<1> DEFINE n == Txn("prepared", v, q)
<1>0. n \in Txns /\ n.state = "prepared" /\ n.version = v /\ n.prev = q /\ n # NoTxn
  BY TxnTypes DEF Txn, TransactionState
<1>01. PutTxn(n)
  OBVIOUS
<1> HIDE DEF n
<1>1. /\ fs'.txn = n /\ may'.txn = may.txn \cup {n} /\ fs'.current = fs.current
      /\ may'.current = may.current /\ may'.rel = may.rel
  BY <1>0, <1>01, PutTxnStore DEF TypeInv
<1>2. \A w : Whole(w) => Whole(w)'
  BY <1>1 DEF Whole
<1>3. \A p, w : Clean(p, w) => Clean(p, w)'
  BY <1>1 DEF Clean
<1>4. \A t, h : Fits(t, h) => Fits(t, h)'
  BY <1>2, <1>3 DEF Fits
<1>5. CASE Settled
  <2>1. Fits(n, q)'
    BY <1>0 DEF Fits, Unconfirmed
  <2>2. \A t \in may'.txn : Fits(t, q)'
    BY <1>1, <1>4, <1>5, <2>1 DEF Settled
  <2>3. Whole(q)' /\ Clean(q, NoVersion)' /\ may'.current = {q} /\ fs'.current = q
    BY <1>1, <1>2, <1>3, <1>5 DEF Settled
  <2>4. Settled'
    BY <1>0, <1>1, <2>2, <2>3 DEF Settled
  <2> QED
    BY <2>4 DEF Disk
<1>6. CASE Moving
  <2>1. fs.txn # NoTxn
    BY <1>6 DEF Moving, NoTxn, Unconfirmed
  <2>2. /\ fs.txn.version = v /\ fs.txn.prev = q
        /\ Whole(q)' /\ Clean(q, v)' /\ may'.current \subseteq {v, q}
    BY <1>1, <1>2, <1>3, <1>6, <2>1 DEF Moving
  <2>3. n \in {Txn(s, v, q) : s \in Unconfirmed}
    BY DEF n, Unconfirmed
  <2>4. may'.txn \subseteq {Txn(s, v, q) : s \in Unconfirmed}
    BY <1>1, <1>6, <2>2, <2>3 DEF Moving
  <2>5. Moving'
    BY <1>0, <1>1, <2>2, <2>4 DEF Moving, Unconfirmed
  <2> QED
    BY <2>5 DEF Disk
<1> QED
  BY <1>5, <1>6 DEF Disk

(* An unconfirmed transaction that is certain lets `current' move.         *)
LEMMA CertainMoves ==
    ASSUME TypeInv, Disk, fs.txn.state \in Unconfirmed, may.txn = {fs.txn}
    PROVE  Moving
<1>1. CASE Settled
  <2>1. /\ fs.txn.prev = fs.current /\ Fits(fs.txn, fs.current) /\ fs.txn \in Txns
        /\ fs.txn # NoTxn /\ fs.txn.state # "confirmed"
    BY <1>1, FactsOfDisk DEF Settled, NoTxn, Unconfirmed
  <2>2. fs.txn.prev < fs.txn.version
    BY <2>1 DEF Fits
  <2>3. fs.txn = Txn(fs.txn.state, fs.txn.version, fs.txn.prev)
    BY <2>1 DEF Txns, Txn
  <2>4. Whole(fs.txn.prev) /\ Clean(fs.txn.prev, fs.txn.version)
    BY <1>1, <2>1, TxnTypes, VersionTypes DEF Settled, Clean
  <2> QED
    BY <1>1, <2>1, <2>2, <2>3, <2>4 DEF Moving, Settled
<1> QED
  BY <1>1 DEF Disk

LEMMA ActivateKeepsDisk ==
    ASSUME TypeInv, Disk, NEW v \in Versions, NEW q \in MaybeVersion,
           PutTxn(Txn("activated", v, q)),
           fs.txn = Txn("prepared", v, q), may.txn = {fs.txn}
    PROVE  Disk'
<1> DEFINE n == Txn("activated", v, q)
<1>0. n \in Txns /\ n.state = "activated" /\ n.version = v /\ n.prev = q
  BY TxnTypes DEF Txn, TransactionState
<1>01. PutTxn(n)
  OBVIOUS
<1>02. n \in {Txn(s, v, q) : s \in Unconfirmed}
  BY DEF Unconfirmed
<1> HIDE DEF n
<1>1. /\ fs'.txn = n /\ may'.txn = may.txn \cup {n} /\ fs'.current = fs.current
      /\ may'.current = may.current /\ may'.rel = may.rel
  BY <1>0, <1>01, PutTxnStore DEF TypeInv
<1>2. fs.txn.state \in Unconfirmed /\ fs.txn.version = v /\ fs.txn.prev = q
  BY DEF Txn, Unconfirmed
<1>3. Moving
  BY <1>2, CertainMoves
<1>4. Whole(q)' /\ Clean(q, v)'
  BY <1>1, <1>2, <1>3 DEF Moving, Whole, Clean
<1>5. may'.txn \subseteq {Txn(s, v, q) : s \in Unconfirmed}
  BY <1>1, <1>02, <1>2, <1>3 DEF Moving
<1>6. Moving'
  BY <1>0, <1>1, <1>2, <1>3, <1>4, <1>5 DEF Moving, Unconfirmed
<1> QED
  BY <1>6 DEF Disk

(* Point of no return: from here on `current' and the transaction agree.   *)
LEMMA ConfirmKeepsDisk ==
    ASSUME TypeInv, Disk, NEW v \in Versions, NEW q \in MaybeVersion,
           PutTxn(Txn("confirmed", v, q)), fs.txn = Txn("activated", v, q),
           Activated(v)
    PROVE  Disk'
<1> DEFINE n == Txn("confirmed", v, q)
<1>0. n \in Txns /\ n.state = "confirmed" /\ n.version = v /\ n.prev = q
  BY TxnTypes DEF Txn, TransactionState
<1>01. PutTxn(n)
  OBVIOUS
<1> HIDE DEF n
<1>1. /\ fs'.txn = n /\ may'.txn = may.txn \cup {n} /\ fs'.current = fs.current
      /\ may'.current = may.current /\ may'.rel = may.rel
  BY <1>0, <1>01, PutTxnStore DEF TypeInv
<1>2. fs.txn.state = "activated" /\ fs.txn.version = v /\ fs.txn.prev = q
  BY DEF Txn
<1>3. Moving
  BY <1>2, CertainMoves DEF Activated, Unconfirmed
<1>4. /\ Whole(q)' /\ Clean(q, v)' /\ q < v /\ may'.rel[v] = {"complete"}
      /\ may'.current = {v} /\ fs'.current = v
  BY <1>1, <1>2, <1>3, FactsOfDisk DEF Moving, Whole, Clean, Activated
<1>5. Clean(v, NoVersion)'
  BY <1>4, VersionTypes DEF Clean
<1>6. Whole(v)'
  BY <1>4 DEF Whole
<1>7. Clean(q, v)' /\ Fits(n, v)'
  BY <1>0, <1>4 DEF Fits
<1>8. PICK u \in may.txn : u = fs.txn
  BY FactsOfDisk
<1>9. Fits(u, v)'
  BY <1>2, <1>4, <1>8 DEF Fits, Unconfirmed
<1>10. \A t \in may'.txn : Fits(t, v)'
  BY <1>1, <1>7, <1>8, <1>9 DEF Activated
<1>11. Settled'
  BY <1>0, <1>1, <1>4, <1>5, <1>6, <1>10 DEF Settled, Unconfirmed
<1> QED
  BY <1>11 DEF Disk

(* `current' moves to either end of the transaction.                       *)
LEMMA LinkKeepsDisk ==
    ASSUME TypeInv, Moving, NEW v \in MaybeVersion, PutCurrent(v),
           v \in {fs.txn.version, fs.txn.prev}
    PROVE  Disk'
<1>1. /\ fs'.txn = fs.txn /\ may'.txn = may.txn /\ may'.rel = may.rel
      /\ may'.current = may.current \cup {v}
  BY PutCurrentStore DEF TypeInv
<1>2. Moving'
  BY <1>1 DEF Moving, Whole, Clean
<1> QED
  BY <1>2 DEF Disk

LEMMA RelinkKeepsDisk ==
    ASSUME TypeInv, Disk, fs.txn.state \in Unconfirmed, PutCurrent(fs.txn.prev)
    PROVE  Disk'
<1>0. PICK v \in MaybeVersion : v = fs.txn.prev
  BY FactsOfDisk, TxnTypes
<1>1. CASE Moving
  BY <1>0, <1>1, LinkKeepsDisk
<1>2. CASE Settled
  <2>1. v = fs.current /\ \A w \in Versions : may.rel[w] # {}
    BY <1>0, <1>2, FactsOfDisk DEF Settled
  <2>2. /\ fs'.txn = fs.txn /\ may'.txn = may.txn /\ may'.rel = may.rel
        /\ may'.current = may.current \cup {v} /\ fs'.current = v
    BY <1>0, PutCurrentStore DEF TypeInv
  <2> QED
    BY <2>1, <2>2, FactsOfDisk, DiskShrinks
<1> QED
  BY <1>1, <1>2 DEF Disk

(* The version in transit is copied or removed.                            *)
LEMMA ReleaseKeepsDisk ==
    ASSUME TypeInv, Moving, NEW v \in Versions, NEW s \in ReleaseState, PutRelease(v, s),
           v = fs.txn.version
    PROVE  Disk'
<1>1. /\ fs'.txn = fs.txn /\ may'.txn = may.txn /\ may'.current = may.current
      /\ may'.rel = [may.rel EXCEPT ![v] = may.rel[v] \cup {s}]
  BY PutReleaseStore DEF TypeInv
<1>2. \A w \in Versions \ {v} : may'.rel[w] = may.rel[w]
  BY <1>1, FactsOfDisk
<1>3. fs.txn.prev # v
  BY VersionTypes, FactsOfDisk, TxnTypes DEF Moving
<1>5. Moving'
  BY <1>1, <1>2, <1>3 DEF Moving, Whole, Clean
<1> QED
  BY <1>5 DEF Disk

(* A candidate that is certainly gone is removed again.                    *)
LEMMA RemoveAbsentKeepsDisk ==
    ASSUME TypeInv, Disk, NEW v \in Versions, PutRelease(v, "absent"), may.rel[v] = {"absent"}
    PROVE  Disk'
<1>1. /\ fs'.txn = fs.txn /\ may'.txn = may.txn /\ may'.current = may.current
      /\ fs'.current = fs.current
      /\ may'.rel = [may.rel EXCEPT ![v] = may.rel[v] \cup {"absent"}]
  BY PutReleaseStore DEF TypeInv, ReleaseState
<1>2. \A w \in Versions : may'.rel[w] = may.rel[w] /\ may.rel[w] # {}
  BY <1>1, FactsOfDisk
<1> QED
  BY <1>1, <1>2, FactsOfDisk, DiskShrinks

(* Where a version in transit is, when a recovery is about to remove it.   *)
LEMMA CandidateFacts ==
    ASSUME TypeInv, Disk, fs.txn.state \in Unconfirmed
    PROVE  /\ fs.txn.version \in Versions /\ fs.txn # NoTxn
           /\ fs.txn.prev < fs.txn.version /\ fs.txn.prev \in MaybeVersion
           /\ \/ Moving
              \/ /\ Settled /\ may.rel[fs.txn.version] = {"absent"}
                 /\ may.current = {fs.txn.prev} /\ fs.current = fs.txn.prev
<1>1. fs.txn # NoTxn /\ fs.txn.state # "confirmed"
  BY DEF NoTxn, Unconfirmed
<1>2. fs.txn.version \in Versions /\ fs.txn.prev \in MaybeVersion
  BY <1>1, FactsOfDisk, TxnTypes
<1>3. CASE Settled
  <2>1. Fits(fs.txn, fs.current) /\ fs.txn.prev = fs.current
    BY <1>3, FactsOfDisk DEF Settled
  <2>2. fs.txn.prev < fs.txn.version
    BY <1>1, <2>1 DEF Fits
  <2>3. Clean(fs.current, NoVersion) /\ fs.txn.version > fs.current
    BY <1>2, <1>3, <2>1, <2>2, VersionTypes DEF Settled
  <2>4. may.rel[fs.txn.version] = {"absent"}
    BY <1>2, <2>3, VersionTypes DEF Clean
  <2> QED
    BY <1>1, <1>2, <1>3, <2>1, <2>2, <2>4 DEF Settled
<1>4. CASE Moving
  BY <1>1, <1>2, <1>4 DEF Moving
<1> QED
  BY <1>3, <1>4 DEF Disk

LEMMA CopyKeepsDisk ==
    ASSUME TypeInv, Moving, NEW v \in Versions, v = fs.txn.version,
           fs'.txn = fs.txn, fs'.current = fs.current,
           fs'.rel = [fs.rel EXCEPT ![v] = "complete"],
           may'.txn = {fs.txn}, may'.current = {fs.current},
           may'.rel = [r \in Versions |-> {fs'.rel[r]}]
    PROVE  Disk'
<1>1. \A w \in Versions \ {v} : may'.rel[w] = {fs.rel[w]} /\ fs.rel[w] \in may.rel[w]
  BY FactsOfDisk
<1>2. fs.txn.prev # v
  BY VersionTypes, FactsOfDisk, TxnTypes DEF Moving
<1>3. PICK q : q = fs.txn.prev
  OBVIOUS
<1>4. Whole(q)' /\ Clean(q, v)'
  BY <1>1, <1>2, <1>3 DEF Moving, Whole, Clean
<1>5. Moving'
  BY <1>3, <1>4, FactsOfDisk DEF Moving
<1> QED
  BY <1>5 DEF Disk

-----------------------------------------------------------------------------
(* Where a library step leads: the process is somewhere else, and what is  *)
(* said of that place holds.                                               *)

UpgPlace(l, x) ==
    /\ l \in InstallLabels \cup RecoverLabels \cup {"i_ok", "i_fail"}
    /\ l \in RecoverLabels => x.ret = "i_fail"
Placed(p) == p = "upg" => UpgPlace(pc[p], loc[p])

Reaches(p, l, x) ==
    /\ Went(p, l, x) /\ PhaseOf(l, x)'
    /\ l = "o_recovered" => fs'.txn = NoTxn
    /\ l \in InstallLabels \cup RecoverLabels \cup ConfirmLabels \cup ReturnLabels
               \cup RecoverReturns
    /\ p = "upg" => UpgPlace(l, x) /\ (Owned(x.ver) => Owned(x.ver)')

Arrives(p) == \E l : \E x : Reaches(p, l, x)

(* Places nothing is said of.                                              *)
QuietLabels == RecoverReturns \cup UpgLabels
                 \cup {"r_load", "c_fail", "o_request", "o_switch", "o_wait", "o_back", "o_backwait"}

LEMMA Quiet ==
    ASSUME NEW l \in QuietLabels, NEW x
    PROVE  PhaseOf(l, x) /\ PhaseOf(l, x)'
<1>1. /\ l \notin InstallLabels /\ l \notin Rolling /\ l \notin ConfirmLabels
      /\ l \notin {"r_floor", "r_floorsync", "r_rmtxn", "r_syncrun", "i_ok", "c_ok",
                   "o_health", "o_reexec", "o_runtime"}
  BY DEF QuietLabels, RecoverReturns, UpgLabels, InstallLabels, Rolling, ConfirmLabels
<1>2. RecoverPhase(l, x) /\ RecoverPhase(l, x)'
  BY <1>1 DEF RecoverPhase, Rolling
<1>3. InstallPhase(l, x) /\ InstallPhase(l, x)'
  BY <1>1 DEF InstallPhase, InstallLabels
<1>4. ConfirmPhase(l, x) /\ ConfirmPhase(l, x)'
  BY <1>1 DEF ConfirmPhase, ConfirmLabels
<1> QED
  BY <1>2, <1>3, <1>4 DEF PhaseOf

LEMMA SamePhase ==
    ASSUME Same, NEW l, NEW x, NEW v
    PROVE  /\ PhaseOf(l, x)' <=> PhaseOf(l, x)
           /\ Owned(v)' <=> Owned(v)
           /\ Activated(v)' <=> Activated(v)
<1>1. Owned(v)' <=> Owned(v)
  BY DEF Same, Owned
<1>2. Activated(v)' <=> Activated(v)
  BY DEF Same, Activated
<1>3. RecoverPhase(l, x)' <=> RecoverPhase(l, x)
  BY DEF Same, RecoverPhase
<1>4. InstallPhase(l, x)' <=> InstallPhase(l, x)
  BY DEF Same, InstallPhase, Owned, Activated
<1>5. ConfirmPhase(l, x)' <=> ConfirmPhase(l, x)
  BY DEF Same, ConfirmPhase, Activated
<1> QED
  BY <1>1, <1>2, <1>3, <1>4, <1>5 DEF PhaseOf

(* A recovery keeps off the phases of installs and confirmations.          *)
LEMMA RecoverOnly ==
    ASSUME NEW l \in RecoverLabels, NEW x, RecoverPhase(l, x)'
    PROVE  PhaseOf(l, x)'
<1>1. /\ l \notin InstallLabels /\ l \notin ConfirmLabels
      /\ l \notin {"i_ok", "c_ok", "o_health", "o_reexec", "o_runtime"}
  BY DEF RecoverLabels, InstallLabels, ConfirmLabels
<1>2. InstallPhase(l, x)'
  BY <1>1 DEF InstallPhase, InstallLabels
<1>3. ConfirmPhase(l, x)'
  BY <1>1 DEF ConfirmPhase, ConfirmLabels
<1> QED
  BY <1>2, <1>3 DEF PhaseOf

LEMMA OwnedKept ==
    ASSUME fs'.txn \in {fs.txn, NoTxn}, NEW v
    PROVE  Owned(v) => Owned(v)'
BY DEF Owned

LEMMA RecoverOn ==
    ASSUME TypeInv, NEW p \in Procs, Placed(p), pc[p] \in RecoverLabels,
           NEW l \in RecoverLabels, NEW x, Went(p, l, x), x.ret = loc[p].ret,
           RecoverPhase(l, x)', fs'.txn \in {fs.txn, NoTxn}
    PROVE  Arrives(p)
<1>1. PhaseOf(l, x)' /\ l # "o_recovered"
  BY RecoverOnly DEF RecoverLabels
<1>2. p = "upg" => UpgPlace(l, x) /\ (Owned(x.ver) => Owned(x.ver)')
  BY OwnedKept DEF Placed, UpgPlace
<1> QED
  BY <1>1, <1>2 DEF Arrives, Reaches

LEMMA RecoverReturned ==
    ASSUME TypeInv, NEW p \in Procs, Placed(p), pc[p] \in RecoverLabels,
           NEW l \in RecoverReturns, NEW x, Went(p, l, x),
           l = loc[p].ret \/ l = RecoverFailed(loc[p].ret),
           l = "o_recovered" => fs'.txn = NoTxn, fs'.txn \in {fs.txn, NoTxn}
    PROVE  Arrives(p)
<1>1. PhaseOf(l, x)'
  BY Quiet DEF QuietLabels
<1>2. ASSUME p = "upg" PROVE UpgPlace(l, x) /\ (Owned(x.ver) => Owned(x.ver)')
  <2>1. loc[p].ret = "i_fail"
    BY <1>2 DEF Placed, UpgPlace
  <2>2. l = "i_fail" /\ l \notin RecoverLabels
    BY <2>1 DEF RecoverFailed, RecoverLabels
  <2> QED
    BY <2>2, OwnedKept DEF UpgPlace
<1> QED
  BY <1>1, <1>2 DEF Arrives, Reaches

LEMMA FailsArrive ==
    ASSUME TypeInv, Disk, NEW p \in Procs, Placed(p), pc[p] \in RecoverLabels, FailsTo(p)
    PROVE  Disk' /\ Arrives(p)
<1>1. PICK l \in RecoverReturns : \E x : Went(p, l, x) /\ l = RecoverFailed(loc[p].ret)
  BY DEF FailsTo
<1>2. PICK x : Went(p, l, x)
  BY <1>1
<1>3. l # "o_recovered" /\ fs'.txn = fs.txn /\ Same
  BY <1>1 DEF RecoverFailed, FailsTo, Same
<1> QED
  BY <1>1, <1>2, <1>3, RecoverReturned, SameDisk

-----------------------------------------------------------------------------
(* The steps of a recovery keep the disk.                                  *)

LEMMA RecoverLoadKeeps ==
    ASSUME TypeInv, Disk, NEW p \in Procs, Placed(p), Phase(p), RecoverLoad(p)
    PROVE  Disk' /\ Arrives(p)
<1>0. pc[p] \in RecoverLabels /\ {"r_floor", "r_read"} \subseteq RecoverLabels
  BY DEF RecoverLoad, RecoverLabels
<1>1. Disk' /\ Same /\ fs'.txn = fs.txn
  BY RecoverLoadStep, SameDisk DEF Same
<1>2. CASE FailsTo(p)
  BY <1>0, <1>2, FailsArrive
<1>3. CASE fs.txn = NoTxn /\ \E l \in RecoverReturns : l = loc[p].ret /\ \E x : Went(p, l, x)
  BY <1>0, <1>1, <1>3, RecoverReturned
<1>4. ASSUME fs.txn # NoTxn, NEW l \in {"r_floor", "r_read"},
             l = "r_floor" <=> fs.txn.state = "confirmed",
             Went(p, l, [loc[p] EXCEPT !.txn = fs.txn])
      PROVE  Arrives(p)
  <2>1. PICK x : x = [loc[p] EXCEPT !.txn = fs.txn]
    OBVIOUS
  <2>2. x.txn = fs.txn /\ x.ret = loc[p].ret
    BY <2>1 DEF TypeInv, Shape, Typed, Locals
  <2>3. fs.txn.state \in TransactionState
    BY <1>4, FactsOfDisk, TxnTypes
  <2>4. RecoverPhase(l, x)'
    BY <1>1, <1>4, <2>2, <2>3 DEF RecoverPhase, Rolling, Unconfirmed, TransactionState
  <2> QED
    BY <1>0, <1>1, <1>4, <2>1, <2>2, <2>4, RecoverOn
<1> QED
  BY <1>1, <1>2, <1>3, <1>4, RecoverLoadStep

LEMMA RecoverFloorKeeps ==
    ASSUME TypeInv, Disk, NEW p \in Procs, Placed(p), Phase(p), RecoverFloor(p)
    PROVE  Disk' /\ Arrives(p)
<1>0. /\ pc[p] = "r_floor" /\ pc[p] \in RecoverLabels
      /\ {"r_rmtxn", "r_floorsync"} \subseteq RecoverLabels
      /\ loc[p].txn.version \in MaybeVersion
  BY LoadedTypes DEF RecoverFloor, RecoverLabels
<1>1. PICK x : x = loc[p]
  OBVIOUS
<1>2. fs.txn.state = "confirmed" /\ x.txn = fs.txn /\ fs.txn.state \notin Unconfirmed
  BY <1>0, <1>1 DEF Phase, PhaseOf, RecoverPhase, Unconfirmed
<1>3. fs.txn # NoTxn
  BY <1>2 DEF NoTxn
<1>4. CASE FailsTo(p)
  BY <1>0, <1>4, FailsArrive
<1>5. CASE Same /\ Goes(p, "r_rmtxn")
  <2>1. Disk' /\ fs'.txn = fs.txn
    BY <1>5, SameDisk DEF Same
  <2>2. RecoverPhase("r_rmtxn", x)'
    BY <1>2, <1>3, <2>1 DEF RecoverPhase, Rolling
  <2> QED
    BY <1>0, <1>1, <1>5, <2>1, <2>2, RecoverOn DEF Goes
<1>6. CASE PutFloor(loc[p].txn.version) /\ Goes(p, "r_floorsync")
  <2>1. Disk' /\ fs'.txn = fs.txn
    BY <1>0, <1>6, PutFloorKeepsDisk, PutFloorStore DEF TypeInv
  <2>2. RecoverPhase("r_floorsync", x)'
    BY <1>2, <2>1 DEF RecoverPhase, Rolling
  <2> QED
    BY <1>0, <1>1, <1>6, <2>1, <2>2, RecoverOn DEF Goes
<1> QED
  BY <1>4, <1>5, <1>6, RecoverFloorStep

LEMMA RecoverFloorSyncKeeps ==
    ASSUME TypeInv, Disk, NEW p \in Procs, Placed(p), Phase(p), RecoverFloorSync(p)
    PROVE  Disk' /\ Arrives(p)
<1>0. /\ pc[p] = "r_floorsync" /\ pc[p] \in RecoverLabels /\ "r_rmtxn" \in RecoverLabels
  BY DEF RecoverFloorSync, RecoverLabels
<1>1. PICK x : x = loc[p]
  OBVIOUS
<1>2. fs.txn.state = "confirmed" /\ x.txn = fs.txn /\ fs.txn.state \notin Unconfirmed
  BY <1>0, <1>1 DEF Phase, PhaseOf, RecoverPhase, Unconfirmed
<1>3. fs.txn # NoTxn
  BY <1>2 DEF NoTxn
<1>4. CASE FailsTo(p)
  BY <1>0, <1>4, FailsArrive
<1>5. CASE SyncData /\ Goes(p, "r_rmtxn")
  <2>1. Disk' /\ fs'.txn = fs.txn
    BY <1>5, SyncsKeepDisk, SyncDataStore DEF TypeInv
  <2>2. RecoverPhase("r_rmtxn", x)'
    BY <1>2, <1>3, <2>1 DEF RecoverPhase, Rolling
  <2> QED
    BY <1>0, <1>1, <1>5, <2>1, <2>2, RecoverOn DEF Goes
<1> QED
  BY <1>4, <1>5, RecoverFloorSyncStep

(* What holds of a rollback in the middle.                                 *)
LEMMA RollingFacts ==
    ASSUME TypeInv, Disk, NEW p \in Procs, Phase(p), pc[p] \in Rolling
    PROVE  /\ pc[p] \in RecoverLabels /\ pc[p] # "r_load"
           /\ fs.txn.state \in Unconfirmed /\ loc[p].txn = fs.txn
           /\ RecoverPhase(pc[p], loc[p])
BY DEF Phase, PhaseOf, RecoverPhase, Rolling, RecoverLabels

LEMMA RollbackReadKeeps ==
    ASSUME TypeInv, Disk, NEW p \in Procs, Placed(p), Phase(p), RollbackRead(p)
    PROVE  Disk' /\ Arrives(p)
<1>0. pc[p] \in Rolling /\ "r_link" \in RecoverLabels
  BY DEF RollbackRead, Rolling, RecoverLabels
<1>1. Disk' /\ Same
  BY RollbackReadStep, SameDisk
<1>2. PICK x : x = [loc[p] EXCEPT !.act = fs.current]
  OBVIOUS
<1>3. x.txn = loc[p].txn /\ x.ret = loc[p].ret /\ x.act = fs.current
  BY <1>2 DEF TypeInv, Shape, Typed, Locals
<1>4. RecoverPhase("r_link", x)'
  BY <1>0, <1>1, <1>3, RollingFacts, FactsOfDisk DEF RecoverPhase, Rolling, Same
<1>5. fs'.txn = fs.txn
  BY <1>1 DEF Same
<1> QED
  BY <1>0, <1>1, <1>2, <1>3, <1>4, <1>5, RollingFacts, RollbackReadStep, RecoverOn

LEMMA RollbackLinkKeeps ==
    ASSUME TypeInv, Disk, NEW p \in Procs, Placed(p), Phase(p), RollbackLink(p)
    PROVE  Disk' /\ Arrives(p)
<1>0. pc[p] = "r_link" /\ pc[p] \in Rolling /\ "r_rmact" \in RecoverLabels
  BY DEF RollbackLink, Rolling, RecoverLabels
<1>1. CASE FailsTo(p)
  BY <1>0, <1>1, RollingFacts, FailsArrive
<1>2. CASE PutCurrent(loc[p].txn.prev) /\ Goes(p, "r_rmact")
  <2>0. PICK x : x = loc[p]
    OBVIOUS
  <2>1. x.txn = fs.txn /\ fs.txn.state \in Unconfirmed /\ x.act \in may.current
    BY <1>0, <2>0, RollingFacts DEF RecoverPhase
  <2>2. PutCurrent(fs.txn.prev) /\ fs.txn.prev \in MaybeVersion
    BY <1>2, <2>0, <2>1, CandidateFacts
  <2>3. /\ fs'.txn = fs.txn /\ fs'.current = fs.txn.prev
        /\ may'.current = may.current \cup {fs.txn.prev}
    BY <2>2, PutCurrentStore DEF TypeInv
  <2>4. Disk'
    BY <2>1, <2>2, RelinkKeepsDisk
  <2>5. RecoverPhase("r_rmact", x)'
    BY <2>1, <2>3 DEF RecoverPhase, Rolling
  <2> QED
    BY <1>0, <1>2, <2>0, <2>3, <2>4, <2>5, RollingFacts, RecoverOn DEF Goes
<1> QED
  BY <1>1, <1>2, RollbackLinkStep

(* Removing the version in transit, wherever the rollback does it.         *)
LEMMA RemovesKeepsDisk ==
    ASSUME TypeInv, Disk, NEW p \in Procs, NEW v \in Versions, NEW l,
           fs.txn.state \in Unconfirmed, v = fs.txn.version, Removes(p, v, l)
    PROVE  /\ Disk'
           /\ fs'.txn = fs.txn /\ fs'.current = fs.current /\ may'.current = may.current
           /\ \/ Goes(p, pc[p])
              \/ Goes(p, l) /\ fs'.rel[v] = "absent"
<1>0. {"partial", "absent"} \subseteq ReleaseState /\ fs.rel[v] \in may.rel[v]
  BY FactsOfDisk DEF ReleaseState
<1>1. \A s \in ReleaseState :
        PutRelease(v, s) => /\ fs'.txn = fs.txn /\ fs'.current = fs.current
                            /\ may'.current = may.current
                            /\ fs'.rel[v] = s
  <2>1. ASSUME NEW s \in ReleaseState, PutRelease(v, s)
        PROVE  /\ fs'.txn = fs.txn /\ fs'.current = fs.current /\ may'.current = may.current
               /\ fs'.rel = [fs.rel EXCEPT ![v] = s]
    BY <2>1, PutReleaseStore DEF TypeInv
  <2>2. DOMAIN fs.rel = Versions
    BY FactsOfDisk
  <2> QED
    BY <2>1, <2>2
<1>2. CASE Same /\ fs.rel[v] = "absent" /\ Goes(p, l)
  BY <1>2, SameDisk DEF Same
<1>3. CASE PutRelease(v, "absent") /\ Goes(p, l)
  <2>1. CASE Moving
    BY <1>0, <1>1, <1>3, <2>1, ReleaseKeepsDisk
  <2>2. CASE may.rel[v] = {"absent"}
    BY <1>0, <1>1, <1>3, <2>2, RemoveAbsentKeepsDisk
  <2> QED
    BY <2>1, <2>2, CandidateFacts
<1>4. CASE fs.rel[v] = "complete" /\ PutRelease(v, "partial") /\ Goes(p, pc[p])
  <2>1. Moving
    BY <1>0, <1>4, CandidateFacts
  <2> QED
    BY <1>0, <1>1, <1>4, <2>1, ReleaseKeepsDisk
<1> QED
  BY <1>2, <1>3, <1>4 DEF Removes

LEMMA RollbackRemoveKeeps ==
    ASSUME TypeInv, Disk, NEW p \in Procs, Placed(p), Phase(p), RollbackRemove(p)
    PROVE  Disk' /\ Arrives(p)
<1>0. /\ pc[p] = "r_rmact" /\ pc[p] \in Rolling
      /\ {"r_rmact", "r_syncroot"} \subseteq RecoverLabels
  BY DEF RollbackRemove, Rolling, RecoverLabels
<1>1. PICK x : x = loc[p]
  OBVIOUS
<1>2. /\ x.txn = fs.txn /\ fs.txn.state \in Unconfirmed /\ x.act \in may.current
      /\ fs.current = x.txn.prev
  BY <1>0, <1>1, RollingFacts DEF RecoverPhase, Rolling
<1>3. CASE FailsTo(p)
  BY <1>0, <1>3, RollingFacts, FailsArrive
<1>4. CASE Same /\ Goes(p, "r_syncroot")
  <2>1. Disk' /\ fs'.txn = fs.txn /\ fs'.current = fs.current
    BY <1>4, SameDisk DEF Same
  <2>2. RecoverPhase("r_syncroot", x)'
    BY <1>2, <2>1 DEF RecoverPhase, Rolling
  <2> QED
    BY <1>0, <1>1, <1>4, <2>1, <2>2, RollingFacts, RecoverOn DEF Goes
<1>5. CASE /\ loc[p].act \in Versions /\ loc[p].act # loc[p].txn.prev
           /\ Removes(p, loc[p].act, "r_syncroot")
  <2>1. x.act = fs.txn.version /\ x.act \in Versions
    BY <1>1, <1>2, <1>5, CandidateFacts DEF Moving
  <2>2. /\ Disk' /\ fs'.txn = fs.txn /\ fs'.current = fs.current /\ may'.current = may.current
        /\ Goes(p, pc[p]) \/ Goes(p, "r_syncroot")
    BY <1>1, <1>2, <1>5, <2>1, RemovesKeepsDisk
  <2>3. RecoverPhase("r_syncroot", x)' /\ RecoverPhase("r_rmact", x)'
    BY <1>2, <2>2 DEF RecoverPhase, Rolling
  <2> QED
    BY <1>0, <1>1, <2>2, <2>3, RollingFacts, RecoverOn DEF Goes
<1> QED
  BY <1>3, <1>4, <1>5, RollbackRemoveStep

LEMMA RollbackSyncRootKeeps ==
    ASSUME TypeInv, Disk, NEW p \in Procs, Placed(p), Phase(p), RollbackSyncRoot(p)
    PROVE  Disk' /\ Arrives(p)
<1>0. pc[p] = "r_syncroot" /\ pc[p] \in Rolling /\ "r_syncrel" \in RecoverLabels
  BY DEF RollbackSyncRoot, Rolling, RecoverLabels
<1>1. PICK x : x = loc[p]
  OBVIOUS
<1>2. x.txn = fs.txn /\ fs.txn.state \in Unconfirmed /\ fs.current = x.txn.prev
  BY <1>0, <1>1, RollingFacts DEF RecoverPhase, Rolling
<1>3. CASE FailsTo(p)
  BY <1>0, <1>3, RollingFacts, FailsArrive
<1>4. CASE SyncRoot /\ Goes(p, "r_syncrel")
  <2>1. Disk' /\ fs' = fs /\ may'.current = {fs.current}
    BY <1>4, SyncsKeepDisk, SyncRootStore DEF TypeInv
  <2>2. RecoverPhase("r_syncrel", x)'
    BY <1>2, <2>1 DEF RecoverPhase, Rolling
  <2> QED
    BY <1>0, <1>1, <1>4, <2>1, <2>2, RollingFacts, RecoverOn DEF Goes
<1> QED
  BY <1>3, <1>4, RollbackSyncRootStep

LEMMA RollbackSyncReleasesKeeps ==
    ASSUME TypeInv, Disk, NEW p \in Procs, Placed(p), Phase(p), RollbackSyncReleases(p)
    PROVE  Disk' /\ Arrives(p)
<1>0. pc[p] = "r_syncrel" /\ pc[p] \in Rolling /\ "r_rmcand" \in RecoverLabels
  BY DEF RollbackSyncReleases, Rolling, RecoverLabels
<1>1. PICK x : x = loc[p]
  OBVIOUS
<1>2. /\ x.txn = fs.txn /\ fs.txn.state \in Unconfirmed /\ fs.current = x.txn.prev
      /\ may.current = {x.txn.prev}
  BY <1>0, <1>1, RollingFacts DEF RecoverPhase, Rolling
<1>3. CASE FailsTo(p)
  BY <1>0, <1>3, RollingFacts, FailsArrive
<1>4. CASE SyncReleases /\ Goes(p, "r_rmcand")
  <2>1. Disk' /\ fs' = fs /\ may'.current = may.current
    BY <1>4, SyncsKeepDisk, SyncReleasesStore DEF TypeInv
  <2>2. RecoverPhase("r_rmcand", x)'
    BY <1>2, <2>1 DEF RecoverPhase, Rolling
  <2> QED
    BY <1>0, <1>1, <1>4, <2>1, <2>2, RollingFacts, RecoverOn DEF Goes
<1> QED
  BY <1>3, <1>4, RollbackSyncReleasesStep

LEMMA RecoverRemoveCandidateKeeps ==
    ASSUME TypeInv, Disk, NEW p \in Procs, Placed(p), Phase(p), RecoverRemoveCandidate(p)
    PROVE  Disk' /\ Arrives(p)
<1>0. /\ pc[p] = "r_rmcand" /\ pc[p] \in Rolling
      /\ {"r_rmcand", "r_synccand"} \subseteq RecoverLabels
  BY DEF RecoverRemoveCandidate, Rolling, RecoverLabels
<1>1. PICK x : x = loc[p]
  OBVIOUS
<1>2. /\ x.txn = fs.txn /\ fs.txn.state \in Unconfirmed /\ fs.current = x.txn.prev
      /\ may.current = {x.txn.prev} /\ fs.txn.version \in Versions
  BY <1>0, <1>1, RollingFacts, CandidateFacts DEF RecoverPhase, Rolling
<1>3. CASE FailsTo(p)
  BY <1>0, <1>3, RollingFacts, FailsArrive
<1>4. CASE Removes(p, loc[p].txn.version, "r_synccand")
  <2>1. /\ Disk' /\ fs'.txn = fs.txn /\ fs'.current = fs.current /\ may'.current = may.current
        /\ \/ Goes(p, pc[p])
           \/ Goes(p, "r_synccand") /\ fs'.rel[fs.txn.version] = "absent"
    BY <1>1, <1>2, <1>4, RemovesKeepsDisk
  <2>2. CASE Goes(p, pc[p])
    <3>1. RecoverPhase("r_rmcand", x)'
      BY <1>2, <2>1 DEF RecoverPhase, Rolling
    <3> QED
      BY <1>0, <1>1, <2>1, <2>2, <3>1, RollingFacts, RecoverOn DEF Goes
  <2>3. CASE Goes(p, "r_synccand") /\ fs'.rel[fs.txn.version] = "absent"
    <3>1. RecoverPhase("r_synccand", x)'
      BY <1>2, <2>1, <2>3 DEF RecoverPhase, Rolling
    <3> QED
      BY <1>0, <1>1, <2>1, <2>3, <3>1, RollingFacts, RecoverOn DEF Goes
  <2> QED
    BY <2>1, <2>2, <2>3
<1> QED
  BY <1>3, <1>4, RecoverRemoveCandidateStep

LEMMA RecoverSyncCandidateKeeps ==
    ASSUME TypeInv, Disk, NEW p \in Procs, Placed(p), Phase(p), RecoverSyncCandidate(p)
    PROVE  Disk' /\ Arrives(p)
<1>0. pc[p] = "r_synccand" /\ pc[p] \in Rolling /\ "r_rmtxn" \in RecoverLabels
  BY DEF RecoverSyncCandidate, Rolling, RecoverLabels
<1>1. PICK x : x = loc[p]
  OBVIOUS
<1>2. /\ x.txn = fs.txn /\ fs.txn.state \in Unconfirmed /\ fs.current = x.txn.prev
      /\ may.current = {x.txn.prev} /\ fs.txn.version \in Versions
      /\ fs.rel[x.txn.version] = "absent" /\ fs.txn # NoTxn
  BY <1>0, <1>1, RollingFacts, CandidateFacts DEF RecoverPhase, Rolling
<1>3. CASE FailsTo(p)
  BY <1>0, <1>3, RollingFacts, FailsArrive
<1>4. CASE SyncReleases /\ Goes(p, "r_rmtxn")
  <2>1. /\ Disk' /\ fs' = fs /\ may'.current = may.current
        /\ may'.rel = [r \in Versions |-> {fs.rel[r]}]
    BY <1>4, SyncsKeepDisk, SyncReleasesStore DEF TypeInv
  <2>2. may'.rel[x.txn.version] = {"absent"}
    BY <1>2, <2>1
  <2>3. RecoverPhase("r_rmtxn", x)'
    BY <1>2, <2>1, <2>2 DEF RecoverPhase, Rolling
  <2> QED
    BY <1>0, <1>1, <1>4, <2>1, <2>3, RollingFacts, RecoverOn DEF Goes
<1> QED
  BY <1>3, <1>4, RecoverSyncCandidateStep

LEMMA RecoverRemoveTxnKeeps ==
    ASSUME TypeInv, Disk, NEW p \in Procs, Placed(p), Phase(p), RecoverRemoveTxn(p)
    PROVE  Disk' /\ Arrives(p)
<1>0. pc[p] = "r_rmtxn" /\ {"r_rmtxn", "r_syncrun"} \subseteq RecoverLabels
  BY DEF RecoverRemoveTxn, RecoverLabels
<1>1. PICK x : x = loc[p]
  OBVIOUS
<1>2. /\ x.txn = fs.txn /\ fs.txn # NoTxn
      /\ fs.txn.state \in Unconfirmed => /\ may.current = {fs.txn.prev}
                                         /\ may.rel[fs.txn.version] = {"absent"}
  BY <1>0, <1>1 DEF Phase, PhaseOf, RecoverPhase
<1>3. CASE FailsTo(p)
  BY <1>0, <1>3, FailsArrive
<1>4. CASE PutTxn(NoTxn) /\ Goes(p, "r_syncrun")
  <2>1. Disk' /\ fs'.txn = NoTxn
    BY <1>2, <1>4, RemoveTxnKeepsDisk, PutTxnStore, TxnTypes DEF TypeInv
  <2>2. RecoverPhase("r_syncrun", x)'
    BY <2>1 DEF RecoverPhase, Rolling
  <2> QED
    BY <1>0, <1>1, <1>4, <2>1, <2>2, RecoverOn DEF Goes
<1> QED
  BY <1>3, <1>4, RecoverRemoveTxnStep

LEMMA RecoverSyncRunKeeps ==
    ASSUME TypeInv, Disk, NEW p \in Procs, Placed(p), Phase(p), RecoverSyncRun(p)
    PROVE  Disk' /\ Arrives(p)
<1>0. pc[p] = "r_syncrun" /\ "r_syncrun" \in RecoverLabels
  BY DEF RecoverSyncRun, RecoverLabels
<1>1. fs.txn = NoTxn
  BY <1>0 DEF Phase, PhaseOf, RecoverPhase
<1>2. CASE FailsTo(p)
  BY <1>0, <1>2, FailsArrive
<1>3. CASE SyncRun /\ \E l \in RecoverReturns : l = loc[p].ret /\ \E x : Went(p, l, x)
  <2>1. Disk' /\ fs' = fs
    BY <1>3, SyncsKeepDisk, SyncRunStore DEF TypeInv
  <2> QED
    BY <1>0, <1>1, <1>3, <2>1, RecoverReturned
<1> QED
  BY <1>2, <1>3, RecoverSyncRunStep

LEMMA RecoverKeeps ==
    ASSUME TypeInv, Disk, NEW p \in Procs, Placed(p), Phase(p), Recover(p)
    PROVE  Disk' /\ Arrives(p)
BY RecoverLoadKeeps, RecoverFloorKeeps, RecoverFloorSyncKeeps, RollbackReadKeeps,
   RollbackLinkKeeps, RollbackRemoveKeeps, RollbackSyncRootKeeps, RollbackSyncReleasesKeeps,
   RecoverRemoveCandidateKeeps, RecoverSyncCandidateKeeps, RecoverRemoveTxnKeeps,
   RecoverSyncRunKeeps
   DEF Recover

-----------------------------------------------------------------------------
(* The steps of an install keep the disk.                                  *)

LEMMA InstallOn ==
    ASSUME TypeInv, NEW p \in Procs, Placed(p), pc[p] \in InstallLabels,
           NEW l \in InstallLabels \cup {"i_ok"}, NEW x, Went(p, l, x),
           InstallPhase(l, x)', Owned(x.ver) => Owned(x.ver)'
    PROVE  Arrives(p)
<1>1. /\ l \notin RecoverLabels /\ l \notin ConfirmLabels /\ l \notin Rolling
      /\ l \notin {"c_ok", "o_health", "o_reexec", "o_runtime", "o_recovered",
                   "r_floor", "r_floorsync", "r_rmtxn", "r_syncrun"}
      /\ l \in InstallLabels \cup ReturnLabels
  BY DEF RecoverLabels, InstallLabels, ConfirmLabels, Rolling, ReturnLabels
<1>2. RecoverPhase(l, x)'
  BY <1>1 DEF RecoverPhase, Rolling
<1>3. ConfirmPhase(l, x)'
  BY <1>1 DEF ConfirmPhase, ConfirmLabels
<1>4. PhaseOf(l, x)' /\ UpgPlace(l, x)
  BY <1>1, <1>2, <1>3 DEF PhaseOf, UpgPlace
<1> QED
  BY <1>1, <1>4 DEF Arrives, Reaches

(* An install that fails: at once, or after the recovery it calls.         *)
LEMMA InstallFailed ==
    ASSUME TypeInv, Disk, NEW p \in Procs,
           Same, Goes(p, "i_fail") \/ CallsTo(p, "i_fail")
    PROVE  Disk' /\ Arrives(p)
<1>1. Disk' /\ {"i_fail", "r_load"} \subseteq QuietLabels /\ fs'.txn = fs.txn
  BY SameDisk DEF QuietLabels, RecoverReturns, Same
<1>2. "r_load" \in RecoverLabels /\ "i_fail" \notin RecoverLabels /\ "i_fail" \in ReturnLabels
  BY DEF RecoverLabels, ReturnLabels
<1>3. CASE Goes(p, "i_fail")
  <2>1. PICK x : x = loc[p]
    OBVIOUS
  <2>2. UpgPlace("i_fail", x) /\ (Owned(x.ver) => Owned(x.ver)') /\ PhaseOf("i_fail", x)'
    BY <1>1, <1>2, Quiet, OwnedKept DEF UpgPlace
  <2> QED
    BY <1>1, <1>2, <1>3, <2>1, <2>2 DEF Arrives, Reaches, Goes
<1>4. CASE CallsTo(p, "i_fail")
  <2>1. PICK x : Went(p, "r_load", x) /\ x.ret = "i_fail"
    BY <1>4 DEF CallsTo
  <2>2. UpgPlace("r_load", x) /\ (Owned(x.ver) => Owned(x.ver)') /\ PhaseOf("r_load", x)'
    BY <1>1, <1>2, <2>1, Quiet, OwnedKept DEF UpgPlace
  <2> QED
    BY <1>1, <1>2, <2>1, <2>2 DEF Arrives, Reaches
<1> QED
  BY <1>3, <1>4

LEMMA InstallCheckKeeps ==
    ASSUME TypeInv, Disk, NEW p \in Procs, Placed(p), Phase(p), InstallCheck(p)
    PROVE  Disk' /\ Arrives(p)
<1>0. pc[p] = "i_check" /\ {"i_check", "i_prep"} \subseteq InstallLabels
  BY DEF InstallCheck, InstallLabels
<1>1. Same /\ Disk' /\ fs' = fs
  BY InstallCheckStep, SameDisk DEF Same
<1>2. CASE Goes(p, "i_fail")
  BY <1>1, <1>2, InstallFailed
<1>3. CASE /\ CheckAntiRollback(loc[p].ver) /\ loc[p].ver \in Versions
           /\ fs.rel[loc[p].ver] = "absent"
           /\ Went(p, "i_prep", [loc[p] EXCEPT !.prev = fs.current])
  <2>1. PICK x : x = [loc[p] EXCEPT !.prev = fs.current]
    OBVIOUS
  <2>2. x.ver = loc[p].ver /\ x.prev = fs.current
    BY <2>1 DEF TypeInv, Shape, Typed, Locals
  <2>3. Owned(x.ver)
    BY <1>0, <2>2 DEF Phase, PhaseOf, InstallPhase
  <2>4. x.prev < x.ver /\ x.ver > fs.floor
    BY <1>3, <2>2, FactsOfDisk, VersionTypes DEF CheckAntiRollback
  <2>5. ASSUME fs.txn # NoTxn PROVE fs.txn.prev = x.prev
    <3>1. fs.txn.state \in Unconfirmed /\ fs.txn.version = x.ver
      BY <2>3, <2>5 DEF Owned
    <3>2. fs.current \in may.current /\ fs.current # fs.txn.version
      BY <2>2, <2>4, <3>1, FactsOfDisk, VersionTypes
    <3> QED
      BY <2>2, <3>1, <3>2, CandidateFacts DEF Moving
  <2>6. InstallPhase("i_prep", x)'
    BY <1>1, <1>3, <2>2, <2>3, <2>4, <2>5 DEF InstallPhase, Owned
  <2>7. Owned(x.ver) => Owned(x.ver)'
    BY <1>1, OwnedKept
  <2> QED
    BY <1>0, <1>1, <1>3, <2>1, <2>6, <2>7, InstallOn
<1> QED
  BY <1>2, <1>3, InstallCheckStep

LEMMA InstallPrepareKeeps ==
    ASSUME TypeInv, Disk, NEW p \in Procs, Placed(p), Phase(p), InstallPrepare(p)
    PROVE  Disk' /\ Arrives(p)
<1>0. pc[p] = "i_prep" /\ {"i_prep", "i_prepsync"} \subseteq InstallLabels
  BY DEF InstallPrepare, InstallLabels
<1>1. CASE Same /\ Goes(p, "i_fail")
  BY <1>1, InstallFailed
<1>2. CASE PutTxn(Txn("prepared", loc[p].ver, loc[p].prev)) /\ Goes(p, "i_prepsync")
  <2>1. PICK x : x = loc[p]
    OBVIOUS
  <2>2. /\ x.ver \in Versions /\ x.prev \in MaybeVersion
        /\ Txn("prepared", x.ver, x.prev) \in Txns
    BY <1>0, <2>1, InstallTypes
  <2>3. /\ x.ver > fs.floor /\ x.prev < x.ver /\ fs.rel[x.ver] = "absent" /\ fs.current = x.prev
        /\ Owned(x.ver) /\ (fs.txn # NoTxn => fs.txn.prev = x.prev)
    BY <1>0, <2>1 DEF Phase, PhaseOf, InstallPhase, InstallLabels
  <2>4. PutTxn(Txn("prepared", x.ver, x.prev))
    BY <1>2, <2>1
  <2>5. Disk'
    BY <2>2, <2>3, <2>4, PrepareKeepsDisk DEF Owned
  <2>6. /\ fs'.txn = Txn("prepared", x.ver, x.prev) /\ fs'.floor = fs.floor
        /\ fs'.current = fs.current /\ fs'.rel = fs.rel
    BY <2>2, <2>4, PutTxnStore DEF TypeInv
  <2>7. InstallPhase("i_prepsync", x)'
    BY <2>2, <2>3, <2>6 DEF InstallPhase
  <2>8. Owned(x.ver)'
    BY <2>6 DEF Owned, Txn, Unconfirmed
  <2> QED
    BY <1>0, <1>2, <2>1, <2>5, <2>7, <2>8, InstallOn DEF Goes
<1> QED
  BY <1>1, <1>2, InstallPrepareStep

(* What an install that has published its transaction relies on.           *)
LEMMA PreparedFacts ==
    ASSUME TypeInv, NEW p \in Procs, Phase(p),
           pc[p] \in {"i_prepsync", "i_mkdir", "i_copy", "i_link", "i_sync", "i_verify", "i_act"}
    PROVE  /\ pc[p] \in InstallLabels /\ InstallPhase(pc[p], loc[p])
           /\ loc[p].ver \in Versions /\ loc[p].prev \in MaybeVersion
           /\ loc[p].ver > fs.floor /\ loc[p].prev < loc[p].ver
           /\ fs.txn = Txn("prepared", loc[p].ver, loc[p].prev)
           /\ fs.txn.state \in Unconfirmed /\ fs.txn.version = loc[p].ver
           /\ fs.txn.prev = loc[p].prev
<1>1. pc[p] \in InstallLabels \ {"i_check"}
  BY DEF InstallLabels
<1>2. InstallPhase(pc[p], loc[p])
  BY DEF Phase, PhaseOf
<1>3. /\ loc[p].ver > fs.floor /\ loc[p].prev < loc[p].ver
      /\ fs.txn = Txn("prepared", loc[p].ver, loc[p].prev)
  BY <1>1, <1>2 DEF InstallPhase
<1>4. loc[p].ver \in Versions /\ loc[p].prev \in MaybeVersion
  BY <1>1, InstallTypes
<1>5. /\ fs.txn.state \in Unconfirmed /\ fs.txn.version = loc[p].ver
      /\ fs.txn.prev = loc[p].prev
  BY <1>3 DEF Txn, Unconfirmed
<1> QED
  BY <1>1, <1>2, <1>3, <1>4, <1>5

LEMMA InstallPrepareSyncKeeps ==
    ASSUME TypeInv, Disk, NEW p \in Procs, Placed(p), Phase(p), InstallPrepareSync(p)
    PROVE  Disk' /\ Arrives(p)
<1>0. pc[p] = "i_prepsync" /\ "i_mkdir" \in InstallLabels
  BY DEF InstallPrepareSync, InstallLabels
<1>1. CASE Same /\ Goes(p, "i_fail")
  BY <1>1, InstallFailed
<1>2. CASE SyncRun /\ Goes(p, "i_mkdir")
  <2>1. PICK x : x = loc[p]
    OBVIOUS
  <2>2. Disk' /\ fs' = fs /\ may'.txn = {fs.txn}
    BY <1>2, SyncsKeepDisk, SyncRunStore DEF TypeInv
  <2>3. fs.rel[x.ver] = "absent" /\ fs.current = x.prev
    BY <1>0, <2>1, PreparedFacts DEF InstallPhase
  <2>4. InstallPhase("i_mkdir", x)'
    BY <1>0, <2>1, <2>2, <2>3, PreparedFacts DEF InstallPhase
  <2> QED
    BY <1>0, <1>2, <2>1, <2>2, <2>4, PreparedFacts, OwnedKept, InstallOn DEF Goes
<1> QED
  BY <1>1, <1>2, InstallPrepareSyncStep

LEMMA InstallMkdirKeeps ==
    ASSUME TypeInv, Disk, NEW p \in Procs, Placed(p), Phase(p), InstallMkdir(p)
    PROVE  Disk' /\ Arrives(p)
<1>0. pc[p] = "i_mkdir" /\ "i_copy" \in InstallLabels /\ "partial" \in ReleaseState
  BY DEF InstallMkdir, InstallLabels, ReleaseState
<1>1. PICK x : x = loc[p]
  OBVIOUS
<1>2. PutRelease(x.ver, "partial") /\ Went(p, "i_copy", x)
  BY <1>1, InstallMkdirStep DEF Goes
<1>3. fs.current = x.prev /\ may.txn = {fs.txn}
  BY <1>0, <1>1, PreparedFacts DEF InstallPhase
<1>4. /\ fs'.txn = fs.txn /\ fs'.floor = fs.floor /\ fs'.current = fs.current
      /\ may'.txn = may.txn
  BY <1>0, <1>1, <1>2, PreparedFacts, PutReleaseStore DEF TypeInv
<1>5. Disk'
  BY <1>0, <1>1, <1>2, <1>3, PreparedFacts, CertainMoves, ReleaseKeepsDisk
<1>6. InstallPhase("i_copy", x)'
  BY <1>0, <1>1, <1>3, <1>4, PreparedFacts DEF InstallPhase
<1> QED
  BY <1>0, <1>1, <1>2, <1>4, <1>5, <1>6, PreparedFacts, OwnedKept, InstallOn

LEMMA InstallCopyKeeps ==
    ASSUME TypeInv, Disk, NEW p \in Procs, Placed(p), Phase(p), InstallCopy(p)
    PROVE  Disk' /\ Arrives(p)
<1>0. pc[p] = "i_copy" /\ "i_link" \in InstallLabels
  BY DEF InstallCopy, InstallLabels
<1>1. PICK x : x = loc[p]
  OBVIOUS
<1>2. /\ Went(p, "i_link", x)
      /\ fs'.txn = fs.txn /\ fs'.floor = fs.floor /\ fs'.current = fs.current
      /\ fs'.rel = [fs.rel EXCEPT ![x.ver] = "complete"]
      /\ may'.txn = {fs.txn} /\ may'.current = {fs.current}
      /\ may'.rel = [r \in Versions |-> {fs'.rel[r]}]
  BY <1>1, InstallCopyStep DEF Goes
<1>3. fs.current = x.prev /\ may.txn = {fs.txn}
  BY <1>0, <1>1, PreparedFacts DEF InstallPhase
<1>4. Disk'
  BY <1>0, <1>1, <1>2, <1>3, PreparedFacts, CertainMoves, CopyKeepsDisk
<1>5. may'.rel[x.ver] = {"complete"}
  BY <1>0, <1>1, <1>2, PreparedFacts, FactsOfDisk
<1>6. InstallPhase("i_link", x)'
  BY <1>0, <1>1, <1>2, <1>3, <1>5, PreparedFacts DEF InstallPhase
<1> QED
  BY <1>0, <1>1, <1>2, <1>4, <1>6, PreparedFacts, OwnedKept, InstallOn

LEMMA InstallLinkKeeps ==
    ASSUME TypeInv, Disk, NEW p \in Procs, Placed(p), Phase(p), InstallLink(p)
    PROVE  Disk' /\ Arrives(p)
<1>0. pc[p] = "i_link" /\ "i_sync" \in InstallLabels
  BY DEF InstallLink, InstallLabels
<1>1. PICK x : x = loc[p]
  OBVIOUS
<1>2. PutCurrent(x.ver) /\ Went(p, "i_sync", x)
  BY <1>1, InstallLinkStep DEF Goes
<1>3. may.txn = {fs.txn} /\ may.rel[x.ver] = {"complete"}
  BY <1>0, <1>1, PreparedFacts DEF InstallPhase
<1>4. /\ x.ver \in MaybeVersion /\ x.ver = fs.txn.version /\ fs.txn.state \in Unconfirmed
  BY <1>0, <1>1, PreparedFacts, VersionTypes
<1>5. /\ fs'.txn = fs.txn /\ fs'.floor = fs.floor /\ fs'.current = x.ver
      /\ may'.txn = may.txn /\ may'.rel = may.rel
  BY <1>2, <1>4, PutCurrentStore DEF TypeInv
<1>6. Disk'
  BY <1>2, <1>3, <1>4, CertainMoves, LinkKeepsDisk
<1>7. InstallPhase("i_sync", x)'
  BY <1>0, <1>1, <1>3, <1>5, PreparedFacts DEF InstallPhase
<1> QED
  BY <1>0, <1>1, <1>2, <1>5, <1>6, <1>7, PreparedFacts, OwnedKept, InstallOn

LEMMA InstallSyncKeeps ==
    ASSUME TypeInv, Disk, NEW p \in Procs, Placed(p), Phase(p), InstallSync(p)
    PROVE  Disk' /\ Arrives(p)
<1>0. pc[p] = "i_sync" /\ "i_verify" \in InstallLabels
  BY DEF InstallSync, InstallLabels
<1>1. PICK x : x = loc[p]
  OBVIOUS
<1>2. /\ Went(p, "i_verify", x) /\ fs' = fs
      /\ may'.txn = {fs.txn} /\ may'.current = {fs.current}
      /\ may'.rel = [r \in Versions |-> {fs.rel[r]}]
  BY <1>1, InstallSyncStep DEF Goes
<1>3. fs.current = x.ver /\ may.rel[x.ver] = {"complete"}
  BY <1>0, <1>1, PreparedFacts DEF InstallPhase
<1>4. Disk'
  BY <1>2, FactsOfDisk, DiskShrinks
<1>5. may'.rel[x.ver] = {"complete"}
  BY <1>0, <1>1, <1>2, <1>3, PreparedFacts, FactsOfDisk
<1>6. InstallPhase("i_verify", x)'
  BY <1>0, <1>1, <1>2, <1>3, <1>5, PreparedFacts DEF InstallPhase
<1> QED
  BY <1>0, <1>1, <1>2, <1>4, <1>6, PreparedFacts, OwnedKept, InstallOn

LEMMA InstallVerifyKeeps ==
    ASSUME TypeInv, Disk, NEW p \in Procs, Placed(p), Phase(p), InstallVerify(p)
    PROVE  Disk' /\ Arrives(p)
<1>0. pc[p] = "i_verify" /\ "i_act" \in InstallLabels
  BY DEF InstallVerify, InstallLabels
<1>1. CASE CallsTo(p, "i_fail")
  BY <1>1, InstallFailed DEF CallsTo
<1>2. CASE Same /\ Goes(p, "i_act")
  <2>1. PICK x : x = loc[p]
    OBVIOUS
  <2>2. Disk' /\ fs' = fs /\ may' = may
    BY <1>2, SameDisk DEF Same
  <2>3. may.txn = {fs.txn} /\ may.current = {x.ver} /\ may.rel[x.ver] = {"complete"}
    BY <1>0, <2>1, PreparedFacts DEF InstallPhase
  <2>4. InstallPhase("i_act", x)'
    BY <1>0, <2>1, <2>2, <2>3, PreparedFacts DEF InstallPhase
  <2> QED
    BY <1>0, <1>2, <2>1, <2>2, <2>4, PreparedFacts, OwnedKept, InstallOn DEF Goes
<1> QED
  BY <1>1, <1>2, InstallVerifyStep

LEMMA InstallActivateKeeps ==
    ASSUME TypeInv, Disk, NEW p \in Procs, Placed(p), Phase(p), InstallActivate(p)
    PROVE  Disk' /\ Arrives(p)
<1>0. pc[p] = "i_act" /\ "i_actsync" \in InstallLabels /\ pc[p] \in InstallLabels \ {"i_check"}
  BY DEF InstallActivate, InstallLabels
<1>1. CASE CallsTo(p, "i_fail")
  BY <1>1, InstallFailed DEF CallsTo
<1>2. CASE PutTxn(Txn("activated", loc[p].ver, loc[p].prev)) /\ Goes(p, "i_actsync")
  <2>1. PICK x : x = loc[p]
    OBVIOUS
  <2>2. PutTxn(Txn("activated", x.ver, x.prev)) /\ Txn("activated", x.ver, x.prev) \in Txns
    BY <1>0, <1>2, <2>1, InstallTypes
  <2>3. may.txn = {fs.txn} /\ may.current = {x.ver} /\ may.rel[x.ver] = {"complete"}
    BY <1>0, <2>1, PreparedFacts DEF InstallPhase
  <2>4. Disk'
    BY <1>0, <2>1, <2>2, <2>3, PreparedFacts, ActivateKeepsDisk
  <2>5. /\ fs'.txn = Txn("activated", x.ver, x.prev) /\ fs'.floor = fs.floor
        /\ may'.current = may.current /\ may'.rel = may.rel
    BY <2>2, PutTxnStore DEF TypeInv
  <2>6. InstallPhase("i_actsync", x)'
    BY <1>0, <2>1, <2>3, <2>5, PreparedFacts DEF InstallPhase
  <2>7. Owned(x.ver)'
    BY <2>5 DEF Owned, Txn, Unconfirmed
  <2> QED
    BY <1>0, <1>2, <2>1, <2>4, <2>6, <2>7, InstallOn DEF Goes
<1> QED
  BY <1>1, <1>2, InstallActivateStep

LEMMA InstallActivateSyncKeeps ==
    ASSUME TypeInv, Disk, NEW p \in Procs, Placed(p), Phase(p), InstallActivateSync(p)
    PROVE  Disk' /\ Arrives(p)
<1>0. pc[p] = "i_actsync" /\ pc[p] \in InstallLabels \ {"i_check"}
  BY DEF InstallActivateSync, InstallLabels
<1>1. CASE CallsTo(p, "i_fail")
  BY <1>1, InstallFailed DEF CallsTo
<1>2. CASE SyncRun /\ Goes(p, "i_ok")
  <2>1. PICK x : x = loc[p]
    OBVIOUS
  <2>2. /\ Disk' /\ fs' = fs /\ may'.txn = {fs.txn} /\ may'.current = may.current
        /\ may'.rel = may.rel
    BY <1>2, SyncsKeepDisk, SyncRunStore DEF TypeInv
  <2>3. /\ x.ver \in Versions /\ x.ver > fs.floor /\ fs.txn = Txn("activated", x.ver, x.prev)
        /\ may.current = {x.ver} /\ may.rel[x.ver] = {"complete"}
    BY <1>0, <2>1, InstallTypes DEF Phase, PhaseOf, InstallPhase
  <2>4. Activated(x.ver)'
    BY <2>2, <2>3 DEF Activated, Txn
  <2>5. InstallPhase("i_ok", x)'
    BY <2>4 DEF InstallPhase, InstallLabels
  <2> QED
    BY <1>0, <1>2, <2>1, <2>2, <2>5, OwnedKept, InstallOn DEF Goes
<1> QED
  BY <1>1, <1>2, InstallActivateSyncStep

LEMMA InstallKeeps ==
    ASSUME TypeInv, Disk, NEW p \in Procs, Placed(p), Phase(p), InstallUpgrade(p)
    PROVE  Disk' /\ Arrives(p)
<1>1. InstallerFails(p) => Disk' /\ Arrives(p)
  BY InstallerFailsStep, InstallFailed DEF CallsTo
<1> QED
  BY <1>1, InstallCheckKeeps, InstallPrepareKeeps, InstallPrepareSyncKeeps, InstallMkdirKeeps,
     InstallCopyKeeps, InstallLinkKeeps, InstallSyncKeeps, InstallVerifyKeeps,
     InstallActivateKeeps, InstallActivateSyncKeeps
     DEF InstallUpgrade

-----------------------------------------------------------------------------
(* The steps of a confirmation keep the disk.                              *)

LEMMA ConfirmOn ==
    ASSUME TypeInv, NEW p \in Procs, Placed(p), pc[p] \in ConfirmLabels,
           NEW l \in ConfirmLabels \cup {"c_ok"}, NEW x, Went(p, l, x), ConfirmPhase(l, x)'
    PROVE  Arrives(p)
<1>1. /\ l \notin RecoverLabels /\ l \notin InstallLabels /\ l \notin Rolling
      /\ l \notin {"i_ok", "o_recovered", "r_floor", "r_floorsync", "r_rmtxn", "r_syncrun"}
      /\ l \in ConfirmLabels \cup ReturnLabels
  BY DEF RecoverLabels, InstallLabels, ConfirmLabels, Rolling, ReturnLabels
<1>2. RecoverPhase(l, x)'
  BY <1>1 DEF RecoverPhase, Rolling
<1>3. InstallPhase(l, x)'
  BY <1>1 DEF InstallPhase, InstallLabels
<1>4. PhaseOf(l, x)' /\ p # "upg"
  BY <1>2, <1>3 DEF PhaseOf, Placed, UpgPlace, InstallLabels, RecoverLabels, ConfirmLabels
<1> QED
  BY <1>1, <1>4 DEF Arrives, Reaches

LEMMA ConfirmFailed ==
    ASSUME TypeInv, Disk, NEW p \in Procs, Placed(p), pc[p] \in ConfirmLabels, ConfirmFails(p)
    PROVE  Disk' /\ Arrives(p)
<1>1. PICK x : Went(p, "c_fail", x)
  BY DEF ConfirmFails
<1>2. Disk' /\ PhaseOf("c_fail", x)' /\ "c_fail" \in ReturnLabels /\ "c_fail" # "o_recovered"
  BY SameDisk, Quiet DEF ConfirmFails, QuietLabels, ReturnLabels
<1>3. p # "upg"
  BY DEF Placed, UpgPlace, InstallLabels, RecoverLabels, ConfirmLabels
<1> QED
  BY <1>1, <1>2, <1>3 DEF Arrives, Reaches

LEMMA ConfirmLoadKeeps ==
    ASSUME TypeInv, Disk, NEW p \in Procs, Placed(p), Phase(p), ConfirmLoad(p)
    PROVE  Disk' /\ Arrives(p)
<1>0. pc[p] = "c_load" /\ {"c_load", "c_save"} \subseteq ConfirmLabels
  BY DEF ConfirmLoad, ConfirmLabels
<1>1. CASE ConfirmFails(p)
  BY <1>0, <1>1, ConfirmFailed
<1>2. CASE /\ Confirmable(loc[p].ver) /\ Same
           /\ Went(p, "c_save",
                   [loc[p] EXCEPT !.txn = Txn("confirmed", fs.txn.version, fs.txn.prev)])
  <2>1. PICK x : x = [loc[p] EXCEPT !.txn = Txn("confirmed", fs.txn.version, fs.txn.prev)]
    OBVIOUS
  <2>2. x.ver = loc[p].ver /\ x.txn = Txn("confirmed", fs.txn.version, fs.txn.prev)
    BY <2>1 DEF TypeInv, Shape, Typed, Locals
  <2>3. Activated(x.ver) /\ fs.txn.version = x.ver /\ fs' = fs /\ Disk'
    BY <1>0, <1>2, <2>2, SameDisk DEF Phase, PhaseOf, ConfirmPhase, Confirmable, Same
  <2>4. Activated(x.ver)'
    BY <1>2, <2>3, SamePhase
  <2>5. ConfirmPhase("c_save", x)'
    BY <2>2, <2>3, <2>4 DEF ConfirmPhase
  <2> QED
    BY <1>0, <1>2, <2>1, <2>3, <2>5, ConfirmOn
<1> QED
  BY <1>1, <1>2, ConfirmLoadStep

LEMMA ConfirmSaveKeeps ==
    ASSUME TypeInv, Disk, NEW p \in Procs, Placed(p), Phase(p), ConfirmSave(p)
    PROVE  Disk' /\ Arrives(p)
<1>0. pc[p] = "c_save" /\ {"c_save", "c_savesync"} \subseteq ConfirmLabels
  BY DEF ConfirmSave, ConfirmLabels
<1>1. CASE ConfirmFails(p)
  BY <1>0, <1>1, ConfirmFailed
<1>2. CASE PutTxn(loc[p].txn) /\ Goes(p, "c_savesync")
  <2>1. PICK x : x = loc[p]
    OBVIOUS
  <2>2. Activated(x.ver) /\ x.txn = Txn("confirmed", x.ver, fs.txn.prev)
    BY <1>0, <2>1 DEF Phase, PhaseOf, ConfirmPhase
  <2>3. /\ x.ver \in Versions /\ x.ver > fs.floor /\ fs.txn # NoTxn
        /\ fs.txn.state = "activated" /\ fs.txn.version = x.ver
    BY <2>2 DEF Activated, NoTxn
  <2>4. fs.txn = Txn("activated", x.ver, fs.txn.prev) /\ fs.txn.prev \in MaybeVersion
    BY <2>3, FactsOfDisk, TxnTypes DEF Txns, Txn
  <2>5. PutTxn(Txn("confirmed", x.ver, fs.txn.prev)) /\ x.txn \in Txns
    BY <1>2, <2>1, <2>2, <2>3, <2>4, TxnTypes DEF TransactionState
  <2>6. Disk'
    BY <2>2, <2>3, <2>4, <2>5, ConfirmKeepsDisk
  <2>7. fs'.txn = x.txn /\ fs'.floor = fs.floor
    BY <1>2, <2>1, <2>5, PutTxnStore DEF TypeInv
  <2>8. x.txn.state = "confirmed" /\ x.txn.version = x.ver
    BY <2>2 DEF Txn
  <2>9. ConfirmPhase("c_savesync", x)'
    BY <2>3, <2>7, <2>8 DEF ConfirmPhase
  <2> QED
    BY <1>0, <1>2, <2>1, <2>6, <2>9, ConfirmOn DEF Goes
<1> QED
  BY <1>1, <1>2, ConfirmSaveStep

(* What a confirmation relies on once the transaction says confirmed.      *)
LEMMA ConfirmedFacts ==
    ASSUME TypeInv, Disk, NEW p \in Procs, Phase(p),
           pc[p] \in {"c_savesync", "c_floor", "c_floorsync", "c_rmtxn"}
    PROVE  /\ pc[p] \in ConfirmLabels /\ loc[p].ver \in Versions /\ loc[p].txn = fs.txn
           /\ fs.txn.state = "confirmed" /\ fs.txn.version = loc[p].ver
           /\ fs.txn # NoTxn /\ may.current = {loc[p].ver} /\ fs.txn.state \notin Unconfirmed
<1>1. pc[p] \in ConfirmLabels
  BY DEF ConfirmLabels
<1>2. /\ loc[p].ver \in Versions /\ loc[p].txn = fs.txn
      /\ fs.txn.state = "confirmed" /\ fs.txn.version = loc[p].ver
  BY DEF Phase, PhaseOf, ConfirmPhase
<1>3. fs.txn # NoTxn /\ fs.txn.state \notin Unconfirmed
  BY <1>2 DEF NoTxn, Unconfirmed
<1>4. Settled
  BY <1>3 DEF Disk, Moving
<1>5. Fits(fs.txn, fs.current) /\ may.current = {fs.current}
  BY <1>4, FactsOfDisk DEF Settled
<1>6. fs.current = fs.txn.version
  BY <1>3, <1>5 DEF Fits
<1> QED
  BY <1>1, <1>2, <1>3, <1>5, <1>6

LEMMA ConfirmSaveSyncKeeps ==
    ASSUME TypeInv, Disk, NEW p \in Procs, Placed(p), Phase(p), ConfirmSaveSync(p)
    PROVE  Disk' /\ Arrives(p)
<1>0. pc[p] = "c_savesync" /\ "c_floor" \in ConfirmLabels
  BY DEF ConfirmSaveSync, ConfirmLabels
<1>1. CASE ConfirmFails(p)
  BY <1>0, <1>1, ConfirmedFacts, ConfirmFailed
<1>2. CASE SyncRun /\ Goes(p, "c_floor")
  <2>1. PICK x : x = loc[p]
    OBVIOUS
  <2>2. Disk' /\ fs' = fs /\ may'.txn = {fs.txn}
    BY <1>2, SyncsKeepDisk, SyncRunStore DEF TypeInv
  <2>3. x.ver > fs.floor
    BY <1>0, <2>1 DEF Phase, PhaseOf, ConfirmPhase
  <2>4. ConfirmPhase("c_floor", x)'
    BY <1>0, <2>1, <2>2, <2>3, ConfirmedFacts DEF ConfirmPhase
  <2> QED
    BY <1>0, <1>2, <2>1, <2>2, <2>4, ConfirmedFacts, ConfirmOn DEF Goes
<1> QED
  BY <1>1, <1>2, ConfirmSaveSyncStep

LEMMA ConfirmFloorKeeps ==
    ASSUME TypeInv, Disk, NEW p \in Procs, Placed(p), Phase(p), ConfirmFloor(p)
    PROVE  Disk' /\ Arrives(p)
<1>0. pc[p] = "c_floor" /\ "c_floorsync" \in ConfirmLabels
  BY DEF ConfirmFloor, ConfirmLabels
<1>1. PICK x : x = loc[p]
  OBVIOUS
<1>2. x.ver > fs.floor /\ may.txn = {fs.txn} /\ x.txn.version = x.ver /\ x.ver \in MaybeVersion
  BY <1>0, <1>1, ConfirmedFacts, VersionTypes DEF Phase, PhaseOf, ConfirmPhase
<1>3. CASE ConfirmFails(p)
  BY <1>0, <1>3, ConfirmedFacts, ConfirmFailed
<1>4. CASE PutFloor(loc[p].txn.version) /\ Goes(p, "c_floorsync")
  <2>1. PutFloor(x.ver)
    BY <1>1, <1>2, <1>4
  <2>2. Disk' /\ fs'.txn = fs.txn /\ fs'.floor = x.ver /\ may'.txn = may.txn
    BY <1>2, <2>1, PutFloorKeepsDisk, PutFloorStore DEF TypeInv
  <2>3. ConfirmPhase("c_floorsync", x)'
    BY <1>0, <1>1, <1>2, <2>2, ConfirmedFacts DEF ConfirmPhase
  <2> QED
    BY <1>0, <1>1, <1>4, <2>2, <2>3, ConfirmedFacts, ConfirmOn DEF Goes
<1>5. loc[p].txn.version # fs.floor
  BY <1>1, <1>2, FactsOfDisk, VersionTypes
<1> QED
  BY <1>3, <1>4, <1>5, ConfirmFloorStep

LEMMA ConfirmFloorSyncKeeps ==
    ASSUME TypeInv, Disk, NEW p \in Procs, Placed(p), Phase(p), ConfirmFloorSync(p)
    PROVE  Disk' /\ Arrives(p)
<1>0. pc[p] = "c_floorsync" /\ "c_rmtxn" \in ConfirmLabels
  BY DEF ConfirmFloorSync, ConfirmLabels
<1>1. PICK x : x = loc[p]
  OBVIOUS
<1>2. fs.floor = x.ver /\ may.txn = {fs.txn}
  BY <1>0, <1>1 DEF Phase, PhaseOf, ConfirmPhase
<1>3. CASE ConfirmFails(p)
  BY <1>0, <1>3, ConfirmedFacts, ConfirmFailed
<1>4. CASE SyncData /\ Goes(p, "c_rmtxn")
  <2>1. Disk' /\ fs' = fs /\ may'.floor = {fs.floor} /\ may'.txn = may.txn
    BY <1>4, SyncsKeepDisk, SyncDataStore DEF TypeInv
  <2>2. ConfirmPhase("c_rmtxn", x)'
    BY <1>0, <1>1, <1>2, <2>1, ConfirmedFacts DEF ConfirmPhase
  <2> QED
    BY <1>0, <1>1, <1>4, <2>1, <2>2, ConfirmedFacts, ConfirmOn DEF Goes
<1> QED
  BY <1>3, <1>4, ConfirmFloorSyncStep

LEMMA ConfirmRemoveTxnKeeps ==
    ASSUME TypeInv, Disk, NEW p \in Procs, Placed(p), Phase(p), ConfirmRemoveTxn(p)
    PROVE  Disk' /\ Arrives(p)
<1>0. pc[p] = "c_rmtxn" /\ "c_syncrun" \in ConfirmLabels
  BY DEF ConfirmRemoveTxn, ConfirmLabels
<1>1. PICK x : x = loc[p]
  OBVIOUS
<1>2. may.floor = {x.ver} /\ may.current = {x.ver}
  BY <1>0, <1>1, ConfirmedFacts DEF Phase, PhaseOf, ConfirmPhase
<1>3. CASE ConfirmFails(p)
  BY <1>0, <1>3, ConfirmedFacts, ConfirmFailed
<1>4. CASE PutTxn(NoTxn) /\ Goes(p, "c_syncrun")
  <2>1. /\ Disk' /\ fs'.txn = NoTxn /\ may'.floor = may.floor /\ may'.current = may.current
    BY <1>0, <1>4, ConfirmedFacts, RemoveTxnKeepsDisk, PutTxnStore, TxnTypes DEF TypeInv
  <2>2. ConfirmPhase("c_syncrun", x)'
    BY <1>2, <2>1 DEF ConfirmPhase
  <2> QED
    BY <1>0, <1>1, <1>4, <2>1, <2>2, ConfirmedFacts, ConfirmOn DEF Goes
<1> QED
  BY <1>3, <1>4, ConfirmRemoveTxnStep

LEMMA ConfirmSyncRunKeeps ==
    ASSUME TypeInv, Disk, NEW p \in Procs, Placed(p), Phase(p), ConfirmSyncRun(p)
    PROVE  Disk' /\ Arrives(p)
<1>0. pc[p] = "c_syncrun" /\ "c_syncrun" \in ConfirmLabels
  BY DEF ConfirmSyncRun, ConfirmLabels
<1>1. CASE ConfirmFails(p)
  BY <1>0, <1>1, ConfirmFailed
<1>2. CASE SyncRun /\ Went(p, "c_ok", [loc[p] EXCEPT !.txn = NoTxn])
  <2>1. PICK x : x = [loc[p] EXCEPT !.txn = NoTxn]
    OBVIOUS
  <2>2. x.ver = loc[p].ver
    BY <2>1 DEF TypeInv, Shape, Typed, Locals
  <2>3. may.floor = {x.ver} /\ may.current = {x.ver} /\ fs.txn = NoTxn
    BY <1>0, <2>2 DEF Phase, PhaseOf, ConfirmPhase
  <2>4. /\ Disk' /\ may'.txn = {NoTxn} /\ may'.floor = may.floor /\ may'.current = may.current
    BY <1>2, <2>3, SyncsKeepDisk, SyncRunStore DEF TypeInv
  <2>5. ConfirmPhase("c_ok", x)'
    BY <2>3, <2>4 DEF ConfirmPhase
  <2> QED
    BY <1>0, <1>2, <2>1, <2>4, <2>5, ConfirmOn
<1> QED
  BY <1>1, <1>2, ConfirmSyncRunStep

LEMMA ConfirmKeeps ==
    ASSUME TypeInv, Disk, NEW p \in Procs, Placed(p), Phase(p), ConfirmUpgrade(p)
    PROVE  Disk' /\ Arrives(p)
BY ConfirmLoadKeeps, ConfirmSaveKeeps, ConfirmSaveSyncKeeps, ConfirmFloorKeeps,
   ConfirmFloorSyncKeeps, ConfirmRemoveTxnKeeps, ConfirmSyncRunKeeps
   DEF ConfirmUpgrade

-----------------------------------------------------------------------------
(* The invariant, step by step.  A killed safe-ota leaves no upgrader at   *)
(* work behind it ("orphan" is not among the faults).                      *)

LEMMA PhaseAt ==
    ASSUME NEW p, NEW l, NEW x, pc'[p] = l, loc'[p] = x
    PROVE  Phase(p)' <=> PhaseOf(l, x)'
BY DEF Phase, PhaseOf, RecoverPhase, InstallPhase, ConfirmPhase, Owned, Activated

OtaPlaces == OtaLabels \cup InstallLabels \cup RecoverLabels \cup ConfirmLabels \cup ReturnLabels
UpgPlaces == UpgLabels \cup InstallLabels \cup RecoverLabels \cup {"i_ok", "i_fail"}

(* Turns of the next state, where the disk is the same.                    *)
TurnsAt(lo, xo, lu, xu) ==
    /\ lu \notin {"idle", "u_done"} =>
         /\ lo \in Waiting /\ nav'.mode = "upgrade" /\ result' = "none"
         /\ request' = xo.ver /\ xo.ver \in Versions /\ Owned(xo.ver)
         /\ lu # "u_dead" => xu.ver = xo.ver
    /\ lo = "o_switch" => result' = "none" /\ request' = xo.ver
    /\ lo # "idle" /\ job' # "recover" => xo.ver \in Versions
    /\ lo \in {"o_recovered", "o_request", "o_switch"} => fs.txn = NoTxn
    /\ lo \in {"o_request", "o_switch"} => xo.ver \in Versions
    /\ lo = "o_wait" /\ result' = "activated" => Activated(xo.ver)

LEMMA SameInv ==
    ASSUME OtaInv, TypeInv', Same,
           NEW lo \in OtaPlaces, NEW xo, NEW lu \in UpgPlaces, NEW xu, To(lo, xo, lu, xu),
           PhaseOf(lo, xo), PhaseOf(lu, xu), lu \in RecoverLabels => xu.ret = "i_fail",
           TurnsAt(lo, xo, lu, xu)
    PROVE  OtaInv'
<1>1. pc'["ota"] = lo /\ loc'["ota"] = xo /\ pc'["upg"] = lu /\ loc'["upg"] = xu
  BY DEF To
<1>2. Disk'
  BY SameDisk DEF OtaInv
<1>3. Phase("ota")' /\ Phase("upg")'
  BY <1>1, SamePhase, PhaseAt
<1>4. /\ Owned(xo.ver)' <=> Owned(xo.ver)
      /\ Activated(xo.ver)' <=> Activated(xo.ver)
      /\ fs'.txn = fs.txn
  BY SamePhase DEF Same
<1>5. Turns'
  BY <1>1, <1>4 DEF Turns, TurnsAt, UpgBusy, Owned, Activated
<1>6. Places'
  BY <1>1 DEF Places, OtaPlaces, UpgPlaces
<1> QED
  BY <1>2, <1>3, <1>5, <1>6 DEF OtaInv

(* safe-ota is not waiting: the upgrader does nothing.                     *)
LEMMA AtRest ==
    ASSUME OtaInv
    PROVE  /\ pc["ota"] \notin Waiting => pc["upg"] \in {"idle", "u_done"}
           /\ pc["upg"] \in {"idle", "u_done"} => /\ PhaseOf(pc["upg"], loc["upg"])
                                                  /\ pc["upg"] \in UpgPlaces
                                                  /\ pc["upg"] \notin RecoverLabels
           /\ PhaseOf(pc["upg"], loc["upg"]) /\ PhaseOf(pc["ota"], loc["ota"])
           /\ pc["upg"] \in UpgPlaces /\ pc["ota"] \in OtaPlaces
           /\ pc["upg"] \in RecoverLabels => loc["upg"].ret = "i_fail"
<1>1. \A l \in {"idle", "u_done"} : l \notin RecoverLabels
  BY DEF RecoverLabels
<1> QED
  BY <1>1 DEF OtaInv, Turns, UpgBusy, Phase, Places, OtaPlaces, UpgPlaces

(* safe-ota goes to a place nothing is said of, with the upgrader at rest. *)
LEMMA QuietStep ==
    ASSUME OtaInv, TypeInv', Same,
           NEW l \in QuietLabels \cap OtaPlaces, NEW x, OtaTo(l, x),
           pc["upg"] \in {"idle", "u_done"},
           l \notin {"o_switch", "o_recovered", "o_request", "o_wait"},
           l # "idle" /\ job' # "recover" => x.ver \in Versions
    PROVE  OtaInv'
<1>1. PhaseOf(l, x)
  BY Quiet
<1>2. PICK u : u = pc["upg"]
  OBVIOUS
<1>3. PICK y : y = loc["upg"]
  OBVIOUS
<1>4. PhaseOf(u, y) /\ u \in UpgPlaces /\ u \notin RecoverLabels
  BY <1>2, <1>3, AtRest
<1>5. TurnsAt(l, x, u, y)
  BY <1>2, <1>3 DEF TurnsAt
<1> QED
  BY <1>1, <1>2, <1>3, <1>4, <1>5, SameInv DEF OtaTo

LEMMA LoadPlace ==
    "r_load" \in QuietLabels \cap OtaPlaces /\ "idle" \in QuietLabels \cap OtaPlaces
BY DEF QuietLabels, OtaPlaces, RecoverLabels, OtaLabels, UpgLabels

LEMMA StartInv ==
    ASSUME OtaInv, StartRun
    PROVE  OtaInv'
<1>1. PICK j \in Jobs, v \in MaybeVersion : Start(j, v) /\ (j = "recover" \/ v \in Versions)
  BY VersionTypes DEF StartRun, Jobs
<1>2. /\ TypeInv' /\ Same
      /\ OtaTo("r_load", [NoLoc EXCEPT !.ver = v, !.ret = "o_recovered"])
  BY <1>1, StartStep DEF OtaInv
<1>3. "o_recovered" \in RecoverReturns
  BY DEF RecoverReturns
<1>4. PICK x : x = [NoLoc EXCEPT !.ver = v, !.ret = "o_recovered"]
  OBVIOUS
<1>41. x.ver = v
  BY <1>3, <1>4, LocalTypes
<1>5. job' = j /\ pc["ota"] = "idle"
  BY <1>1 DEF Start
<1>6. pc["upg"] \in {"idle", "u_done"}
  BY <1>5, AtRest DEF Waiting
<1> QED
  BY <1>1, <1>2, <1>4, <1>41, <1>5, <1>6, LoadPlace, QuietStep

LEMMA OtaRecoveredInv ==
    ASSUME OtaInv, OtaRecovered
    PROVE  OtaInv'
<1>0. pc["ota"] = "o_recovered" /\ fs.txn = NoTxn
  BY DEF OtaRecovered, OtaInv, Turns
<1>1. pc["upg"] \in {"idle", "u_done"}
  BY <1>0, AtRest DEF Waiting
<1>2. TypeInv' /\ Same
  BY OtaRecoveredStep DEF OtaInv
<1>3. CASE OtaTo("idle", NoLoc)
  BY <1>1, <1>2, <1>3, LoadPlace, QuietStep
<1>4. ASSUME job # "recover", job' = job, NEW l \in {"i_check", "o_request"},
             OtaTo(l, loc["ota"])
      PROVE  OtaInv'
  <2>1. PICK x : x = loc["ota"]
    OBVIOUS
  <2>2. x.ver \in Versions
    BY <1>0, <1>4, <2>1 DEF OtaInv, Turns
  <2>3. PhaseOf("i_check", x)
    BY <1>0, <2>2 DEF PhaseOf, RecoverPhase, InstallPhase, ConfirmPhase, InstallLabels,
                      Rolling, Owned
  <2>4. PhaseOf("o_request", x)
    BY Quiet DEF QuietLabels
  <2>5. PICK u, y : u = pc["upg"] /\ y = loc["upg"]
    OBVIOUS
  <2>6. PhaseOf(u, y) /\ u \in UpgPlaces /\ u \notin RecoverLabels
    BY <1>1, <2>5, AtRest
  <2>7. TurnsAt(l, x, u, y)
    BY <1>0, <1>1, <2>2, <2>5 DEF TurnsAt
  <2>8. l \in OtaPlaces
    BY DEF OtaPlaces, InstallLabels, OtaLabels
  <2> QED
    BY <1>2, <1>4, <2>1, <2>3, <2>4, <2>5, <2>6, <2>7, <2>8, SameInv DEF OtaTo
<1> QED
  BY <1>3, <1>4, OtaRecoveredStep DEF OtaInv

LEMMA OtaFailedInv ==
    ASSUME OtaInv, OtaFailed
    PROVE  OtaInv'
<1>1. pc["upg"] \in {"idle", "u_done"}
  BY AtRest DEF OtaFailed, Waiting
<1> QED
  BY <1>1, OtaFailedStep, LoadPlace, QuietStep DEF OtaInv

(* safe-ota calls a recovery, with the upgrader at rest.                   *)
LEMMA CallInv ==
    ASSUME OtaInv, TypeInv', Same, NEW l \in RecoverReturns,
           OtaTo("r_load", [loc["ota"] EXCEPT !.ret = l]),
           pc["upg"] \in {"idle", "u_done"}, pc["ota"] # "idle", job' = job
    PROVE  OtaInv'
<1>1. PICK x : x = [loc["ota"] EXCEPT !.ret = l]
  OBVIOUS
<1>2. loc["ota"] \in Locals
  BY DEF OtaInv, TypeInv, Shape, Typed, Procs
<1>3. x.ver = loc["ota"].ver
  BY <1>1, <1>2, LocalTypes
<1>4. job' # "recover" => x.ver \in Versions
  BY <1>3 DEF OtaInv, Turns
<1> QED
  BY <1>1, <1>4, LoadPlace, QuietStep

(* ... or goes on to a place the activated release is expected at.         *)
LEMMA ActivatedInv ==
    ASSUME OtaInv, TypeInv', Same,
           NEW l \in {"o_health", "o_runtime", "o_reexec", "c_load"},
           NEW x, x.ver = loc["ota"].ver, NEW u \in {"idle", "u_done"}, NEW y,
           To(l, x, u, y), Activated(x.ver)
    PROVE  OtaInv'
<1>1. PhaseOf(l, x)
  BY DEF PhaseOf, RecoverPhase, InstallPhase, ConfirmPhase, InstallLabels, Rolling
<1>2. PhaseOf(u, y) /\ u \in UpgPlaces /\ u \notin RecoverLabels /\ l \in OtaPlaces
  BY Quiet DEF QuietLabels, UpgLabels, UpgPlaces, OtaPlaces, OtaLabels, ConfirmLabels,
               RecoverLabels
<1>3. TurnsAt(l, x, u, y)
  BY DEF TurnsAt, Activated
<1> QED
  BY <1>1, <1>2, <1>3, SameInv

LEMMA OtaInstalledInv ==
    ASSUME OtaInv, OtaInstalled
    PROVE  OtaInv'
<1>1. /\ pc["upg"] \in {"idle", "u_done"} /\ job' = job
      /\ pc["ota"] \in {"i_ok", "i_fail"}
  BY AtRest DEF OtaInstalled, Waiting, orchVars
<1>2. TypeInv' /\ Same
  BY OtaInstalledStep DEF OtaInv
<1>3. CASE pc["ota"] = "i_ok" /\ OtaTo("o_health", loc["ota"])
  <2>1. PICK x : x = loc["ota"]
    OBVIOUS
  <2>2. Activated(x.ver)
    BY <1>3, <2>1, AtRest DEF PhaseOf, InstallPhase
  <2>3. PICK u \in {"idle", "u_done"} : u = pc["upg"]
    BY <1>1
  <2>4. PICK y : y = loc["upg"]
    OBVIOUS
  <2> QED
    BY <1>2, <1>3, <2>1, <2>2, <2>3, <2>4, ActivatedInv DEF OtaTo
<1>4. CASE pc["ota"] = "i_fail" /\ OtaTo("r_load", [loc["ota"] EXCEPT !.ret = "o_exit"])
  BY <1>1, <1>2, <1>4, CallInv DEF RecoverReturns
<1> QED
  BY <1>3, <1>4, OtaInstalledStep DEF OtaInv

LEMMA OtaRequestInv ==
    ASSUME OtaInv, OtaRequest
    PROVE  OtaInv'
<1>1. /\ pc["upg"] \in {"idle", "u_done"} /\ job' = job /\ result' = "none"
      /\ fs.txn = NoTxn /\ loc["ota"].ver \in Versions
  BY AtRest DEF OtaRequest, Waiting, OtaInv, Turns
<1>2. TypeInv' /\ Same
  BY OtaRequestStep DEF OtaInv
<1>3. PICK x : x = loc["ota"]
  OBVIOUS
<1>4. CASE OtaTo("o_exit", loc["ota"])
  <2>1. "o_exit" \in QuietLabels \cap OtaPlaces
    BY DEF QuietLabels, RecoverReturns, OtaPlaces, OtaLabels
  <2> QED
    BY <1>1, <1>2, <1>3, <1>4, <2>1, QuietStep
<1>5. CASE request' = loc["ota"].ver /\ OtaTo("o_switch", loc["ota"])
  <2>1. PhaseOf("o_switch", x) /\ "o_switch" \in OtaPlaces
    BY Quiet DEF QuietLabels, OtaPlaces, OtaLabels
  <2>2. PICK u, y : u = pc["upg"] /\ y = loc["upg"]
    OBVIOUS
  <2>3. PhaseOf(u, y) /\ u \in UpgPlaces /\ u \notin RecoverLabels
    BY <1>1, <2>2, AtRest
  <2>4. TurnsAt("o_switch", x, u, y)
    BY <1>1, <1>3, <1>5, <2>2 DEF TurnsAt
  <2> QED
    BY <1>2, <1>3, <1>5, <2>1, <2>2, <2>3, <2>4, SameInv DEF OtaTo
<1> QED
  BY <1>4, <1>5, OtaRequestStep DEF OtaInv

LEMMA OtaSwitchUpgradeInv ==
    ASSUME OtaInv, OtaSwitchUpgrade, "orphan" \notin Faults
    PROVE  OtaInv'
<1>0. /\ pc["ota"] = "o_switch" /\ job' = job /\ request' = request /\ result = "none"
      /\ request = loc["ota"].ver /\ fs.txn = NoTxn /\ loc["ota"].ver \in Versions
  BY DEF OtaSwitchUpgrade, OtaInv, Turns
<1>1. pc["upg"] \in {"idle", "u_done"}
  BY <1>0, AtRest DEF Waiting
<1>2. TypeInv' /\ Same
  BY OtaSwitchUpgradeStep DEF OtaInv
<1>3. PICK x : x = loc["ota"]
  OBVIOUS
<1>4. PhaseOf("o_wait", x) /\ "o_wait" \in OtaPlaces
  BY Quiet DEF QuietLabels, OtaPlaces, OtaLabels
<1>5. ASSUME NEW l \in SwitchAnswers,
             To(l, loc["ota"], "i_check", [NoLoc EXCEPT !.ver = request]),
             result' = "none", nav'.mode = "upgrade"
      PROVE  OtaInv'
  <2>1. l = "o_wait"
    BY DEF SwitchAnswers
  <2>2. PICK y : y = [NoLoc EXCEPT !.ver = request]
    OBVIOUS
  <2>3. y.ver = request
    BY <2>2, LocalTypes DEF OtaInv, TypeInv, OrchTypeOK
  <2>4. PhaseOf("i_check", y)
    BY <1>0, <2>3 DEF PhaseOf, RecoverPhase, InstallPhase, ConfirmPhase, InstallLabels,
                      Rolling, Owned
  <2>5. TurnsAt("o_wait", x, "i_check", y)
    BY <1>0, <1>3, <1>5, <2>3 DEF TurnsAt, Waiting, Owned
  <2>6. "i_check" \in UpgPlaces /\ "i_check" \notin RecoverLabels
    BY DEF UpgPlaces, InstallLabels, RecoverLabels
  <2> QED
    BY <1>2, <1>3, <1>4, <1>5, <2>1, <2>2, <2>4, <2>5, <2>6, SameInv
<1>6. CASE UNCHANGED <<result, nav>> /\ OtaTo("o_wait", loc["ota"])
  <2>2. PICK u, y : u = pc["upg"] /\ y = loc["upg"]
    OBVIOUS
  <2>3. PhaseOf(u, y) /\ u \in UpgPlaces /\ u \notin RecoverLabels
    BY <1>1, <2>2, AtRest
  <2>4. TurnsAt("o_wait", x, u, y)
    BY <1>0, <1>1, <1>3, <1>6, <2>2 DEF TurnsAt
  <2> QED
    BY <1>2, <1>3, <1>4, <1>6, <2>2, <2>3, <2>4, SameInv DEF OtaTo
<1>7. CASE OtaTo("o_failed", loc["ota"])
  <2>1. "o_failed" \in QuietLabels \cap OtaPlaces
    BY DEF QuietLabels, RecoverReturns, OtaPlaces, OtaLabels
  <2> QED
    BY <1>0, <1>1, <1>2, <1>3, <1>7, <2>1, QuietStep
<1> QED
  BY <1>5, <1>6, <1>7, OtaSwitchUpgradeStep DEF OtaInv

LEMMA OtaWaitResultInv ==
    ASSUME OtaInv, OtaWaitResult
    PROVE  OtaInv'
<1>0. pc["ota"] = "o_wait" /\ job' = job /\ nav' = nav
  BY DEF OtaWaitResult
<1>2. TypeInv' /\ Same
  BY OtaWaitResultStep DEF OtaInv
<1>3. PICK x : x = loc["ota"]
  OBVIOUS
<1>4. PICK u, y : u = pc["upg"] /\ y = loc["upg"]
  OBVIOUS
<1>5. result # "none" => u \in {"idle", "u_done"}
  BY <1>4 DEF OtaInv, Turns, UpgBusy
<1>6. CASE result = "activated" /\ OtaTo("o_reexec", loc["ota"])
  <2>1. Activated(x.ver)
    BY <1>0, <1>3, <1>6 DEF OtaInv, Turns
  <2> QED
    BY <1>2, <1>3, <1>4, <1>5, <1>6, <2>1, ActivatedInv DEF OtaTo
<1>7. CASE /\ OtaTo("o_back", loc["ota"])
           /\ result # "none" \/ UNCHANGED <<request, result>>
  <2>1. PhaseOf("o_back", x) /\ "o_back" \in OtaPlaces
    BY Quiet DEF QuietLabels, OtaPlaces, OtaLabels
  <2>2. PhaseOf(u, y) /\ u \in UpgPlaces /\ (u \in RecoverLabels => y.ret = "i_fail")
    BY <1>4, AtRest
  <2>3. TurnsAt("o_back", x, u, y)
    BY <1>0, <1>3, <1>4, <1>5, <1>7 DEF OtaInv, Turns, TurnsAt, UpgBusy, Waiting
  <2> QED
    BY <1>2, <1>3, <1>4, <1>7, <2>1, <2>2, <2>3, SameInv DEF OtaTo
<1> QED
  BY <1>6, <1>7, OtaWaitResultStep DEF OtaInv

LEMMA OtaSwitchNormalInv ==
    ASSUME OtaInv, OtaSwitchNormal
    PROVE  OtaInv'
<1>0. pc["ota"] = "o_back" /\ UNCHANGED <<job, nav, request, result>>
  BY DEF OtaSwitchNormal, orchVars
<1>1. TypeInv' /\ Same
  BY OtaSwitchNormalStep DEF OtaInv
<1>2. PICK x : x = loc["ota"]
  OBVIOUS
<1>3. ASSUME NEW y, y = [loc["upg"] EXCEPT !.cancel = TRUE],
             To("o_backwait", loc["ota"], pc["upg"], y)
      PROVE  OtaInv'
  <2>1. PICK u, z : u = pc["upg"] /\ z = loc["upg"]
    OBVIOUS
  <2>2. z \in Locals
    BY <2>1 DEF OtaInv, TypeInv, Shape, Typed, Procs
  <2>3. /\ y.ver = z.ver /\ y.prev = z.prev /\ y.txn = z.txn /\ y.act = z.act
        /\ y.ret = z.ret
    BY <1>3, <2>1, <2>2 DEF Locals
  <2>4. PhaseOf(u, z) /\ u \in UpgPlaces /\ (u \in RecoverLabels => y.ret = "i_fail")
    BY <2>1, <2>3, AtRest
  <2>5. RecoverPhase(u, y)
    BY <2>3, <2>4 DEF PhaseOf, RecoverPhase
  <2>6. InstallPhase(u, y)
    BY <2>3, <2>4 DEF PhaseOf, InstallPhase
  <2>7. ConfirmPhase(u, y)
    BY <2>3, <2>4 DEF PhaseOf, ConfirmPhase
  <2>8. PhaseOf("o_backwait", x) /\ "o_backwait" \in OtaPlaces
    BY Quiet DEF QuietLabels, OtaPlaces, OtaLabels
  <2>9. TurnsAt("o_backwait", x, u, y)
    BY <1>0, <1>2, <2>1, <2>3 DEF OtaInv, Turns, TurnsAt, UpgBusy, Waiting
  <2>10. PhaseOf(u, y)
    BY <2>5, <2>6, <2>7 DEF PhaseOf
  <2> QED
    BY <1>1, <1>2, <1>3, <2>1, <2>4, <2>8, <2>9, <2>10, SameInv
<1>4. CASE nav.mode # "upgrade" /\ OtaTo("r_load", [loc["ota"] EXCEPT !.ret = "o_failed"])
  <2>1. pc["upg"] \in {"idle", "u_done"}
    BY <1>4 DEF OtaInv, Turns, UpgBusy
  <2> QED
    BY <1>0, <1>1, <1>4, <2>1, CallInv DEF RecoverReturns
<1> QED
  BY <1>3, <1>4, OtaSwitchNormalStep DEF OtaInv

LEMMA OtaSwitchedNormalInv ==
    ASSUME OtaInv, OtaSwitchedNormal, "orphan" \notin Faults
    PROVE  OtaInv'
<1>0. pc["ota"] = "o_backwait" /\ job' = job
  BY DEF OtaSwitchedNormal
<1>1. TypeInv' /\ Same
  BY OtaSwitchedNormalStep DEF OtaInv
<1>2. PICK x : x = [loc["ota"] EXCEPT !.ret = "o_failed"]
  OBVIOUS
<1>3. loc["ota"] \in Locals
  BY DEF OtaInv, TypeInv, Shape, Typed, Procs
<1>4. x.ver = loc["ota"].ver
  BY <1>2, <1>3, LocalTypes DEF RecoverReturns
<1>5. PICK y : To("r_load", x, "idle", y)
  BY <1>2, OtaSwitchedNormalStep DEF OtaInv
<1>6. PhaseOf("r_load", x) /\ PhaseOf("idle", y)
  BY Quiet, LoadPlace
<1>7. "r_load" \in OtaPlaces /\ "idle" \in UpgPlaces /\ "idle" \notin RecoverLabels
  BY LoadPlace DEF UpgPlaces, UpgLabels, RecoverLabels
<1>8. job' # "recover" => x.ver \in Versions
  BY <1>0, <1>4 DEF OtaInv, Turns
<1>9. TurnsAt("r_load", x, "idle", y)
  BY <1>8 DEF TurnsAt
<1> QED
  BY <1>1, <1>5, <1>6, <1>7, <1>9, SameInv

LEMMA OtaReexecInv ==
    ASSUME OtaInv, OtaReexec
    PROVE  OtaInv'
<1>0. /\ pc["ota"] = "o_reexec" /\ job' = job /\ pc["upg"] \in {"idle", "u_done"}
      /\ Activated(loc["ota"].ver)
  BY AtRest DEF OtaReexec, Waiting, PhaseOf, ConfirmPhase
<1>1. TypeInv' /\ Same
  BY OtaReexecStep DEF OtaInv
<1>2. loc["ota"] \in Locals
  BY DEF OtaInv, TypeInv, Shape, Typed, Procs
<1>3. PICK x : /\ x = [loc["ota"] EXCEPT !.ret = "o_restore"]
               /\ \/ To("o_runtime", x, "idle", NoLoc)
                  \/ OtaTo("r_load", x) /\ nav' = nav
  BY OtaReexecStep DEF OtaInv
<1>4. x.ver = loc["ota"].ver
  BY <1>2, <1>3, LocalTypes DEF RecoverReturns
<1>5. CASE To("o_runtime", x, "idle", NoLoc)
  BY <1>0, <1>1, <1>4, <1>5, ActivatedInv
<1>6. CASE OtaTo("r_load", x)
  BY <1>0, <1>1, <1>3, <1>6, CallInv DEF RecoverReturns
<1> QED
  BY <1>3, <1>5, <1>6

LEMMA OnInv ==
    ASSUME OtaInv, TypeInv', Same, job' = job, pc["upg"] \in {"idle", "u_done"},
           pc["ota"] \in {"o_runtime", "o_health"},
           NEW l \in {"o_health", "c_load"}, OtaTo(l, loc["ota"])
    PROVE  OtaInv'
<1>1. PICK x, y : x = loc["ota"] /\ y = loc["upg"]
  OBVIOUS
<1>2. Activated(x.ver)
  BY <1>1, AtRest DEF PhaseOf, ConfirmPhase
<1>3. PICK u \in {"idle", "u_done"} : u = pc["upg"]
  OBVIOUS
<1> QED
  BY <1>1, <1>2, <1>3, ActivatedInv DEF OtaTo

LEMMA OtaWaitRuntimeInv ==
    ASSUME OtaInv, OtaWaitRuntime \/ OtaHealth
    PROVE  OtaInv'
<1>0. /\ pc["ota"] \in {"o_runtime", "o_health"} /\ job' = job
      /\ pc["upg"] \in {"idle", "u_done"}
  BY AtRest DEF OtaWaitRuntime, OtaHealth, orchVars, Waiting
<1>1. TypeInv' /\ Same
  BY OtaWaitRuntimeStep, OtaHealthStep DEF OtaInv
<1>2. \/ \E l \in {"o_health", "c_load"} : OtaTo(l, loc["ota"])
      \/ OtaTo("r_load", [loc["ota"] EXCEPT !.ret = "o_unhealthy"])
  BY OtaWaitRuntimeStep, OtaHealthStep DEF OtaInv
<1> QED
  BY <1>0, <1>1, <1>2, OnInv, CallInv DEF RecoverReturns

LEMMA OtaConfirmedInv ==
    ASSUME OtaInv, OtaConfirmed
    PROVE  OtaInv'
<1>0. pc["ota"] \in {"c_ok", "c_fail"} /\ pc["upg"] \in {"idle", "u_done"}
  BY AtRest DEF OtaConfirmed, Waiting
<1>1. TypeInv' /\ Same
  BY OtaConfirmedStep DEF OtaInv
<1>2. CASE OtaTo("idle", NoLoc)
  BY <1>0, <1>1, <1>2, LoadPlace, QuietStep
<1>3. CASE pc["ota"] = "c_fail" /\ OtaTo("r_load", [loc["ota"] EXCEPT !.ret = "o_confirmfail"])
  BY <1>0, <1>1, <1>3, CallInv DEF RecoverReturns, OtaConfirmed
<1> QED
  BY <1>2, <1>3, OtaConfirmedStep DEF OtaInv

(* Both processes end.                                                     *)
LEMMA BothIdleInv ==
    ASSUME OtaInv, TypeInv', Same, NEW x, NEW y, To("idle", x, "idle", y)
    PROVE  OtaInv'
<1>1. PhaseOf("idle", x) /\ PhaseOf("idle", y)
  BY Quiet, LoadPlace
<1>2. "idle" \in OtaPlaces /\ "idle" \in UpgPlaces /\ "idle" \notin RecoverLabels
  BY LoadPlace DEF UpgPlaces, UpgLabels, RecoverLabels
<1>3. TurnsAt("idle", x, "idle", y)
  BY DEF TurnsAt
<1> QED
  BY <1>1, <1>2, <1>3, SameInv

LEMMA OtaRolledBackInv ==
    ASSUME OtaInv, OtaRolledBack
    PROVE  OtaInv'
<1>0. pc["upg"] \in {"idle", "u_done"}
  BY AtRest DEF OtaRolledBack, Waiting
<1>1. TypeInv' /\ Same
  BY OtaRolledBackStep DEF OtaInv
<1> QED
  BY <1>0, <1>1, OtaRolledBackStep, BothIdleInv, LoadPlace, QuietStep DEF OtaInv

(* Nothing of the two processes changes, but the upgrader's mode may go.   *)
LEMMA StayInv ==
    ASSUME OtaInv, TypeInv', Same, UpgTo(pc["upg"], loc["upg"]),
           UNCHANGED <<job, request, result>>,
           nav' = nav \/ pc["upg"] \in {"idle", "u_done"}
    PROVE  OtaInv'
<1>1. PICK lo, xo : lo = pc["ota"] /\ xo = loc["ota"]
  OBVIOUS
<1>2. PICK u, y : u = pc["upg"] /\ y = loc["upg"]
  OBVIOUS
<1>3. /\ PhaseOf(u, y) /\ PhaseOf(lo, xo) /\ u \in UpgPlaces /\ lo \in OtaPlaces
      /\ u \in RecoverLabels => y.ret = "i_fail"
  BY <1>1, <1>2, AtRest
<1>4. TurnsAt(lo, xo, u, y)
  BY <1>1, <1>2 DEF OtaInv, Turns, TurnsAt, UpgBusy
<1> QED
  BY <1>1, <1>2, <1>3, <1>4, SameInv DEF UpgTo

LEMMA NavBootInv ==
    ASSUME OtaInv, NavBoot
    PROVE  OtaInv'
<1>1. pc["upg"] \in {"idle", "u_done"}
  BY DEF NavBoot, OtaInv, Turns, UpgBusy
<1> QED
  BY <1>1, NavBootStep, StayInv DEF OtaInv, NavBoot

(* The upgrader goes somewhere, safe-ota stays.                            *)
LEMMA UpgraderInv ==
    ASSUME OtaInv, TypeInv', Same, NEW l \in UpgPlaces, NEW y, UpgTo(l, y), PhaseOf(l, y),
           l \notin RecoverLabels,
           TurnsAt(pc["ota"], loc["ota"], l, y)
    PROVE  OtaInv'
<1>1. PICK lo, xo : lo = pc["ota"] /\ xo = loc["ota"]
  OBVIOUS
<1>2. PhaseOf(lo, xo) /\ lo \in OtaPlaces
  BY <1>1, AtRest
<1> QED
  BY <1>1, <1>2, SameInv DEF UpgTo

LEMMA UpgraderRestartInv ==
    ASSUME OtaInv, UpgraderRestart
    PROVE  OtaInv'
<1>0. /\ UpgBusy /\ nav' = nav /\ request' = request /\ job' = job /\ result' = "none"
  BY DEF UpgraderRestart, StartUpgrader, UpgBusy
<1>1. TypeInv' /\ Same
  BY UpgraderRestartStep DEF OtaInv
<1>2. PICK y : y = [NoLoc EXCEPT !.ver = request]
  OBVIOUS
<1>3. y.ver = request
  BY <1>2, LocalTypes DEF OtaInv, TypeInv, OrchTypeOK
<1>4. UpgTo("i_check", y)
  BY <1>2, UpgraderRestartStep DEF OtaInv
<1>5. PhaseOf("i_check", y)
  BY <1>0, <1>3 DEF PhaseOf, RecoverPhase, InstallPhase, ConfirmPhase, InstallLabels,
                    Rolling, Owned, OtaInv, Turns
<1>6. "i_check" \in UpgPlaces /\ "i_check" \notin RecoverLabels
  BY DEF UpgPlaces, InstallLabels, RecoverLabels
<1>7. TurnsAt(pc["ota"], loc["ota"], "i_check", y)
  BY <1>0, <1>3 DEF OtaInv, Turns, TurnsAt
<1> QED
  BY <1>1, <1>4, <1>5, <1>6, <1>7, UpgraderInv

LEMMA UpgraderPublishInv ==
    ASSUME OtaInv, UpgraderPublish
    PROVE  OtaInv'
<1>0. /\ UpgBusy /\ pc["upg"] \in {"i_ok", "i_fail"}
      /\ UNCHANGED <<nav, request, job>>
  BY DEF UpgraderPublish, UpgBusy
<1>1. TypeInv' /\ Same
  BY UpgraderPublishStep DEF OtaInv
<1>2. /\ PhaseOf("u_done", NoLoc) /\ PhaseOf("u_dead", NoLoc)
      /\ {"u_done", "u_dead"} \subseteq UpgPlaces
      /\ "u_done" \notin RecoverLabels /\ "u_dead" \notin RecoverLabels
  BY Quiet DEF QuietLabels, UpgLabels, UpgPlaces, RecoverLabels
<1>3. /\ pc["ota"] \in Waiting /\ loc["upg"].ver = loc["ota"].ver
  BY <1>0 DEF OtaInv, Turns
<1>4. pc["upg"] = "i_ok" => Activated(loc["ota"].ver)
  BY <1>3, AtRest DEF PhaseOf, InstallPhase
<1>5. CASE /\ UpgTo("u_done", NoLoc)
           /\ result' = IF pc["upg"] = "i_ok" THEN "activated" ELSE "failed"
  <2>1. TurnsAt(pc["ota"], loc["ota"], "u_done", NoLoc)
    BY <1>0, <1>3, <1>4, <1>5 DEF OtaInv, Turns, TurnsAt, Waiting
  <2> QED
    BY <1>1, <1>2, <1>5, <2>1, UpgraderInv
<1>6. CASE UpgTo("u_dead", NoLoc) /\ result' = result
  <2>1. TurnsAt(pc["ota"], loc["ota"], "u_dead", NoLoc)
    BY <1>0, <1>3, <1>6 DEF OtaInv, Turns, TurnsAt, Waiting
  <2> QED
    BY <1>1, <1>2, <1>6, <2>1, UpgraderInv
<1> QED
  BY <1>5, <1>6, UpgraderPublishStep DEF OtaInv

LEMMA KilledInv ==
    ASSUME OtaInv, OtaKilled \/ UpgraderKilled \/ NavKilled, "orphan" \notin Faults
    PROVE  OtaInv'
<1>1. CASE OtaKilled
  <2>1. TypeInv' /\ Same /\ OtaTo("idle", NoLoc)
    BY <1>1, KillSteps DEF OtaInv
  <2>2. pc["upg"] \in {"idle", "u_done"}
    BY <1>1 DEF OtaKilled, UpgBusy
  <2> QED
    BY <2>1, <2>2, LoadPlace, QuietStep
<1>2. CASE UpgraderKilled
  <2>1. TypeInv' /\ Same /\ UpgTo("u_dead", NoLoc)
    BY <1>2, KillSteps DEF OtaInv
  <2>2. PhaseOf("u_dead", NoLoc) /\ "u_dead" \in UpgPlaces /\ "u_dead" \notin RecoverLabels
    BY Quiet DEF QuietLabels, UpgLabels, UpgPlaces, RecoverLabels
  <2>3. UpgBusy /\ UNCHANGED <<job, request, result, nav>>
    BY <1>2 DEF UpgraderKilled
  <2>4. TurnsAt(pc["ota"], loc["ota"], "u_dead", NoLoc)
    BY <2>3 DEF OtaInv, Turns, TurnsAt, Waiting
  <2> QED
    BY <2>1, <2>2, <2>4, UpgraderInv
<1>3. CASE NavKilled
  <2>1. TypeInv' /\ Same /\ UpgTo("idle", NoLoc) /\ UNCHANGED <<job, request, result>>
    BY <1>3, KillSteps DEF OtaInv, NavKilled
  <2>2. PhaseOf("idle", NoLoc) /\ "idle" \in UpgPlaces /\ "idle" \notin RecoverLabels
    BY Quiet DEF QuietLabels, UpgLabels, UpgPlaces, RecoverLabels
  <2>4. TurnsAt(pc["ota"], loc["ota"], "idle", NoLoc)
    BY <2>1 DEF OtaInv, Turns, TurnsAt
  <2> QED
    BY <2>1, <2>2, <2>4, UpgraderInv
<1> QED
  BY <1>1, <1>2, <1>3

LEMMA PowerLossInv ==
    ASSUME OtaInv, PowerLoss
    PROVE  OtaInv'
<1>1. TypeInv' /\ To("idle", NoLoc, "idle", NoLoc)
  BY PowerLossStep DEF OtaInv
<1>2. Disk'
  BY LosePowerKeepsDisk DEF OtaInv, PowerLoss
<1>3. /\ pc'["ota"] = "idle" /\ pc'["upg"] = "idle"
      /\ loc'["ota"] = NoLoc /\ loc'["upg"] = NoLoc
  BY <1>1 DEF To
<1>4. PICK x : x = NoLoc
  OBVIOUS
<1>5. PhaseOf("idle", x)'
  BY Quiet, LoadPlace
<1>6. Phase("ota")' /\ Phase("upg")'
  BY <1>3, <1>4, <1>5, PhaseAt
<1>7. Places'
  BY <1>3 DEF Places, OtaLabels, UpgLabels, RecoverLabels
<1>8. Turns'
  BY <1>3 DEF Turns, UpgBusy
<1> QED
  BY <1>1, <1>2, <1>6, <1>7, <1>8 DEF OtaInv

(* A step of a library function, in safe-ota or in the upgrader.           *)
LEMMA LibraryAt ==
    ASSUME NEW p \in Procs, TxnNext(p)
    PROVE  pc[p] \in InstallLabels \cup RecoverLabels \cup ConfirmLabels
BY DEF TxnNext, Recover, InstallUpgrade, ConfirmUpgrade, InstallLabels, RecoverLabels,
       ConfirmLabels, RecoverLoad, RecoverFloor, RecoverFloorSync, RollbackRead,
       RollbackLink, RollbackRemove, RollbackSyncRoot, RollbackSyncReleases,
       RecoverRemoveCandidate, RecoverSyncCandidate, RecoverRemoveTxn, RecoverSyncRun,
       InstallCheck, InstallPrepare, InstallPrepareSync, InstallerFails, InstallMkdir,
       InstallCopy, InstallLink, InstallSync, InstallVerify, InstallActivate,
       InstallActivateSync, ConfirmLoad, ConfirmSave, ConfirmSaveSync, ConfirmFloor,
       ConfirmFloorSync, ConfirmRemoveTxn, ConfirmSyncRun

LEMMA LibraryLands ==
    ASSUME OtaInv, NEW p \in Procs, Library(p)
    PROVE  TypeInv' /\ Disk' /\ Arrives(p)
<1>1. Placed(p)
  <2>1. ASSUME p = "upg" PROVE UpgPlace(pc["upg"], loc["upg"])
    <3>1. pc["upg"] \in InstallLabels \cup RecoverLabels \cup ConfirmLabels
      BY <2>1, LibraryAt DEF Library
    <3>2. pc["upg"] \notin ConfirmLabels
      BY DEF OtaInv, Places, UpgLabels, InstallLabels, RecoverLabels, ConfirmLabels
    <3> QED
      BY <3>1, <3>2 DEF UpgPlace, OtaInv, Places
  <2> QED
    BY <2>1 DEF Placed
<1>2. Phase(p)
  BY DEF OtaInv, Procs
<1>3. Disk' /\ Arrives(p)
  BY <1>1, <1>2, RecoverKeeps, InstallKeeps, ConfirmKeeps DEF OtaInv, Library, TxnNext
<1>4. TypeInv'
  BY LibraryTypes DEF OtaInv
<1> QED
  BY <1>3, <1>4

(* In safe-ota: the upgrader is at rest.                                   *)
LEMMA OtaLibraryInv ==
    ASSUME OtaInv, Library("ota")
    PROVE  OtaInv'
<1>0. "ota" \in Procs /\ TxnNext("ota") /\ UNCHANGED orchVars
  BY DEF Procs, Library
<1>1. TypeInv' /\ Disk' /\ Arrives("ota")
  BY <1>0, LibraryLands
<1>2. pc["ota"] \notin Waiting /\ pc["ota"] # "idle"
  BY <1>0, LibraryAt DEF Waiting, InstallLabels, RecoverLabels, ConfirmLabels
<1>3. PICK u, y : u = pc["upg"] /\ y = loc["upg"] /\ u \in {"idle", "u_done"}
  BY <1>2, AtRest
<1>4. PICK l : \E x : Reaches("ota", l, x)
  BY <1>1 DEF Arrives
<1>5. PICK x : Reaches("ota", l, x)
  BY <1>4
<1>6. /\ pc'["ota"] = l /\ loc'["ota"] = x /\ pc'["upg"] = u /\ loc'["upg"] = y
      /\ x.ver = loc["ota"].ver
  BY <1>0, <1>3, <1>5, ShapeKept DEF Reaches, Went, OtaInv, TypeInv, Procs
<1>7. /\ l \in InstallLabels \cup RecoverLabels \cup ConfirmLabels \cup ReturnLabels
                 \cup RecoverReturns
      /\ l = "o_recovered" => fs'.txn = NoTxn
  BY <1>5 DEF Reaches
<1>8. l \notin {"o_switch", "o_request", "o_wait"} /\ l \in OtaPlaces
  BY <1>7 DEF InstallLabels, RecoverLabels, ConfirmLabels, ReturnLabels, RecoverReturns,
              OtaPlaces, OtaLabels
<1>9. PhaseOf(l, x)' /\ PhaseOf(u, y)'
  <2>1. u \in QuietLabels
    BY <1>3 DEF QuietLabels, UpgLabels
  <2> QED
    BY <1>5, <2>1, Quiet DEF Reaches
<1>10. Phase("ota")' /\ Phase("upg")'
  BY <1>6, <1>9, PhaseAt
<1>11. Turns'
  BY <1>0, <1>2, <1>3, <1>6, <1>7, <1>8 DEF OtaInv, Turns, UpgBusy, orchVars
<1>12. Places'
  BY <1>3, <1>6, <1>8 DEF Places, OtaPlaces, UpgLabels, RecoverLabels
<1> QED
  BY <1>1, <1>10, <1>11, <1>12 DEF OtaInv

(* In the upgrader: safe-ota waits for it.                                 *)
LEMMA UpgLibraryInv ==
    ASSUME OtaInv, Library("upg")
    PROVE  OtaInv'
<1>0. "upg" \in Procs /\ TxnNext("upg") /\ UNCHANGED orchVars
  BY DEF Procs, Library
<1>1. TypeInv' /\ Disk' /\ Arrives("upg")
  BY <1>0, LibraryLands
<1>2. UpgBusy /\ pc["upg"] # "u_dead"
  BY <1>0, LibraryAt DEF UpgBusy, InstallLabels, RecoverLabels, ConfirmLabels
<1>3. PICK lo, xo : lo = pc["ota"] /\ xo = loc["ota"] /\ lo \in Waiting
  BY <1>2 DEF OtaInv, Turns
<1>4. PICK l : \E x : Reaches("upg", l, x)
  BY <1>1 DEF Arrives
<1>5. PICK x : Reaches("upg", l, x)
  BY <1>4
<1>6. /\ pc'["upg"] = l /\ loc'["upg"] = x /\ pc'["ota"] = lo /\ loc'["ota"] = xo
      /\ x.ver = loc["upg"].ver
  BY <1>0, <1>3, <1>5, ShapeKept DEF Reaches, Went, OtaInv, TypeInv, Procs
<1>7. UpgPlace(l, x) /\ (Owned(x.ver) => Owned(x.ver)')
  BY <1>5 DEF Reaches
<1>8. /\ x.ver = request /\ Owned(x.ver) /\ Owned(x.ver)' /\ request \in Versions
      /\ request = xo.ver /\ result = "none" /\ nav.mode = "upgrade"
  BY <1>2, <1>3, <1>6, <1>7 DEF OtaInv, Turns
<1>9. PhaseOf(l, x)' /\ PhaseOf(lo, xo)'
  <2>1. lo \in QuietLabels
    BY <1>3 DEF QuietLabels, Waiting
  <2> QED
    BY <1>5, <2>1, Quiet DEF Reaches
<1>10. Phase("ota")' /\ Phase("upg")'
  BY <1>6, <1>9, PhaseAt
<1>11. Turns'
  BY <1>0, <1>3, <1>6, <1>8 DEF Turns, UpgBusy, orchVars, Waiting, Owned, OtaInv
<1>12. Places'
  BY <1>3, <1>6, <1>7 DEF Places, UpgPlace, Waiting, OtaLabels
<1> QED
  BY <1>1, <1>10, <1>11, <1>12 DEF OtaInv

LEMMA InitInv ==
    ASSUME Init
    PROVE  OtaInv
<1>1. TypeInv
  BY InitTypes
<1>2. PICK v \in {NoVersion, 1} :
        fs = [txn |-> NoTxn, floor |-> NoVersion, current |-> v,
              rel |-> [r \in Versions |-> IF r = v THEN "complete" ELSE "absent"]]
  BY DEF Init, TxnInit, StoreInit
<1>3. /\ fs.txn = NoTxn /\ fs.current = v /\ may.txn = {NoTxn} /\ may.current = {v}
      /\ \A r \in Versions : may.rel[r] = {IF r = v THEN "complete" ELSE "absent"}
  BY <1>2 DEF Init, TxnInit, StoreInit
<1>4. Whole(v) /\ Clean(v, NoVersion)
  BY <1>3, VersionTypes DEF Whole, Clean, NoVersion
<1>5. Disk
  BY <1>3, <1>4 DEF Disk, Settled, Fits, NoTxn, Unconfirmed
<1>6. pc["ota"] = "idle" /\ pc["upg"] = "idle"
  BY DEF Init, TxnInit, Procs
<1>7. Phase("ota") /\ Phase("upg")
  BY <1>6, LoadPlace, Quiet DEF Phase
<1>8. Turns
  BY <1>6 DEF Turns, UpgBusy
<1>9. Places
  BY <1>6 DEF Places, OtaLabels, UpgLabels, RecoverLabels
<1> QED
  BY <1>1, <1>5, <1>7, <1>8, <1>9 DEF OtaInv

LEMMA NextInv ==
    ASSUME OtaInv, [Next]_vars, "orphan" \notin Faults
    PROVE  OtaInv'
<1>1. CASE StartRun
  BY <1>1, StartInv
<1>2. CASE NavBoot \/ UpgraderRestart \/ UpgraderPublish
  BY <1>2, NavBootInv, UpgraderRestartInv, UpgraderPublishInv
<1>3. CASE OtaRecovered \/ OtaFailed \/ OtaInstalled \/ OtaRequest
  BY <1>3, OtaRecoveredInv, OtaFailedInv, OtaInstalledInv, OtaRequestInv
<1>4. CASE OtaSwitchUpgrade \/ OtaWaitResult \/ OtaSwitchNormal \/ OtaSwitchedNormal
  BY <1>4, OtaSwitchUpgradeInv, OtaWaitResultInv, OtaSwitchNormalInv, OtaSwitchedNormalInv
<1>5. CASE OtaReexec \/ OtaWaitRuntime \/ OtaHealth \/ OtaConfirmed \/ OtaRolledBack
  BY <1>5, OtaReexecInv, OtaWaitRuntimeInv, OtaConfirmedInv, OtaRolledBackInv
<1>6. CASE Library("ota") \/ Library("upg")
  BY <1>6, OtaLibraryInv, UpgLibraryInv
<1>7. CASE Fault
  BY <1>7, PowerLossInv, KilledInv DEF Fault
<1>8. CASE UNCHANGED vars
  <2>1. TypeInv'
    BY NextTypes DEF OtaInv
  <2>2. Same /\ UpgTo(pc["upg"], loc["upg"]) /\ UNCHANGED <<job, request, result, nav>>
    BY <1>8 DEF vars, Same, UpgTo, To
  <2> QED
    BY <2>1, <2>2, StayInv
<1> QED
  BY <1>1, <1>2, <1>3, <1>4, <1>5, <1>6, <1>7, <1>8 DEF Next, OtaStep, UpgStep

-----------------------------------------------------------------------------

(* What the disk may hold, and where each process is in what it does to    *)
(* it, for as long as no safe-ota leaves an upgrader at work behind it.    *)
THEOREM OtaInvariant == "orphan" \notin Faults => (Spec => []OtaInv)
<1> SUFFICES ASSUME "orphan" \notin Faults PROVE Spec => []OtaInv
  OBVIOUS
<1>1. Init => OtaInv
  BY InitInv
<1>2. OtaInv /\ [Next]_vars => OtaInv'
  BY NextInv
<1> QED
  BY <1>1, <1>2, PTL DEF Spec

(* Whatever failed, whoever was killed and whenever the power went: the    *)
(* release RecoverInterruptedUpgrade leads back to is whole.               *)
THEOREM AlwaysRecoverable == "orphan" \notin Faults => (Spec => []Recoverable)
<1>1. OtaInv => Recoverable
  <2> SUFFICES ASSUME OtaInv, NEW t \in may.txn, NEW c \in may.current
               PROVE  /\ Home(t, c) \in Versions => may.rel[Home(t, c)] = {"complete"}
                      /\ t.state = "confirmed" => c = t.version
    BY DEF Recoverable
  <2>1. CASE Settled
    <3>1. c = fs.current /\ Whole(c) /\ Fits(t, c)
      BY <2>1 DEF Settled
    <3> QED
      BY <3>1 DEF Fits, Whole, Home, Unconfirmed, NoTxn
  <2>2. CASE Moving
    <3>1. /\ t.state \in Unconfirmed /\ t.prev = fs.txn.prev /\ Whole(t.prev)
      BY <2>2 DEF Moving, Txn
    <3> QED
      BY <3>1 DEF Whole, Home, Unconfirmed
  <2> QED
    BY <2>1, <2>2 DEF OtaInv, Disk
<1> QED
  BY <1>1, OtaInvariant, PTL

(* Once no transaction is left there is nothing half-copied, and nothing   *)
(* newer than the active release: the next install is not refused.         *)
THEOREM AlwaysRetryable == "orphan" \notin Faults => (Spec => []RetryPossible)
<1>1. OtaInv => RetryPossible
  <2> SUFFICES ASSUME OtaInv, NoTxn \in may.txn, NEW v \in Versions
               PROVE  /\ "partial" \notin may.rel[v]
                      /\ (\A c \in may.current : v > c) => may.rel[v] = {"absent"}
    BY DEF RetryPossible
  <2>1. Settled
    BY DEF OtaInv, Disk, Moving, Txn, NoTxn, Unconfirmed
  <2> QED
    BY <2>1, VersionTypes DEF Settled, Clean
<1> QED
  BY <1>1, OtaInvariant, PTL

(* A reported success is durable: no power loss takes back the release,    *)
(* the floor or the end of the transaction ConfirmUpgrade reported.        *)
THEOREM ReportedSuccessIsDurable == "orphan" \notin Faults => (Spec => []SuccessIsDurable)
<1>1. OtaInv => SuccessIsDurable
  BY DEF OtaInv, Phase, PhaseOf, ConfirmPhase, SuccessIsDurable
<1> QED
  BY <1>1, OtaInvariant, PTL

-----------------------------------------------------------------------------
(* The version floor, where calls fail and the power goes but no sync      *)
(* fails and no process is killed.                                         *)

Shrinks ==
    /\ may'.txn \subseteq may.txn /\ may'.current \subseteq may.current
    /\ may'.floor \subseteq may.floor

LEMMA FloorShrinks ==
    ASSUME FloorInv, Shrinks,
           pc["ota"] = "c_savesync" => pc'["ota"] = "c_savesync" \/ \E t : may'.txn = {t}
    PROVE  FloorInv'
<1>1. NotBelowFloor'
  BY DEF FloorInv, NotBelowFloor, Shrinks, Home
<1>2. ASSUME NEW t \in may'.txn, NEW u \in may'.txn,
             t.state = "confirmed", u.state \in Unconfirmed
      PROVE  pc'["ota"] = "c_savesync" \/ u.prev = t.version
  <2>1. t # u
    BY <1>2 DEF Unconfirmed
  <2> QED
    BY <1>2, <2>1 DEF FloorInv, Shrinks
<1> QED
  BY <1>1, <1>2 DEF FloorInv

LEMMA WritesShrink ==
    ASSUME TypeInv
    PROVE  /\ Same => Shrinks
           /\ SyncRun \/ SyncData \/ SyncRoot \/ SyncReleases => Shrinks
           /\ \A v \in Versions, s \in ReleaseState : PutRelease(v, s) => Shrinks
           /\ LosePower => Shrinks
<1>0. StoreInv
  BY DEF TypeInv
<1>1. Same => Shrinks
  BY DEF Same, Shrinks
<1>2. SyncRun \/ SyncData \/ SyncRoot \/ SyncReleases => Shrinks
  BY <1>0, FactsOfDisk, SyncRunStore, SyncDataStore, SyncRootStore, SyncReleasesStore
     DEF Shrinks
<1>3. ASSUME NEW v \in Versions, NEW s \in ReleaseState, PutRelease(v, s) PROVE Shrinks
  BY <1>0, <1>3, PutReleaseStore DEF Shrinks
<1>4. LosePower => Shrinks
  BY <1>0, LosePowerStore DEF Shrinks
<1> QED
  BY <1>1, <1>2, <1>3, <1>4

(* The floor rises to v, and every place a device may end up at is v.      *)
LEMMA FloorRises ==
    ASSUME TypeInv, FloorInv, NEW v \in MaybeVersion, PutFloor(v),
           \A t \in may.txn, c \in may.current : Home(t, c) = v,
           pc["ota"] # "c_savesync"
    PROVE  FloorInv'
<1>1. /\ may'.txn = may.txn /\ may'.current = may.current
      /\ may'.floor = may.floor \cup {v} /\ v >= v
  BY PutFloorStore, VersionTypes DEF TypeInv
<1>2. NotBelowFloor'
  BY <1>1 DEF FloorInv, NotBelowFloor, Home
<1> QED
  BY <1>1, <1>2 DEF FloorInv

(* Another transaction may be found.                                       *)
LEMMA TxnAdded ==
    ASSUME TypeInv, FloorInv, NEW n \in Txns, PutTxn(n),
           \A c \in may.current, f \in may.floor : Home(n, c) >= f,
           \/ pc'["ota"] = "c_savesync"
           \/ /\ pc["ota"] # "c_savesync" /\ n.state # "confirmed"
              /\ n.state \in Unconfirmed =>
                   \A t \in may.txn : t.state = "confirmed" => n.prev = t.version
    PROVE  FloorInv'
<1>1. /\ may'.txn = may.txn \cup {n} /\ may'.current = may.current
      /\ may'.floor = may.floor
  BY PutTxnStore DEF TypeInv
<1>2. NotBelowFloor'
  BY <1>1 DEF FloorInv, NotBelowFloor, Home
<1>3. ASSUME NEW t \in may'.txn, NEW u \in may'.txn,
             t.state = "confirmed", u.state \in Unconfirmed
      PROVE  pc'["ota"] = "c_savesync" \/ u.prev = t.version
  BY <1>1, <1>3 DEF FloorInv
<1> QED
  BY <1>2, <1>3 DEF FloorInv

(* Another `current' may be found.                                         *)
LEMMA CurrentAdded ==
    ASSUME TypeInv, FloorInv, NEW v \in MaybeVersion, PutCurrent(v),
           \A t \in may.txn, f \in may.floor : Home(t, v) >= f,
           pc["ota"] # "c_savesync"
    PROVE  FloorInv'
<1>1. /\ may'.txn = may.txn /\ may'.current = may.current \cup {v}
      /\ may'.floor = may.floor
  BY PutCurrentStore DEF TypeInv
<1>2. NotBelowFloor'
  BY <1>1 DEF FloorInv, NotBelowFloor, Home
<1> QED
  BY <1>1, <1>2 DEF FloorInv

(* Where no one is between the confirmation and its sync.                  *)
LEMMA NotSaving ==
    ASSUME OtaInv, NEW p \in Procs, Library(p), pc[p] # "c_savesync"
    PROVE  pc["ota"] # "c_savesync"
<1>1. CASE p = "upg"
  <2>1. pc["upg"] \in InstallLabels \cup RecoverLabels \cup ConfirmLabels
    BY <1>1, LibraryAt DEF Library
  <2>2. UpgBusy
    BY <2>1 DEF UpgBusy, InstallLabels, RecoverLabels, ConfirmLabels
  <2> QED
    BY <2>2 DEF OtaInv, Turns, Waiting
<1> QED
  BY <1>1 DEF Procs

LEMMA StillFloor ==
    ASSUME OtaInv, FloorInv, pc["ota"] # "c_savesync",
           \/ Same \/ SyncRun \/ SyncData \/ SyncRoot \/ SyncReleases \/ LosePower
           \/ \E v \in Versions, s \in ReleaseState : PutRelease(v, s)
    PROVE  FloorInv'
BY WritesShrink, FloorShrinks DEF OtaInv

(* An interrupted confirmation is completed: its release is the only place *)
(* left to end up at.                                                      *)
LEMMA ConfirmedHome ==
    ASSUME OtaInv, FloorInv, pc["ota"] # "c_savesync", fs.txn.state = "confirmed",
           NEW t \in may.txn, NEW c \in may.current
    PROVE  Home(t, c) = fs.txn.version
<1>1. Settled
  BY DEF OtaInv, Disk, Moving, Unconfirmed
<1>2. fs.txn \in may.txn /\ t \in Txns /\ fs.txn # NoTxn
  BY FactsOfDisk DEF OtaInv, NoTxn
<1>3. c = fs.current /\ fs.txn.version = fs.current
  BY <1>1, <1>2 DEF Settled, Fits, Unconfirmed
<1>4. t.state \in Unconfirmed => t.prev = fs.txn.version
  BY <1>2 DEF FloorInv
<1> QED
  BY <1>3, <1>4 DEF Home, Unconfirmed

LEMMA RecoverFloorInv ==
    ASSUME OtaInv, FloorInv, NEW p \in Procs, Library(p), Recover(p)
    PROVE  FloorInv'
<1>0. TypeInv /\ Phase(p)
  BY DEF OtaInv, Procs
<1>1. pc[p] \in RecoverLabels
  BY DEF Recover, RecoverLabels, RecoverLoad, RecoverFloor, RecoverFloorSync, RollbackRead,
      RollbackLink, RollbackRemove, RollbackSyncRoot, RollbackSyncReleases,
      RecoverRemoveCandidate, RecoverSyncCandidate, RecoverRemoveTxn, RecoverSyncRun
<1>2. pc["ota"] # "c_savesync"
  BY <1>1, NotSaving DEF RecoverLabels
<1>3. FailsTo(p) => FloorInv'
  BY <1>2, StillFloor DEF FailsTo
<1>4. CASE RecoverLoad(p) \/ RollbackRead(p)
  BY <1>0, <1>2, <1>4, RecoverLoadStep, RollbackReadStep, StillFloor
<1>5. CASE RecoverFloor(p)
  <2>1. fs.txn.state = "confirmed" /\ loc[p].txn = fs.txn
    BY <1>0, <1>5 DEF RecoverFloor, Phase, PhaseOf, RecoverPhase
  <2>2. fs.txn.version \in MaybeVersion
    BY <1>0, FactsOfDisk, TxnTypes
  <2>3. PutFloor(fs.txn.version) => FloorInv'
    BY <1>0, <1>2, <2>1, <2>2, ConfirmedHome, FloorRises
  <2> QED
    BY <1>0, <1>2, <1>3, <1>5, <2>1, <2>3, RecoverFloorStep, StillFloor
<1>6. CASE RecoverFloorSync(p) \/ RollbackSyncRoot(p) \/ RollbackSyncReleases(p)
             \/ RecoverSyncCandidate(p) \/ RecoverSyncRun(p)
  BY <1>0, <1>2, <1>3, <1>6, RecoverFloorSyncStep, RollbackSyncRootStep,
     RollbackSyncReleasesStep, RecoverSyncCandidateStep, RecoverSyncRunStep, StillFloor
<1>7. CASE RollbackLink(p)
  <2>1. PICK u \in Txns : u = fs.txn
    BY <1>0, FactsOfDisk
  <2>2. u.state \in Unconfirmed /\ loc[p].txn = u /\ u \in may.txn /\ u.prev \in MaybeVersion
    BY <1>0, <1>7, <2>1, FactsOfDisk, TxnTypes DEF RollbackLink, Phase, PhaseOf, RecoverPhase,
       Rolling
  <2>3. ASSUME NEW t \in may.txn, NEW f \in may.floor PROVE Home(t, u.prev) >= f
    <3>1. PICK c \in may.current : c = fs.current
      BY <1>0, FactsOfDisk
    <3>2. Home(t, c) >= f /\ Home(u, c) >= f
      BY <2>2 DEF FloorInv, NotBelowFloor
    <3> QED
      BY <2>2, <3>2 DEF Home, Unconfirmed
  <2>4. PutCurrent(u.prev) => FloorInv'
    BY <1>0, <1>2, <2>2, <2>3, CurrentAdded
  <2> QED
    BY <1>0, <1>3, <1>7, <2>2, <2>4, RollbackLinkStep
<1>8. CASE RollbackRemove(p) \/ RecoverRemoveCandidate(p)
  <2>1. \A v \in Versions : \A l : Removes(p, v, l) => FloorInv'
    BY <1>2, StillFloor DEF Removes, ReleaseState
  <2>2. loc[p].txn.version \in Versions
    BY <1>0, <1>1, <1>8, LoadedTypes DEF RollbackRemove, RecoverRemoveCandidate
  <2> QED
    BY <1>0, <1>2, <1>3, <1>8, <2>1, <2>2, RollbackRemoveStep, RecoverRemoveCandidateStep,
       StillFloor
<1>9. CASE RecoverRemoveTxn(p)
  <2>1. PICK u \in Txns : u = fs.txn
    BY <1>0, FactsOfDisk
  <2>2. /\ u \in may.txn /\ u # NoTxn
        /\ u.state \in Unconfirmed => may.current = {u.prev}
    BY <1>0, <1>9, <2>1, FactsOfDisk DEF RecoverRemoveTxn, Phase, PhaseOf, RecoverPhase
  <2>3. ASSUME NEW c \in may.current, NEW f \in may.floor PROVE Home(NoTxn, c) >= f
    <3>1. Home(u, c) >= f
      BY <2>2 DEF FloorInv, NotBelowFloor
    <3> QED
      BY <2>2, <3>1 DEF Home, Unconfirmed, NoTxn
  <2>4. PutTxn(NoTxn) => FloorInv'
    BY <1>0, <1>2, <2>3, TxnTypes, TxnAdded DEF NoTxn, Unconfirmed
  <2> QED
    BY <1>0, <1>3, <1>9, <2>4, RecoverRemoveTxnStep
<1> QED
  BY <1>4, <1>5, <1>6, <1>7, <1>8, <1>9 DEF Recover

LEMMA InstallFloorInv ==
    ASSUME OtaInv, FloorInv, NEW p \in Procs, Library(p), InstallUpgrade(p)
    PROVE  FloorInv'
<1>0. TypeInv /\ Phase(p)
  BY DEF OtaInv, Procs
<1>1. pc[p] \in InstallLabels
  BY DEF InstallUpgrade, InstallLabels, InstallCheck, InstallPrepare, InstallPrepareSync,
      InstallerFails, InstallMkdir, InstallCopy, InstallLink, InstallSync, InstallVerify,
      InstallActivate, InstallActivateSync
<1>2. pc["ota"] # "c_savesync"
  BY <1>1, NotSaving DEF InstallLabels
<1>3. CallsTo(p, "i_fail") => FloorInv'
  BY <1>2, StillFloor DEF CallsTo
<1>4. CASE InstallCheck(p) \/ InstallPrepareSync(p) \/ InstallerFails(p) \/ InstallVerify(p)
             \/ InstallActivateSync(p)
  BY <1>0, <1>2, <1>3, <1>4, InstallCheckStep, InstallPrepareSyncStep, InstallerFailsStep,
     InstallVerifyStep, InstallActivateSyncStep, StillFloor
<1>5. CASE InstallMkdir(p)
  <2>1. loc[p].ver \in Versions /\ "partial" \in ReleaseState
    BY <1>0, <1>1, <1>5, InstallTypes DEF InstallMkdir, ReleaseState
  <2> QED
    BY <1>0, <1>2, <1>5, <2>1, InstallMkdirStep, StillFloor
<1>6. CASE InstallCopy(p) \/ InstallSync(p)
  <2>1. may'.txn = {fs.txn} /\ may'.floor = {fs.floor} /\ may'.current = {fs.current}
    BY <1>0, <1>6, InstallCopyStep, InstallSyncStep
  <2>2. Shrinks
    BY <1>0, <2>1, FactsOfDisk DEF Shrinks
  <2> QED
    BY <1>2, <2>2, FloorShrinks
<1>7. CASE InstallPrepare(p)
  <2>1. PICK x : x = loc[p]
    OBVIOUS
  <2>2. /\ x.ver \in Versions /\ x.prev \in MaybeVersion /\ x.prev < x.ver
        /\ fs.current = x.prev /\ Owned(x.ver) /\ (fs.txn # NoTxn => fs.txn.prev = x.prev)
    BY <1>0, <1>1, <1>7, <2>1, InstallTypes
       DEF InstallPrepare, Phase, PhaseOf, InstallPhase, InstallLabels
  <2>3. PICK n \in Txns : n = Txn("prepared", x.ver, x.prev)
    BY <2>2, TxnTypes DEF TransactionState
  <2>4. n.prev = x.prev /\ n.state = "prepared"
    BY <2>3 DEF Txn
  <2>5. PICK u \in Txns : u = fs.txn /\ u \in may.txn /\ fs.current \in may.current
    BY <1>0, FactsOfDisk
  <2>6. ASSUME NEW c \in may.current, NEW f \in may.floor PROVE Home(n, c) >= f
    <3>1. Home(u, fs.current) >= f
      BY <2>5 DEF FloorInv, NotBelowFloor
    <3>2. Home(u, fs.current) = x.prev
      BY <2>2, <2>5 DEF Owned, Home, NoTxn, Unconfirmed
    <3> QED
      BY <2>4, <3>1, <3>2 DEF Home
  <2>7. ASSUME NEW t \in may.txn, t.state = "confirmed" PROVE n.prev = t.version
    <3>1. Settled
      BY <2>7 DEF OtaInv, Disk, Moving, Unconfirmed, Txn
    <3> QED
      BY <2>2, <2>4, <2>7, <3>1 DEF Settled, Fits, Unconfirmed, NoTxn
  <2>8. PutTxn(n) => FloorInv'
    BY <1>0, <1>2, <2>4, <2>6, <2>7, TxnAdded
  <2> QED
    BY <1>0, <1>2, <1>7, <2>1, <2>3, <2>8, InstallPrepareStep, StillFloor
<1>8. CASE InstallLink(p)
  <2>1. PICK x : x = loc[p]
    OBVIOUS
  <2>2. x.ver \in MaybeVersion /\ fs.txn = Txn("prepared", x.ver, x.prev) /\ may.txn = {fs.txn}
    BY <1>0, <1>1, <1>8, <2>1, InstallTypes, VersionTypes
       DEF InstallLink, Phase, PhaseOf, InstallPhase, InstallLabels
  <2>3. ASSUME NEW t \in may.txn, NEW f \in may.floor PROVE Home(t, x.ver) >= f
    <3>1. PICK c \in may.current : c = fs.current
      BY <1>0, FactsOfDisk
    <3>2. Home(t, c) >= f /\ t.state = "prepared"
      BY <2>2 DEF FloorInv, NotBelowFloor, Txn
    <3> QED
      BY <3>2 DEF Home
  <2>4. PutCurrent(x.ver) => FloorInv'
    BY <1>0, <1>2, <2>2, <2>3, CurrentAdded
  <2> QED
    BY <1>0, <1>8, <2>1, <2>4, InstallLinkStep
<1>9. CASE InstallActivate(p)
  <2>1. PICK x : x = loc[p]
    OBVIOUS
  <2>2. /\ x.ver \in Versions /\ x.prev \in MaybeVersion
        /\ fs.txn = Txn("prepared", x.ver, x.prev) /\ may.txn = {fs.txn}
    BY <1>0, <1>1, <1>9, <2>1, InstallTypes
       DEF InstallActivate, Phase, PhaseOf, InstallPhase, InstallLabels
  <2>3. PICK n \in Txns : n = Txn("activated", x.ver, x.prev)
    BY <2>2, TxnTypes DEF TransactionState
  <2>4. n.prev = x.prev /\ n.state = "activated"
    BY <2>3 DEF Txn
  <2>5. fs.txn.prev = x.prev /\ fs.txn.state = "prepared" /\ fs.txn \in may.txn
    BY <2>2 DEF Txn
  <2>6. ASSUME NEW c \in may.current, NEW f \in may.floor PROVE Home(n, c) >= f
    <3>1. Home(fs.txn, c) >= f
      BY <2>5 DEF FloorInv, NotBelowFloor
    <3> QED
      BY <2>4, <2>5, <3>1 DEF Home
  <2>7. PutTxn(n) => FloorInv'
    BY <1>0, <1>2, <2>2, <2>4, <2>5, <2>6, TxnAdded
  <2> QED
    BY <1>0, <1>3, <1>9, <2>1, <2>3, <2>7, InstallActivateStep
<1> QED
  BY <1>4, <1>5, <1>6, <1>7, <1>8, <1>9 DEF InstallUpgrade

LEMMA ConfirmFloorInv ==
    ASSUME OtaInv, FloorInv, "sync" \notin Faults, NEW p \in Procs, Library(p),
           ConfirmUpgrade(p)
    PROVE  FloorInv'
<1>0. TypeInv /\ Phase(p) /\ p \in DOMAIN pc
  BY DEF OtaInv, TypeInv, Shape, Procs
<1>1. pc[p] \in ConfirmLabels
  BY DEF ConfirmUpgrade, ConfirmLabels, ConfirmLoad, ConfirmSave, ConfirmSaveSync,
      ConfirmFloor, ConfirmFloorSync, ConfirmRemoveTxn, ConfirmSyncRun
<1>2. pc[p] # "c_savesync" => pc["ota"] # "c_savesync"
  BY NotSaving
<1>3. ConfirmFails(p) /\ pc[p] # "c_savesync" => FloorInv'
  BY <1>2, StillFloor DEF ConfirmFails
<1>4. CASE ConfirmLoad(p)
  BY <1>0, <1>2, <1>3, <1>4, ConfirmLoadStep, StillFloor DEF ConfirmLoad
<1>5. CASE ConfirmSave(p)
  <2>1. p = "ota"
    BY <1>1 DEF OtaInv, Places, Procs, UpgLabels, InstallLabels, RecoverLabels, ConfirmLabels
  <2>2. PICK x : x = loc["ota"] /\ x.txn \in Txns
    BY DEF OtaInv, TypeInv, Shape, Typed, Locals, Procs
  <2>3. PICK u \in Txns : u = fs.txn /\ u \in may.txn /\ u # NoTxn
    BY <1>0, <1>5, <2>1, FactsOfDisk DEF ConfirmSave, Phase, PhaseOf, ConfirmPhase, Activated, NoTxn
  <2>4. /\ u.state = "activated" /\ u.version = x.ver /\ may.current = {x.ver}
        /\ x.txn = Txn("confirmed", x.ver, u.prev)
    BY <1>0, <1>5, <2>1, <2>2, <2>3 DEF ConfirmSave, Phase, PhaseOf, ConfirmPhase, Activated
  <2>5. x.txn.state = "confirmed" /\ x.txn.version = x.ver
    BY <2>4 DEF Txn
  <2>6. u.prev < u.version
    BY <2>3, <2>4 DEF OtaInv, Disk, Settled, Moving, Fits
  <2>7. ASSUME NEW c \in may.current, NEW f \in may.floor PROVE Home(x.txn, c) >= f
    <3>1. Home(u, c) >= f
      BY <2>3 DEF FloorInv, NotBelowFloor
    <3>2. u.prev >= f /\ c = u.version
      BY <2>4, <3>1 DEF Home
    <3>3. f \in Int /\ u.prev \in Int /\ u.version \in Int
      BY <1>0, FactsOfDisk, TxnTypes, VersionTypes DEF TypeInv, StoreInv, StoreTypeOK
    <3>4. c >= f
      BY <2>6, <3>2, <3>3
    <3> QED
      BY <2>5, <3>4 DEF Home
  <2>8. PutTxn(x.txn) /\ pc'["ota"] = "c_savesync" => FloorInv'
    BY <1>0, <2>2, <2>7, TxnAdded
  <2>9. Goes(p, "c_savesync") => pc'["ota"] = "c_savesync"
    BY <1>0, <2>1 DEF Goes, Went, StepTo
  <2> QED
    BY <1>0, <1>3, <1>5, <2>1, <2>2, <2>8, <2>9, ConfirmSaveStep DEF ConfirmSave
<1>6. CASE ConfirmSaveSync(p)
  <2>1. SyncRun
    BY <1>6 DEF ConfirmSaveSync
  <2>2. Shrinks /\ \E t : may'.txn = {t}
    BY <1>0, <2>1, WritesShrink, SyncRunStore DEF TypeInv
  <2> QED
    BY <2>2, FloorShrinks
<1>7. CASE ConfirmFloor(p)
  <2>1. PICK x : x = loc[p]
    OBVIOUS
  <2>2. /\ fs.txn.state = "confirmed" /\ x.txn = fs.txn /\ pc["ota"] # "c_savesync"
        /\ fs.txn.version \in MaybeVersion
    BY <1>0, <1>2, <1>7, <2>1, FactsOfDisk, TxnTypes
       DEF ConfirmFloor, Phase, PhaseOf, ConfirmPhase
  <2>3. PutFloor(fs.txn.version) => FloorInv'
    BY <1>0, <2>2, ConfirmedHome, FloorRises
  <2> QED
    BY <1>0, <1>3, <1>7, <2>1, <2>2, <2>3, ConfirmFloorStep, StillFloor DEF ConfirmFloor
<1>8. CASE ConfirmFloorSync(p) \/ ConfirmSyncRun(p)
  BY <1>0, <1>2, <1>3, <1>8, ConfirmFloorSyncStep, ConfirmSyncRunStep, StillFloor
     DEF ConfirmFloorSync, ConfirmSyncRun
<1>9. CASE ConfirmRemoveTxn(p)
  <2>1. fs.txn.state = "confirmed" /\ fs.txn \in may.txn /\ pc["ota"] # "c_savesync"
    BY <1>0, <1>2, <1>9, FactsOfDisk DEF ConfirmRemoveTxn, Phase, PhaseOf, ConfirmPhase
  <2>2. ASSUME NEW c \in may.current, NEW f \in may.floor PROVE Home(NoTxn, c) >= f
    <3>1. Home(fs.txn, c) >= f
      BY <2>1 DEF FloorInv, NotBelowFloor
    <3> QED
      BY <2>1, <3>1 DEF Home, NoTxn
  <2>3. PutTxn(NoTxn) => FloorInv'
    BY <1>0, <2>1, <2>2, TxnTypes, TxnAdded DEF NoTxn, Unconfirmed
  <2> QED
    BY <1>0, <1>3, <1>9, <2>3, ConfirmRemoveTxnStep DEF ConfirmRemoveTxn
<1> QED
  BY <1>4, <1>5, <1>6, <1>7, <1>8, <1>9 DEF ConfirmUpgrade

LEMMA NextFloor ==
    ASSUME OtaInv, FloorInv, [Next]_vars, Faults \subseteq {"io", "power"}
    PROVE  FloorInv'
<1>0. TypeInv /\ "orphan" \notin Faults /\ "sync" \notin Faults /\ "kill" \notin Faults
  BY DEF OtaInv
<1>1. Same /\ pc["ota"] # "c_savesync" => FloorInv'
  BY StillFloor
<1>2. CASE StartRun
  BY <1>1, <1>2 DEF StartRun, Start, Same
<1>3. CASE NavBoot \/ UpgraderRestart \/ UpgraderPublish \/ UNCHANGED vars
  <2>1. Same /\ pc'["ota"] = pc["ota"]
    <3>1. CASE NavBoot
      BY <1>0, <3>1, NavBootStep DEF UpgTo, To
    <3>2. CASE UpgraderRestart
      BY <1>0, <3>2, UpgraderRestartStep DEF UpgTo, To
    <3>3. CASE UpgraderPublish
      BY <1>0, <3>3, UpgraderPublishStep DEF UpgTo, To
    <3>4. CASE UNCHANGED vars
      BY <3>4 DEF vars, Same
    <3> QED
      BY <1>3, <3>1, <3>2, <3>3, <3>4
  <2> QED
    BY <1>0, <2>1, WritesShrink, FloorShrinks
<1>4. CASE OtaRecovered \/ OtaFailed \/ OtaInstalled \/ OtaRequest
  BY <1>0, <1>1, <1>4, OtaRecoveredStep, OtaFailedStep, OtaInstalledStep, OtaRequestStep
     DEF OtaRecovered, OtaFailed, OtaInstalled, OtaRequest
<1>5. CASE OtaSwitchUpgrade \/ OtaWaitResult \/ OtaSwitchNormal \/ OtaSwitchedNormal
  BY <1>0, <1>1, <1>5, OtaSwitchUpgradeStep, OtaWaitResultStep, OtaSwitchNormalStep,
     OtaSwitchedNormalStep
     DEF OtaSwitchUpgrade, OtaWaitResult, OtaSwitchNormal, OtaSwitchedNormal
<1>6. CASE OtaReexec \/ OtaWaitRuntime \/ OtaHealth \/ OtaConfirmed \/ OtaRolledBack
  BY <1>0, <1>1, <1>6, OtaReexecStep, OtaWaitRuntimeStep, OtaHealthStep, OtaConfirmedStep,
     OtaRolledBackStep
     DEF OtaReexec, OtaWaitRuntime, OtaHealth, OtaConfirmed, OtaRolledBack
<1>7. ASSUME NEW p \in Procs, Library(p) PROVE FloorInv'
  BY <1>0, <1>7, RecoverFloorInv, InstallFloorInv, ConfirmFloorInv DEF Library, TxnNext
<1>8. CASE Fault
  <2>1. PowerLoss
    BY <1>0, <1>8 DEF Fault, OtaKilled, UpgraderKilled, NavKilled, Kill
  <2>2. LosePower
    BY <2>1 DEF PowerLoss
  <2>3. Shrinks /\ \E t : may'.txn = {t}
    BY <1>0, <2>2, WritesShrink, LosePowerStore DEF TypeInv
  <2> QED
    BY <2>3, FloorShrinks
<1> QED
  BY <1>2, <1>3, <1>4, <1>5, <1>6, <1>7, <1>8 DEF Next, OtaStep, UpgStep, Procs

(* Anti-rollback: where calls may fail and the power go at any instant,    *)
(* but no sync fails and no process is killed in between, no image of the  *)
(* disk leads to a release older than the floor it holds.                  *)
THEOREM NeverBelowFloor == Faults \subseteq {"io", "power"} => (Spec => []NotBelowFloor)
<1> SUFFICES ASSUME Faults \subseteq {"io", "power"} PROVE Spec => []NotBelowFloor
  OBVIOUS
<1>1. "orphan" \notin Faults
  OBVIOUS
<1>2. Init => FloorInv
  <2> SUFFICES ASSUME Init PROVE FloorInv
    OBVIOUS
  <2>1. /\ may.txn = {NoTxn} /\ may.floor = {NoVersion}
        /\ \A c \in may.current : c \in {NoVersion, 1}
    BY DEF Init, TxnInit, StoreInit
  <2> QED
    BY <2>1 DEF FloorInv, NotBelowFloor, Home, NoTxn, NoVersion, Unconfirmed
<1>3. OtaInv /\ FloorInv /\ [Next]_vars => FloorInv'
  BY NextFloor
<1>4. FloorInv => NotBelowFloor
  BY DEF FloorInv
<1>5. Spec => []OtaInv
  BY <1>1, OtaInvariant
<1> QED
  BY <1>2, <1>3, <1>4, <1>5, PTL DEF Spec
=============================================================================
