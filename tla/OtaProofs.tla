----------------------------- MODULE OtaProofs ------------------------------
(***************************************************************************)
(* What holds of safe-ota, the upgrader and the install root for any       *)
(* number of versions and of kills, whatever image a power loss leaves.    *)
(***************************************************************************)
EXTENDS SafeOta, TLAPS

-----------------------------------------------------------------------------
(* The types, for any faults.                                              *)

(* What is visible is among what may be found after a power loss.          *)
Visible ==
    /\ fs.txn \in may.txn /\ fs.floor \in may.floor /\ fs.current \in may.current
    /\ \A v \in Versions : fs.rel[v] \in may.rel[v]

(* A recovery knows where it returns to and has a transaction once it has  *)
(* loaded one; an install that passed its checks has a version.            *)
Typed(l, x) ==
    /\ l \in Labels /\ x \in Locals
    /\ l \in RecoverLabels => x.ret \in RecoverReturns
    /\ l \in RecoverLabels \ {"r_load"} => x.txn # NoTxn
    /\ l \in InstallLabels \ {"i_check"} => x.ver \in Versions

StoreInv == StoreTypeOK /\ Visible
OrchTypeOK ==
    /\ kills \in 0 .. MaxKills /\ job \in Jobs /\ request \in MaybeVersion
    /\ result \in Results /\ nav \in [mode : NavModes, exe : MaybeVersion]
Shape ==
    /\ DOMAIN pc = Procs /\ DOMAIN loc = Procs
    /\ pc = [p \in Procs |-> pc[p]] /\ loc = [p \in Procs |-> loc[p]]
    /\ \A p \in Procs : Typed(pc[p], loc[p])
TypeInv == StoreInv /\ OrchTypeOK /\ Shape

-----------------------------------------------------------------------------
(* Proofs: the store keeps its types, and what is visible may be found.    *)

LEMMA VersionTypes ==
    /\ \A v \in MaybeVersion : v \in Int /\ v >= 0
    /\ \A v \in MaybeVersion : v > 0 => v \in Versions
    /\ Versions \subseteq MaybeVersion /\ NoVersion \in MaybeVersion /\ NoVersion \notin Versions
    /\ \A v \in Versions : v \in Nat /\ v > 0
BY MaxVersionAssumption DEF Versions, MaybeVersion, NoVersion

LEMMA TxnTypes ==
    /\ NoTxn \in Txns
    /\ \A s \in TransactionState, v \in Versions, q \in MaybeVersion :
          Txn(s, v, q) \in Txns /\ Txn(s, v, q) # NoTxn
    /\ \A t \in Txns : t.version \in MaybeVersion /\ t.prev \in MaybeVersion
    /\ \A t \in Txns : t # NoTxn => t.version \in Versions /\ t.state \in TransactionState
    /\ NoTxn.state = "none"
<1>1. \A s \in TransactionState : s # "none"
  BY DEF TransactionState
<1> QED
  BY <1>1, VersionTypes DEF Txns, Txn, NoTxn

LEMMA PutTxnStore ==
    ASSUME StoreInv, NEW t \in Txns, PutTxn(t)
    PROVE  /\ StoreInv' /\ fs'.txn = t /\ may'.txn = may.txn \cup {t}
           /\ fs'.floor = fs.floor /\ fs'.current = fs.current /\ fs'.rel = fs.rel
           /\ may'.floor = may.floor /\ may'.current = may.current /\ may'.rel = may.rel
BY DEF StoreInv, StoreTypeOK, Visible, PutTxn

LEMMA PutFloorStore ==
    ASSUME StoreInv, NEW v \in MaybeVersion, PutFloor(v)
    PROVE  /\ StoreInv' /\ fs'.floor = v /\ may'.floor = may.floor \cup {v}
           /\ fs'.txn = fs.txn /\ fs'.current = fs.current /\ fs'.rel = fs.rel
           /\ may'.txn = may.txn /\ may'.current = may.current /\ may'.rel = may.rel
BY DEF StoreInv, StoreTypeOK, Visible, PutFloor

LEMMA PutCurrentStore ==
    ASSUME StoreInv, NEW v \in MaybeVersion, PutCurrent(v)
    PROVE  /\ StoreInv' /\ fs'.current = v /\ may'.current = may.current \cup {v}
           /\ fs'.txn = fs.txn /\ fs'.floor = fs.floor /\ fs'.rel = fs.rel
           /\ may'.txn = may.txn /\ may'.floor = may.floor /\ may'.rel = may.rel
BY DEF StoreInv, StoreTypeOK, Visible, PutCurrent

LEMMA PutReleaseStore ==
    ASSUME StoreInv, NEW v \in Versions, NEW s \in ReleaseState, PutRelease(v, s)
    PROVE  /\ StoreInv'
           /\ fs'.rel = [fs.rel EXCEPT ![v] = s]
           /\ may'.rel = [may.rel EXCEPT ![v] = may.rel[v] \cup {s}]
           /\ fs'.txn = fs.txn /\ fs'.floor = fs.floor /\ fs'.current = fs.current
           /\ may'.txn = may.txn /\ may'.floor = may.floor /\ may'.current = may.current
BY DEF StoreInv, StoreTypeOK, Visible, PutRelease

LEMMA SyncRunStore ==
    ASSUME StoreInv, SyncRun
    PROVE  /\ StoreInv' /\ fs' = fs /\ may'.txn = {fs.txn}
           /\ may'.floor = may.floor /\ may'.current = may.current /\ may'.rel = may.rel
BY DEF StoreInv, StoreTypeOK, Visible, SyncRun

LEMMA SyncDataStore ==
    ASSUME StoreInv, SyncData
    PROVE  /\ StoreInv' /\ fs' = fs /\ may'.floor = {fs.floor}
           /\ may'.txn = may.txn /\ may'.current = may.current /\ may'.rel = may.rel
BY DEF StoreInv, StoreTypeOK, Visible, SyncData

LEMMA SyncRootStore ==
    ASSUME StoreInv, SyncRoot
    PROVE  /\ StoreInv' /\ fs' = fs /\ may'.current = {fs.current}
           /\ may'.txn = may.txn /\ may'.floor = may.floor /\ may'.rel = may.rel
BY DEF StoreInv, StoreTypeOK, Visible, SyncRoot

LEMMA SyncReleasesStore ==
    ASSUME StoreInv, SyncReleases
    PROVE  /\ StoreInv' /\ fs' = fs /\ may'.rel = [r \in Versions |-> {fs.rel[r]}]
           /\ may'.txn = may.txn /\ may'.floor = may.floor /\ may'.current = may.current
BY DEF StoreInv, StoreTypeOK, Visible, SyncReleases

(* sync -f, after the file system came to what it is.                      *)
LEMMA SyncAllStore ==
    ASSUME fs' \in [txn : Txns, floor : MaybeVersion, current : MaybeVersion,
                    rel : [Versions -> ReleaseState]],
           SyncAll(fs')
    PROVE  /\ StoreInv'
           /\ may'.txn = {fs'.txn} /\ may'.floor = {fs'.floor}
           /\ may'.current = {fs'.current}
           /\ may'.rel = [r \in Versions |-> {fs'.rel[r]}]
BY DEF StoreInv, StoreTypeOK, Visible, SyncAll

LEMMA LosePowerStore ==
    ASSUME StoreInv, LosePower
    PROVE  /\ StoreInv'
           /\ fs'.txn \in may.txn /\ fs'.floor \in may.floor /\ fs'.current \in may.current
           /\ \A v \in Versions : fs'.rel[v] \in may.rel[v]
           /\ may'.txn = {fs'.txn} /\ may'.floor = {fs'.floor}
           /\ may'.current = {fs'.current}
           /\ may'.rel = [r \in Versions |-> {fs'.rel[r]}]
<1>1. PICK t \in may.txn, f \in may.floor, c \in may.current, r \in [Versions -> ReleaseState] :
        /\ \A v \in Versions : r[v] \in may.rel[v]
        /\ fs' = [txn |-> t, floor |-> f, current |-> c, rel |-> r]
  BY DEF LosePower
<1>2. t \in Txns /\ f \in MaybeVersion /\ c \in MaybeVersion
  BY DEF StoreInv, StoreTypeOK
<1>3. fs' \in [txn : Txns, floor : MaybeVersion, current : MaybeVersion,
               rel : [Versions -> ReleaseState]]
  BY <1>1, <1>2
<1> QED
  BY <1>1, <1>3, SyncAllStore DEF LosePower

-----------------------------------------------------------------------------
(* The processes keep their types.                                         *)

StepTo(p, l, x) == pc' = [pc EXCEPT ![p] = l] /\ loc' = [loc EXCEPT ![p] = x]

LEMMA ShapeKept ==
    ASSUME Shape, NEW p \in Procs, NEW l, NEW x, StepTo(p, l, x), Typed(l, x)
    PROVE  /\ Shape' /\ pc'[p] = l /\ loc'[p] = x
           /\ \A q \in Procs \ {p} : pc'[q] = pc[q] /\ loc'[q] = loc[q]
<1>1. /\ pc'[p] = l /\ loc'[p] = x
      /\ \A q \in Procs \ {p} : pc'[q] = pc[q] /\ loc'[q] = loc[q]
      /\ DOMAIN pc' = Procs /\ DOMAIN loc' = Procs
  BY DEF Shape, StepTo
<1>2. \A q \in Procs : Typed(pc'[q], loc'[q])
  BY <1>1 DEF Shape
<1>3. pc' = [q \in Procs |-> pc'[q]] /\ loc' = [q \in Procs |-> loc'[q]]
  BY DEF Shape, StepTo
<1> QED
  BY <1>1, <1>2, <1>3 DEF Shape

LEMMA Moves ==
    ASSUME Shape, NEW p \in Procs, NEW l, Goto(p, l), SameLoc
    PROVE  StepTo(p, l, loc[p])
BY DEF Shape, Goto, SameLoc, StepTo

LEMMA LabelTypes ==
    /\ RecoverLabels \subseteq Labels /\ InstallLabels \subseteq Labels
    /\ ConfirmLabels \subseteq Labels /\ ReturnLabels \subseteq Labels
    /\ RecoverReturns \subseteq Labels /\ OtaLabels \subseteq Labels /\ UpgLabels \subseteq Labels
    /\ \A l \in RecoverReturns \cup ConfirmLabels \cup ReturnLabels \cup OtaLabels \cup UpgLabels :
          l \notin RecoverLabels /\ l \notin InstallLabels
    /\ \A l \in InstallLabels : l \notin RecoverLabels
    /\ \A l \in RecoverReturns : RecoverFailed(l) \in RecoverReturns
BY DEF Labels, RecoverLabels, InstallLabels, ConfirmLabels, ReturnLabels, RecoverReturns,
       OtaLabels, UpgLabels, RecoverFailed

(* A recovery goes on, returns, or is called.                              *)
LEMMA RecoverGo ==
    ASSUME Shape, NEW p \in Procs, pc[p] \in RecoverLabels \ {"r_load"},
           NEW l \in RecoverLabels
    PROVE  Typed(l, loc[p])
BY LabelTypes DEF Shape, Typed

LEMMA RecoverEndGo ==
    ASSUME Shape, NEW p \in Procs, pc[p] \in RecoverLabels,
           NEW l \in {loc[p].ret, RecoverFailed(loc[p].ret)}, RecoverEnd(p, l)
    PROVE  \E x : /\ StepTo(p, l, x) /\ Typed(l, x) /\ l \in RecoverReturns
                  /\ x.ver = loc[p].ver
<1> DEFINE x == [loc[p] EXCEPT !.txn = NoTxn, !.act = NoVersion, !.ret = "idle"]
<1>1. loc[p] \in Locals /\ l \in RecoverReturns
  BY LabelTypes DEF Shape, Typed
<1>2. x \in Locals /\ x.ver = loc[p].ver
  BY <1>1, TxnTypes, VersionTypes DEF Locals
<1>3. StepTo(p, l, x)
  BY <1>1 DEF Shape, RecoverEnd, Goto, StepTo
<1>4. Typed(l, x)
  BY <1>1, <1>2, LabelTypes DEF Typed
<1> QED
  BY <1>1, <1>2, <1>3, <1>4

LEMMA CallGo ==
    ASSUME Shape, NEW p \in Procs, NEW l \in RecoverReturns,
           Goto(p, "r_load"), loc' = [loc EXCEPT ![p].ret = l]
    PROVE  \E x : /\ StepTo(p, "r_load", x) /\ Typed("r_load", x) /\ x.ret = l
                  /\ x.ver = loc[p].ver /\ x = [loc[p] EXCEPT !.ret = l]
<1> DEFINE x == [loc[p] EXCEPT !.ret = l]
<1>1. loc[p] \in Locals
  BY DEF Shape, Typed
<1>2. x \in Locals /\ x.ver = loc[p].ver /\ x.ret = l
  BY <1>1 DEF Locals
<1>3. StepTo(p, "r_load", x)
  BY <1>1 DEF Shape, Goto, StepTo
<1>4. "r_load" \in RecoverLabels /\ "r_load" \notin InstallLabels
  BY DEF RecoverLabels, InstallLabels
<1>5. Typed("r_load", x)
  BY <1>2, <1>4, LabelTypes DEF Typed
<1> QED
  BY <1>2, <1>3, <1>5

-----------------------------------------------------------------------------
(* The steps of a recovery: store and types.  Each lemma says where the    *)
(* process went, for the use of what follows.                              *)
Went(p, l, x) == StepTo(p, l, x) /\ Typed(l, x) /\ x.ver = loc[p].ver
Goes(p, l) == Went(p, l, loc[p])
Same == UNCHANGED <<fs, may>>
FailsTo(p) ==
    /\ Same
    /\ \E l \in RecoverReturns : \E x : Went(p, l, x) /\ l = RecoverFailed(loc[p].ret)
CallsTo(p, l) == Same /\ \E x : Went(p, "r_load", x) /\ x.ret = l

LEMMA FailWent ==
    ASSUME TypeInv, NEW p \in Procs, pc[p] \in RecoverLabels, RecoverFail(p)
    PROVE  StoreInv' /\ FailsTo(p)
<1>1. Same
  BY DEF RecoverFail, Stay, storeVars, Same
<1>2. StoreInv'
  BY <1>1 DEF TypeInv, StoreInv, StoreTypeOK, Visible, Same
<1>3. \E x : /\ Went(p, RecoverFailed(loc[p].ret), x)
             /\ RecoverFailed(loc[p].ret) \in RecoverReturns
  BY RecoverEndGo DEF RecoverFail, Went, TypeInv
<1> QED
  BY <1>1, <1>2, <1>3 DEF FailsTo

LEMMA GoWent ==
    ASSUME TypeInv, NEW p \in Procs, pc[p] \in RecoverLabels \ {"r_load"},
           NEW l \in RecoverLabels, Goto(p, l), SameLoc
    PROVE  Goes(p, l)
BY RecoverGo, Moves DEF TypeInv, Goes, Went

LEMMA StayStore ==
    ASSUME StoreInv, Stay
    PROVE  StoreInv' /\ Same
BY DEF Stay, storeVars, StoreInv, StoreTypeOK, Visible, Same

LEMMA Went2Shape ==
    ASSUME TypeInv, NEW p \in Procs, NEW l, NEW x, Went(p, l, x), StoreInv', OrchTypeOK'
    PROVE  TypeInv'
BY ShapeKept DEF TypeInv, Went

(* The transaction a recovery works on.                                    *)
LEMMA LoadedTypes ==
    ASSUME TypeInv, NEW p \in Procs, pc[p] \in RecoverLabels \ {"r_load"}
    PROVE  /\ loc[p] \in Locals /\ loc[p].txn \in Txns /\ loc[p].txn # NoTxn
           /\ loc[p].txn.version \in Versions /\ loc[p].txn.prev \in MaybeVersion
           /\ loc[p].act \in MaybeVersion
           /\ loc[p].txn.version \in MaybeVersion
<1>1. loc[p] \in Locals /\ loc[p].txn # NoTxn
  BY DEF TypeInv, Shape, Typed
<1>2. loc[p].txn \in Txns /\ loc[p].act \in MaybeVersion
  BY <1>1 DEF Locals
<1> QED
  BY <1>1, <1>2, TxnTypes, VersionTypes

LEMMA RecoverLoadStep ==
    ASSUME TypeInv, NEW p \in Procs, RecoverLoad(p)
    PROVE  /\ StoreInv' /\ Same
           /\ \/ /\ fs.txn # NoTxn
                 /\ \E l \in {"r_floor", "r_read"} :
                      /\ l = "r_floor" <=> fs.txn.state = "confirmed"
                      /\ Went(p, l, [loc[p] EXCEPT !.txn = fs.txn])
              \/ /\ fs.txn = NoTxn
                 /\ \E l \in RecoverReturns : l = loc[p].ret /\ \E x : Went(p, l, x)
              \/ FailsTo(p)
<1>0. Same /\ pc[p] = "r_load" /\ pc[p] \in RecoverLabels /\ StoreInv'
  BY StayStore DEF RecoverLoad, RecoverFail, Stay, RecoverLabels, TypeInv
<1>1. CASE fs.txn = NoTxn /\ RecoverEnd(p, loc[p].ret)
  BY <1>0, <1>1, RecoverEndGo DEF TypeInv, Went
<1>2. CASE RecoverFail(p)
  BY <1>0, <1>2, FailWent
<1>3. CASE /\ LoadTransaction /\ loc' = [loc EXCEPT ![p].txn = fs.txn]
           /\ Goto(p, IF fs.txn.state = "confirmed" THEN "r_floor" ELSE "r_read")
  <2> DEFINE l == IF fs.txn.state = "confirmed" THEN "r_floor" ELSE "r_read"
             x == [loc[p] EXCEPT !.txn = fs.txn]
  <2>1. loc[p] \in Locals /\ fs.txn \in Txns /\ fs.txn # NoTxn
    BY <1>3 DEF TypeInv, Shape, Typed, StoreInv, StoreTypeOK, LoadTransaction
  <2>2. x \in Locals /\ x.ver = loc[p].ver /\ x.txn = fs.txn /\ x.ret = loc[p].ret
    BY <2>1 DEF Locals
  <2>3. StepTo(p, l, x)
    BY <1>3 DEF TypeInv, Shape, Goto, StepTo
  <2>4. l \in RecoverLabels /\ l \notin InstallLabels
    BY DEF RecoverLabels, InstallLabels
  <2>5. x.ret \in RecoverReturns
    BY <1>0, <2>2 DEF TypeInv, Shape, Typed
  <2>6. Typed(l, x)
    BY <2>1, <2>2, <2>4, <2>5, LabelTypes DEF Typed
  <2>7. Went(p, l, x)
    BY <2>2, <2>3, <2>6 DEF Went
  <2>8. l \in {"r_floor", "r_read"} /\ (l = "r_floor" <=> fs.txn.state = "confirmed")
    OBVIOUS
  <2> HIDE DEF l
  <2> QED
    BY <1>0, <2>1, <2>7, <2>8
<1> QED
  BY <1>1, <1>2, <1>3 DEF RecoverLoad

LEMMA RecoverFloorStep ==
    ASSUME TypeInv, NEW p \in Procs, RecoverFloor(p)
    PROVE  /\ StoreInv'
           /\ \/ Same /\ loc[p].txn.version = fs.floor /\ Goes(p, "r_rmtxn")
              \/ /\ loc[p].txn.version > fs.floor
                 /\ PutFloor(loc[p].txn.version) /\ Goes(p, "r_floorsync")
              \/ FailsTo(p)
<1>0. pc[p] \in RecoverLabels \ {"r_load"} /\ {"r_rmtxn", "r_floorsync"} \subseteq RecoverLabels
  BY DEF RecoverFloor, RecoverLabels
<1>1. loc[p].txn.version \in MaybeVersion
  BY <1>0, LoadedTypes
<1>2. CASE loc[p].txn.version = fs.floor /\ Goto(p, "r_rmtxn") /\ Stay /\ SameLoc
  BY <1>0, <1>2, GoWent, StayStore DEF TypeInv
<1>3. CASE /\ loc[p].txn.version > fs.floor
           /\ PutFloor(loc[p].txn.version) /\ Goto(p, "r_floorsync") /\ SameLoc
  BY <1>0, <1>1, <1>3, GoWent, PutFloorStore DEF TypeInv
<1>4. CASE RecoverFail(p)
  BY <1>0, <1>4, FailWent
<1> QED
  BY <1>2, <1>3, <1>4 DEF RecoverFloor, PersistVersionFloor

LEMMA RecoverFloorSyncStep ==
    ASSUME TypeInv, NEW p \in Procs, RecoverFloorSync(p)
    PROVE  /\ StoreInv'
           /\ (SyncData /\ Goes(p, "r_rmtxn")) \/ FailsTo(p)
<1>0. pc[p] \in RecoverLabels \ {"r_load"} /\ "r_rmtxn" \in RecoverLabels
  BY DEF RecoverFloorSync, RecoverLabels
<1>1. CASE SyncData /\ Goto(p, "r_rmtxn") /\ SameLoc
  BY <1>0, <1>1, GoWent, SyncDataStore DEF TypeInv
<1>2. CASE RecoverFail(p)
  BY <1>0, <1>2, FailWent
<1> QED
  BY <1>1, <1>2 DEF RecoverFloorSync, RecoverSyncFails

LEMMA RollbackReadStep ==
    ASSUME TypeInv, NEW p \in Procs, RollbackRead(p)
    PROVE  StoreInv' /\ Same /\ Went(p, "r_link", [loc[p] EXCEPT !.act = fs.current])
<1> DEFINE x == [loc[p] EXCEPT !.act = fs.current]
<1>0. /\ pc[p] \in RecoverLabels \ {"r_load"} /\ "r_link" \in RecoverLabels
      /\ "r_link" \notin InstallLabels
  BY DEF RollbackRead, RecoverLabels, InstallLabels
<1>1. loc[p] \in Locals /\ fs.current \in MaybeVersion
  BY DEF TypeInv, Shape, Typed, StoreInv, StoreTypeOK
<1>2. /\ x \in Locals /\ x.ver = loc[p].ver /\ x.txn = loc[p].txn /\ x.ret = loc[p].ret
  BY <1>1 DEF Locals
<1>3. StepTo(p, "r_link", x)
  BY <1>1 DEF RollbackRead, TypeInv, Shape, Goto, StepTo
<1>4. x.ret \in RecoverReturns /\ x.txn # NoTxn
  BY <1>0, <1>2 DEF TypeInv, Shape, Typed
<1>5. Typed("r_link", x)
  BY <1>0, <1>2, <1>4, LabelTypes DEF Typed
<1> QED
  BY <1>2, <1>3, <1>5, StayStore DEF RollbackRead, Went, TypeInv

LEMMA RollbackLinkStep ==
    ASSUME TypeInv, NEW p \in Procs, RollbackLink(p)
    PROVE  /\ StoreInv'
           /\ (PutCurrent(loc[p].txn.prev) /\ Goes(p, "r_rmact")) \/ FailsTo(p)
<1>0. pc[p] \in RecoverLabels \ {"r_load"} /\ "r_rmact" \in RecoverLabels
  BY DEF RollbackLink, RecoverLabels
<1>1. CASE PutCurrent(loc[p].txn.prev) /\ Goto(p, "r_rmact") /\ SameLoc
  BY <1>0, <1>1, GoWent, LoadedTypes, PutCurrentStore DEF TypeInv
<1>2. CASE RecoverFail(p)
  BY <1>0, <1>2, FailWent
<1> QED
  BY <1>1, <1>2 DEF RollbackLink, RecoverIoFails

(* remove_all of release v on the way to l.                                *)
Removes(p, v, l) ==
    \/ fs.rel[v] = "complete" /\ PutRelease(v, "partial") /\ Goes(p, pc[p])
    \/ PutRelease(v, "absent") /\ Goes(p, l)
    \/ fs.rel[v] = "absent" /\ Same /\ Goes(p, l)

LEMMA RemoveTreeStep ==
    ASSUME TypeInv, NEW p \in Procs, pc[p] \in RecoverLabels \ {"r_load"},
           NEW v \in Versions, NEW l \in RecoverLabels, RemoveTree(p, v, l)
    PROVE  StoreInv' /\ (Removes(p, v, l) \/ FailsTo(p))
<1>0. {"partial", "absent"} \subseteq ReleaseState
  BY DEF ReleaseState
<1>1. CASE fs.rel[v] = "complete" /\ PutRelease(v, "partial") /\ UNCHANGED <<pc, loc>>
  <2>1. Goto(p, pc[p]) /\ SameLoc
    BY <1>1 DEF Goto, SameLoc, TypeInv, Shape
  <2> QED
    BY <1>0, <1>1, <2>1, GoWent, PutReleaseStore DEF TypeInv, Removes
<1>2. CASE PutRelease(v, "absent") /\ Goto(p, l) /\ SameLoc
  BY <1>0, <1>2, GoWent, PutReleaseStore DEF TypeInv, Removes
<1>3. CASE fs.rel[v] = "absent" /\ Goto(p, l) /\ Stay /\ SameLoc
  BY <1>3, GoWent, StayStore DEF TypeInv, Removes
<1>4. CASE RecoverFail(p)
  BY <1>4, FailWent
<1> QED
  BY <1>1, <1>2, <1>3, <1>4 DEF RemoveTree, RecoverIoFails

LEMMA RollbackRemoveStep ==
    ASSUME TypeInv, NEW p \in Procs, RollbackRemove(p)
    PROVE  /\ StoreInv'
           /\ \/ /\ loc[p].act \in Versions /\ loc[p].act # loc[p].txn.prev
                 /\ Removes(p, loc[p].act, "r_syncroot")
              \/ /\ loc[p].act \in {NoVersion, loc[p].txn.prev}
                 /\ Same /\ Goes(p, "r_syncroot")
              \/ FailsTo(p)
<1>0. pc[p] \in RecoverLabels \ {"r_load"} /\ "r_syncroot" \in RecoverLabels
  BY DEF RollbackRemove, RecoverLabels
<1>1. CASE /\ loc[p].act \notin {NoVersion, loc[p].txn.prev}
           /\ RemoveTree(p, loc[p].act, "r_syncroot")
  <2>1. loc[p].act \in Versions
    BY <1>0, <1>1, LoadedTypes DEF MaybeVersion
  <2> QED
    BY <1>0, <1>1, <2>1, RemoveTreeStep
<1>2. CASE /\ loc[p].act \in {NoVersion, loc[p].txn.prev}
           /\ Goto(p, "r_syncroot") /\ Stay /\ SameLoc
  BY <1>0, <1>2, GoWent, StayStore DEF TypeInv
<1> QED
  BY <1>1, <1>2 DEF RollbackRemove

LEMMA RollbackSyncRootStep ==
    ASSUME TypeInv, NEW p \in Procs, RollbackSyncRoot(p)
    PROVE  StoreInv' /\ ((SyncRoot /\ Goes(p, "r_syncrel")) \/ FailsTo(p))
<1>0. pc[p] \in RecoverLabels \ {"r_load"} /\ "r_syncrel" \in RecoverLabels
  BY DEF RollbackSyncRoot, RecoverLabels
<1>1. CASE SyncRoot /\ Goto(p, "r_syncrel") /\ SameLoc
  BY <1>0, <1>1, GoWent, SyncRootStore DEF TypeInv
<1>2. CASE RecoverFail(p)
  BY <1>0, <1>2, FailWent
<1> QED
  BY <1>1, <1>2 DEF RollbackSyncRoot, RecoverSyncFails

LEMMA RollbackSyncReleasesStep ==
    ASSUME TypeInv, NEW p \in Procs, RollbackSyncReleases(p)
    PROVE  StoreInv' /\ ((SyncReleases /\ Goes(p, "r_rmcand")) \/ FailsTo(p))
<1>0. pc[p] \in RecoverLabels \ {"r_load"} /\ "r_rmcand" \in RecoverLabels
  BY DEF RollbackSyncReleases, RecoverLabels
<1>1. CASE SyncReleases /\ Goto(p, "r_rmcand") /\ SameLoc
  BY <1>0, <1>1, GoWent, SyncReleasesStore DEF TypeInv
<1>2. CASE RecoverFail(p)
  BY <1>0, <1>2, FailWent
<1> QED
  BY <1>1, <1>2 DEF RollbackSyncReleases, RecoverSyncFails

LEMMA RecoverRemoveCandidateStep ==
    ASSUME TypeInv, NEW p \in Procs, RecoverRemoveCandidate(p)
    PROVE  StoreInv' /\ (Removes(p, loc[p].txn.version, "r_synccand") \/ FailsTo(p))
<1>0. pc[p] \in RecoverLabels \ {"r_load"} /\ "r_synccand" \in RecoverLabels
  BY DEF RecoverRemoveCandidate, RecoverLabels
<1> QED
  BY <1>0, LoadedTypes, RemoveTreeStep DEF RecoverRemoveCandidate

LEMMA RecoverSyncCandidateStep ==
    ASSUME TypeInv, NEW p \in Procs, RecoverSyncCandidate(p)
    PROVE  StoreInv' /\ ((SyncReleases /\ Goes(p, "r_rmtxn")) \/ FailsTo(p))
<1>0. pc[p] \in RecoverLabels \ {"r_load"} /\ "r_rmtxn" \in RecoverLabels
  BY DEF RecoverSyncCandidate, RecoverLabels
<1>1. CASE SyncReleases /\ Goto(p, "r_rmtxn") /\ SameLoc
  BY <1>0, <1>1, GoWent, SyncReleasesStore DEF TypeInv
<1>2. CASE RecoverFail(p)
  BY <1>0, <1>2, FailWent
<1> QED
  BY <1>1, <1>2 DEF RecoverSyncCandidate, RecoverSyncFails

LEMMA RecoverRemoveTxnStep ==
    ASSUME TypeInv, NEW p \in Procs, RecoverRemoveTxn(p)
    PROVE  StoreInv' /\ ((PutTxn(NoTxn) /\ Goes(p, "r_syncrun")) \/ FailsTo(p))
<1>0. pc[p] \in RecoverLabels \ {"r_load"} /\ "r_syncrun" \in RecoverLabels
  BY DEF RecoverRemoveTxn, RecoverLabels
<1>1. CASE PutTxn(NoTxn) /\ Goto(p, "r_syncrun") /\ SameLoc
  BY <1>0, <1>1, GoWent, PutTxnStore, TxnTypes DEF TypeInv
<1>2. CASE RecoverFail(p)
  BY <1>0, <1>2, FailWent
<1> QED
  BY <1>1, <1>2 DEF RecoverRemoveTxn, RecoverIoFails

LEMMA RecoverSyncRunStep ==
    ASSUME TypeInv, NEW p \in Procs, RecoverSyncRun(p)
    PROVE  /\ StoreInv'
           /\ \/ /\ SyncRun
                 /\ \E l \in RecoverReturns : l = loc[p].ret /\ \E x : Went(p, l, x)
              \/ FailsTo(p)
<1>0. pc[p] \in RecoverLabels
  BY DEF RecoverSyncRun, RecoverLabels
<1>1. CASE SyncRun /\ RecoverEnd(p, loc[p].ret)
  BY <1>0, <1>1, RecoverEndGo, SyncRunStore DEF TypeInv, Went
<1>2. CASE RecoverFail(p)
  BY <1>0, <1>2, FailWent
<1> QED
  BY <1>1, <1>2 DEF RecoverSyncRun, RecoverSyncFails

-----------------------------------------------------------------------------
(* The steps of an install and of a confirmation.                          *)

LEMMA FreeGo ==
    ASSUME TypeInv, NEW p \in Procs, NEW l \in Labels, l \notin RecoverLabels,
           l \in InstallLabels \ {"i_check"} => loc[p].ver \in Versions,
           Goto(p, l), SameLoc
    PROVE  Goes(p, l)
BY Moves DEF TypeInv, Shape, Typed, Goes, Went

LEMMA CallsWent ==
    ASSUME TypeInv, NEW p \in Procs, NEW l \in RecoverReturns, CallRecover(p, l)
    PROVE  StoreInv' /\ CallsTo(p, l)
<1>1. StoreInv' /\ Same
  BY StayStore DEF CallRecover, TypeInv
<1>2. \E x : Went(p, "r_load", x) /\ x.ret = l
  BY CallGo DEF CallRecover, Went, TypeInv
<1> QED
  BY <1>1, <1>2 DEF CallsTo

LEMMA InstallTypes ==
    ASSUME TypeInv, NEW p \in Procs, pc[p] \in InstallLabels \ {"i_check"}
    PROVE  /\ loc[p] \in Locals /\ loc[p].ver \in Versions /\ loc[p].ver \in MaybeVersion
           /\ loc[p].prev \in MaybeVersion
           /\ \A s \in {"prepared", "activated"} : Txn(s, loc[p].ver, loc[p].prev) \in Txns
<1>1. loc[p] \in Locals /\ loc[p].ver \in Versions
  BY DEF TypeInv, Shape, Typed
<1>2. loc[p].prev \in MaybeVersion /\ loc[p].ver \in MaybeVersion
  BY <1>1 DEF Locals
<1>3. {"prepared", "activated"} \subseteq TransactionState
  BY DEF TransactionState
<1> QED
  BY <1>1, <1>2, <1>3, TxnTypes

LEMMA InstallPlaces ==
    /\ \A l \in InstallLabels \cup ConfirmLabels \cup ReturnLabels :
          l \in Labels /\ l \notin RecoverLabels
    /\ "i_fail" \in RecoverReturns
    /\ \A l \in ConfirmLabels \cup ReturnLabels : l \notin InstallLabels
BY LabelTypes DEF RecoverReturns

LEMMA InstallCheckStep ==
    ASSUME TypeInv, NEW p \in Procs, InstallCheck(p)
    PROVE  /\ StoreInv' /\ Same
           /\ \/ /\ CheckAntiRollback(loc[p].ver) /\ loc[p].ver \in Versions
                 /\ fs.rel[loc[p].ver] = "absent"
                 /\ Went(p, "i_prep", [loc[p] EXCEPT !.prev = fs.current])
              \/ Goes(p, "i_fail")
<1>0. /\ Same /\ StoreInv' /\ loc[p] \in Locals
      /\ fs.current \in MaybeVersion /\ fs.floor \in MaybeVersion
  BY StayStore DEF InstallCheck, TypeInv, Shape, Typed, StoreInv, StoreTypeOK
<1>1. CASE Goto(p, "i_fail") /\ SameLoc
  BY <1>0, <1>1, FreeGo, InstallPlaces DEF ReturnLabels
<1>2. CASE /\ CheckAntiRollback(loc[p].ver) /\ fs.rel[loc[p].ver] = "absent"
           /\ loc' = [loc EXCEPT ![p].prev = fs.current] /\ Goto(p, "i_prep")
  <2> DEFINE x == [loc[p] EXCEPT !.prev = fs.current]
  <2>1. x \in Locals /\ x.ver = loc[p].ver
    BY <1>0 DEF Locals
  <2>2. loc[p].ver \in Versions
    <3>1. loc[p].ver \in MaybeVersion
      BY <1>0 DEF Locals
    <3>2. loc[p].ver > 0
      BY <1>0, <1>2, <3>1, VersionTypes DEF CheckAntiRollback
    <3> QED
      BY <3>1, <3>2, VersionTypes
  <2>3. StepTo(p, "i_prep", x)
    BY <1>2 DEF TypeInv, Shape, Goto, StepTo
  <2>4. "i_prep" \in InstallLabels
    BY DEF InstallLabels
  <2>5. Typed("i_prep", x)
    BY <2>1, <2>2, <2>4, InstallPlaces DEF Typed
  <2>6. Went(p, "i_prep", x)
    BY <2>1, <2>3, <2>5 DEF Went
  <2> QED
    BY <1>0, <1>2, <2>2, <2>6
<1> QED
  BY <1>1, <1>2 DEF InstallCheck

LEMMA InstallPrepareStep ==
    ASSUME TypeInv, NEW p \in Procs, InstallPrepare(p)
    PROVE  /\ StoreInv'
           /\ \/ /\ PutTxn(Txn("prepared", loc[p].ver, loc[p].prev)) /\ Goes(p, "i_prepsync")
              \/ Same /\ Goes(p, "i_fail")
<1>0. /\ pc[p] \in InstallLabels \ {"i_check"} /\ "i_prepsync" \in InstallLabels
      /\ "i_fail" \in ReturnLabels
  BY DEF InstallPrepare, InstallLabels, ReturnLabels
<1>1. CASE PutTxn(Txn("prepared", loc[p].ver, loc[p].prev)) /\ Goto(p, "i_prepsync") /\ SameLoc
  BY <1>0, <1>1, FreeGo, InstallTypes, InstallPlaces, PutTxnStore DEF TypeInv
<1>2. CASE Goto(p, "i_fail") /\ Stay /\ SameLoc
  BY <1>0, <1>2, FreeGo, InstallPlaces, StayStore DEF TypeInv
<1> QED
  BY <1>1, <1>2 DEF InstallPrepare, IoFails

LEMMA InstallPrepareSyncStep ==
    ASSUME TypeInv, NEW p \in Procs, InstallPrepareSync(p)
    PROVE  StoreInv' /\ ((SyncRun /\ Goes(p, "i_mkdir")) \/ (Same /\ Goes(p, "i_fail")))
<1>0. /\ pc[p] \in InstallLabels \ {"i_check"} /\ "i_mkdir" \in InstallLabels
      /\ "i_fail" \in ReturnLabels
  BY DEF InstallPrepareSync, InstallLabels, ReturnLabels
<1>1. CASE SyncRun /\ Goto(p, "i_mkdir") /\ SameLoc
  BY <1>0, <1>1, FreeGo, InstallTypes, InstallPlaces, SyncRunStore DEF TypeInv
<1>2. CASE Goto(p, "i_fail") /\ Stay /\ SameLoc
  BY <1>0, <1>2, FreeGo, InstallPlaces, StayStore DEF TypeInv
<1> QED
  BY <1>1, <1>2 DEF InstallPrepareSync, SyncFails

LEMMA InstallerFailsStep ==
    ASSUME TypeInv, NEW p \in Procs, InstallerFails(p)
    PROVE  StoreInv' /\ CallsTo(p, "i_fail")
BY CallsWent, InstallPlaces DEF InstallerFails

LEMMA InstallMkdirStep ==
    ASSUME TypeInv, NEW p \in Procs, InstallMkdir(p)
    PROVE  StoreInv' /\ PutRelease(loc[p].ver, "partial") /\ Goes(p, "i_copy")
<1>0. /\ pc[p] \in InstallLabels \ {"i_check"} /\ "i_copy" \in InstallLabels
      /\ "partial" \in ReleaseState
  BY DEF InstallMkdir, InstallLabels, ReleaseState
<1> QED
  BY <1>0, FreeGo, InstallTypes, InstallPlaces, PutReleaseStore DEF TypeInv, InstallMkdir

LEMMA InstallCopyStep ==
    ASSUME TypeInv, NEW p \in Procs, InstallCopy(p)
    PROVE  /\ StoreInv' /\ Goes(p, "i_link")
           /\ fs'.txn = fs.txn /\ fs'.floor = fs.floor /\ fs'.current = fs.current
           /\ fs'.rel = [fs.rel EXCEPT ![loc[p].ver] = "complete"]
           /\ may'.txn = {fs.txn} /\ may'.floor = {fs.floor} /\ may'.current = {fs.current}
           /\ may'.rel = [r \in Versions |-> {fs'.rel[r]}]
<1>0. /\ pc[p] \in InstallLabels \ {"i_check"} /\ "i_link" \in InstallLabels
      /\ "complete" \in ReleaseState
  BY DEF InstallCopy, InstallLabels, ReleaseState
<1>1. Goes(p, "i_link")
  BY <1>0, FreeGo, InstallTypes, InstallPlaces DEF InstallCopy
<1>2. fs \in [txn : Txns, floor : MaybeVersion, current : MaybeVersion,
              rel : [Versions -> ReleaseState]]
  BY DEF TypeInv, StoreInv, StoreTypeOK
<1>3. fs' = [fs EXCEPT !.rel[loc[p].ver] = "complete"] /\ SyncAll(fs')
  BY DEF InstallCopy
<1>4. /\ fs'.txn = fs.txn /\ fs'.floor = fs.floor /\ fs'.current = fs.current
      /\ fs'.rel = [fs.rel EXCEPT ![loc[p].ver] = "complete"]
      /\ fs' \in [txn : Txns, floor : MaybeVersion, current : MaybeVersion,
                  rel : [Versions -> ReleaseState]]
  BY <1>0, <1>2, <1>3, InstallTypes
<1> QED
  BY <1>1, <1>3, <1>4, SyncAllStore

LEMMA InstallLinkStep ==
    ASSUME TypeInv, NEW p \in Procs, InstallLink(p)
    PROVE  StoreInv' /\ PutCurrent(loc[p].ver) /\ Goes(p, "i_sync")
<1>0. pc[p] \in InstallLabels \ {"i_check"} /\ "i_sync" \in InstallLabels
  BY DEF InstallLink, InstallLabels
<1> QED
  BY <1>0, FreeGo, InstallTypes, InstallPlaces, PutCurrentStore DEF TypeInv, InstallLink

LEMMA InstallSyncStep ==
    ASSUME TypeInv, NEW p \in Procs, InstallSync(p)
    PROVE  /\ StoreInv' /\ Goes(p, "i_verify") /\ fs' = fs
           /\ may'.txn = {fs.txn} /\ may'.floor = {fs.floor} /\ may'.current = {fs.current}
           /\ may'.rel = [r \in Versions |-> {fs.rel[r]}]
<1>0. pc[p] \in InstallLabels \ {"i_check"} /\ "i_verify" \in InstallLabels
  BY DEF InstallSync, InstallLabels
<1>1. Goes(p, "i_verify")
  BY <1>0, FreeGo, InstallTypes, InstallPlaces DEF InstallSync
<1>2. fs' = fs /\ SyncAll(fs')
  BY DEF InstallSync, SyncAll
<1>3. fs' \in [txn : Txns, floor : MaybeVersion, current : MaybeVersion,
               rel : [Versions -> ReleaseState]]
  BY <1>2 DEF TypeInv, StoreInv, StoreTypeOK
<1> QED
  BY <1>1, <1>2, <1>3, SyncAllStore

LEMMA InstallVerifyStep ==
    ASSUME TypeInv, NEW p \in Procs, InstallVerify(p)
    PROVE  /\ StoreInv'
           /\ (fs.current = loc[p].ver /\ Same /\ Goes(p, "i_act")) \/ CallsTo(p, "i_fail")
<1>0. pc[p] \in InstallLabels \ {"i_check"} /\ "i_act" \in InstallLabels
  BY DEF InstallVerify, InstallLabels
<1>1. CASE fs.current = loc[p].ver /\ Goto(p, "i_act") /\ Stay /\ SameLoc
  BY <1>0, <1>1, FreeGo, InstallTypes, InstallPlaces, StayStore DEF TypeInv
<1>2. CASE CallRecover(p, "i_fail")
  BY <1>2, CallsWent, InstallPlaces
<1> QED
  BY <1>1, <1>2 DEF InstallVerify

LEMMA InstallActivateStep ==
    ASSUME TypeInv, NEW p \in Procs, InstallActivate(p)
    PROVE  /\ StoreInv'
           /\ \/ /\ PutTxn(Txn("activated", loc[p].ver, loc[p].prev)) /\ Goes(p, "i_actsync")
              \/ CallsTo(p, "i_fail")
<1>0. pc[p] \in InstallLabels \ {"i_check"} /\ "i_actsync" \in InstallLabels
  BY DEF InstallActivate, InstallLabels
<1>1. CASE PutTxn(Txn("activated", loc[p].ver, loc[p].prev)) /\ Goto(p, "i_actsync") /\ SameLoc
  BY <1>0, <1>1, FreeGo, InstallTypes, InstallPlaces, PutTxnStore DEF TypeInv
<1>2. CASE CallRecover(p, "i_fail")
  BY <1>2, CallsWent, InstallPlaces
<1> QED
  BY <1>1, <1>2 DEF InstallActivate

LEMMA InstallActivateSyncStep ==
    ASSUME TypeInv, NEW p \in Procs, InstallActivateSync(p)
    PROVE  StoreInv' /\ ((SyncRun /\ Goes(p, "i_ok")) \/ CallsTo(p, "i_fail"))
<1>0. "i_ok" \in ReturnLabels
  BY DEF ReturnLabels
<1>1. CASE SyncRun /\ Goto(p, "i_ok") /\ SameLoc
  BY <1>0, <1>1, FreeGo, InstallPlaces, SyncRunStore DEF TypeInv
<1>2. CASE CallRecover(p, "i_fail")
  BY <1>2, CallsWent, InstallPlaces
<1> QED
  BY <1>1, <1>2 DEF InstallActivateSync

LEMMA ConfirmEndGo ==
    ASSUME TypeInv, NEW p \in Procs, NEW l \in ReturnLabels, ConfirmEnd(p, l)
    PROVE  Went(p, l, [loc[p] EXCEPT !.txn = NoTxn])
<1> DEFINE x == [loc[p] EXCEPT !.txn = NoTxn]
<1>1. loc[p] \in Locals
  BY DEF TypeInv, Shape, Typed
<1>2. x \in Locals /\ x.ver = loc[p].ver
  BY <1>1, TxnTypes DEF Locals
<1>3. StepTo(p, l, x)
  BY DEF TypeInv, Shape, ConfirmEnd, Goto, StepTo
<1>4. Typed(l, x)
  BY <1>2, InstallPlaces DEF Typed
<1> QED
  BY <1>2, <1>3, <1>4 DEF Went

ConfirmFails(p) == Same /\ \E x : Went(p, "c_fail", x)

LEMMA ConfirmFailWent ==
    ASSUME TypeInv, NEW p \in Procs, ConfirmFail(p)
    PROVE  StoreInv' /\ ConfirmFails(p)
<1>1. "c_fail" \in ReturnLabels
  BY DEF ReturnLabels
<1> QED
  BY <1>1, ConfirmEndGo, StayStore DEF ConfirmFail, ConfirmFails, TypeInv

LEMMA ConfirmLoadStep ==
    ASSUME TypeInv, NEW p \in Procs, ConfirmLoad(p)
    PROVE  /\ StoreInv'
           /\ \/ /\ Confirmable(loc[p].ver) /\ Same
                 /\ Went(p, "c_save",
                         [loc[p] EXCEPT !.txn = Txn("confirmed", fs.txn.version, fs.txn.prev)])
              \/ ConfirmFails(p)
<1>0. StoreInv' /\ Same /\ loc[p] \in Locals /\ "c_fail" \in ReturnLabels
  BY StayStore DEF ConfirmLoad, TypeInv, Shape, Typed, ReturnLabels
<1>1. CASE Goto(p, "c_fail") /\ SameLoc
  BY <1>0, <1>1, FreeGo, InstallPlaces DEF ConfirmFails, Goes
<1>2. CASE /\ Confirmable(loc[p].ver) /\ Goto(p, "c_save")
           /\ loc' = [loc EXCEPT ![p].txn = [fs.txn EXCEPT !.state = "confirmed"]]
  <2> DEFINE t == Txn("confirmed", fs.txn.version, fs.txn.prev)
             x == [loc[p] EXCEPT !.txn = t]
  <2>1. fs.txn \in Txns /\ fs.txn # NoTxn /\ "confirmed" \in TransactionState
    BY <1>2 DEF TypeInv, StoreInv, StoreTypeOK, Confirmable, LoadTransaction, TransactionState
  <2>2. [fs.txn EXCEPT !.state = "confirmed"] = t /\ t \in Txns
    BY <2>1, TxnTypes DEF Txn, Txns
  <2>3. x \in Locals /\ x.ver = loc[p].ver
    BY <1>0, <2>2 DEF Locals
  <2>4. StepTo(p, "c_save", x)
    BY <1>2, <2>2 DEF TypeInv, Shape, Goto, StepTo
  <2>5. "c_save" \in ConfirmLabels
    BY DEF ConfirmLabels
  <2>6. Typed("c_save", x)
    BY <2>3, <2>5, InstallPlaces DEF Typed
  <2>7. Went(p, "c_save", x)
    BY <2>3, <2>4, <2>6 DEF Went
  <2> QED
    BY <1>0, <1>2, <2>7
<1> QED
  BY <1>1, <1>2 DEF ConfirmLoad

LEMMA ConfirmSaveStep ==
    ASSUME TypeInv, NEW p \in Procs, ConfirmSave(p)
    PROVE  StoreInv' /\ ((PutTxn(loc[p].txn) /\ Goes(p, "c_savesync")) \/ ConfirmFails(p))
<1>0. "c_savesync" \in ConfirmLabels /\ loc[p].txn \in Txns
  BY DEF ConfirmLabels, TypeInv, Shape, Typed, Locals
<1>1. CASE PutTxn(loc[p].txn) /\ Goto(p, "c_savesync") /\ SameLoc
  BY <1>0, <1>1, FreeGo, InstallPlaces, PutTxnStore DEF TypeInv
<1>2. CASE ConfirmFail(p)
  BY <1>2, ConfirmFailWent
<1> QED
  BY <1>1, <1>2 DEF ConfirmSave

LEMMA ConfirmSaveSyncStep ==
    ASSUME TypeInv, NEW p \in Procs, ConfirmSaveSync(p)
    PROVE  StoreInv' /\ ((SyncRun /\ Goes(p, "c_floor")) \/ ConfirmFails(p))
<1>0. "c_floor" \in ConfirmLabels
  BY DEF ConfirmLabels
<1>1. CASE SyncRun /\ Goto(p, "c_floor") /\ SameLoc
  BY <1>0, <1>1, FreeGo, InstallPlaces, SyncRunStore DEF TypeInv
<1>2. CASE ConfirmFail(p)
  BY <1>2, ConfirmFailWent
<1> QED
  BY <1>1, <1>2 DEF ConfirmSaveSync

LEMMA ConfirmFloorStep ==
    ASSUME TypeInv, NEW p \in Procs, ConfirmFloor(p)
    PROVE  /\ StoreInv'
           /\ \/ Same /\ loc[p].txn.version = fs.floor /\ Goes(p, "c_rmtxn")
              \/ /\ loc[p].txn.version > fs.floor
                 /\ PutFloor(loc[p].txn.version) /\ Goes(p, "c_floorsync")
              \/ ConfirmFails(p)
<1>0. /\ {"c_rmtxn", "c_floorsync"} \subseteq ConfirmLabels
      /\ loc[p].txn.version \in MaybeVersion
  BY TxnTypes DEF ConfirmLabels, TypeInv, Shape, Typed, Locals
<1>1. CASE loc[p].txn.version = fs.floor /\ Goto(p, "c_rmtxn") /\ Stay /\ SameLoc
  BY <1>0, <1>1, FreeGo, InstallPlaces, StayStore DEF TypeInv
<1>2. CASE /\ loc[p].txn.version > fs.floor
           /\ PutFloor(loc[p].txn.version) /\ Goto(p, "c_floorsync") /\ SameLoc
  BY <1>0, <1>2, FreeGo, InstallPlaces, PutFloorStore DEF TypeInv
<1>3. CASE ConfirmFail(p)
  BY <1>3, ConfirmFailWent
<1> QED
  BY <1>1, <1>2, <1>3 DEF ConfirmFloor, PersistVersionFloor

LEMMA ConfirmFloorSyncStep ==
    ASSUME TypeInv, NEW p \in Procs, ConfirmFloorSync(p)
    PROVE  StoreInv' /\ ((SyncData /\ Goes(p, "c_rmtxn")) \/ ConfirmFails(p))
<1>0. "c_rmtxn" \in ConfirmLabels
  BY DEF ConfirmLabels
<1>1. CASE SyncData /\ Goto(p, "c_rmtxn") /\ SameLoc
  BY <1>0, <1>1, FreeGo, InstallPlaces, SyncDataStore DEF TypeInv
<1>2. CASE ConfirmFail(p)
  BY <1>2, ConfirmFailWent
<1> QED
  BY <1>1, <1>2 DEF ConfirmFloorSync

LEMMA ConfirmRemoveTxnStep ==
    ASSUME TypeInv, NEW p \in Procs, ConfirmRemoveTxn(p)
    PROVE  StoreInv' /\ ((PutTxn(NoTxn) /\ Goes(p, "c_syncrun")) \/ ConfirmFails(p))
<1>0. "c_syncrun" \in ConfirmLabels
  BY DEF ConfirmLabels
<1>1. CASE PutTxn(NoTxn) /\ Goto(p, "c_syncrun") /\ SameLoc
  BY <1>0, <1>1, FreeGo, InstallPlaces, PutTxnStore, TxnTypes DEF TypeInv
<1>2. CASE ConfirmFail(p)
  BY <1>2, ConfirmFailWent
<1> QED
  BY <1>1, <1>2 DEF ConfirmRemoveTxn

LEMMA ConfirmSyncRunStep ==
    ASSUME TypeInv, NEW p \in Procs, ConfirmSyncRun(p)
    PROVE  /\ StoreInv'
           /\ \/ SyncRun /\ Went(p, "c_ok", [loc[p] EXCEPT !.txn = NoTxn])
              \/ ConfirmFails(p)
<1>0. "c_ok" \in ReturnLabels
  BY DEF ReturnLabels
<1>1. CASE SyncRun /\ ConfirmEnd(p, "c_ok")
  BY <1>0, <1>1, ConfirmEndGo, SyncRunStore DEF TypeInv
<1>2. CASE ConfirmFail(p)
  BY <1>2, ConfirmFailWent
<1> QED
  BY <1>1, <1>2 DEF ConfirmSyncRun

-----------------------------------------------------------------------------
(* The types are an invariant, and no step lowers the floor a power loss   *)
(* may bring back.                                                         *)

Kept == \A g \in may'.floor : \E f \in may.floor : g >= f

LEMMA FloorKept ==
    ASSUME StoreInv,
           \/ may'.floor = may.floor
           \/ may'.floor = {fs.floor}
           \/ \E v \in MaybeVersion : v > fs.floor /\ may'.floor = may.floor \cup {v}
    PROVE  Kept
<1>1. /\ fs.floor \in may.floor /\ may.floor \subseteq MaybeVersion
      /\ \A f \in MaybeVersion : f >= f
  BY VersionTypes DEF StoreInv, StoreTypeOK, Visible
<1>2. CASE may'.floor = may.floor
  BY <1>1, <1>2 DEF Kept
<1>3. CASE may'.floor = {fs.floor}
  BY <1>1, <1>3 DEF Kept
<1>4. ASSUME NEW v \in MaybeVersion, v > fs.floor, may'.floor = may.floor \cup {v}
      PROVE  Kept
  BY <1>1, <1>4, VersionTypes DEF Kept
<1> QED
  BY <1>2, <1>3, <1>4

(* What each write and each sync does to the floor.                        *)
LEMMA SafeWrites ==
    ASSUME StoreInv
    PROVE  /\ Same => Kept
           /\ \A t \in Txns : PutTxn(t) => Kept
           /\ \A v \in MaybeVersion : PutCurrent(v) => Kept
           /\ \A v \in Versions, s \in ReleaseState : PutRelease(v, s) => Kept
           /\ SyncRun \/ SyncData \/ SyncRoot \/ SyncReleases => Kept
           /\ \A v \in MaybeVersion : v > fs.floor /\ PutFloor(v) => Kept
<1>1. Same => Kept
  BY FloorKept DEF Same
<1>2. ASSUME NEW t \in Txns, PutTxn(t) PROVE Kept
  BY <1>2, PutTxnStore, FloorKept
<1>3. ASSUME NEW v \in MaybeVersion, PutCurrent(v) PROVE Kept
  BY <1>3, PutCurrentStore, FloorKept
<1>4. ASSUME NEW v \in Versions, NEW s \in ReleaseState, PutRelease(v, s) PROVE Kept
  BY <1>4, PutReleaseStore, FloorKept
<1>5. CASE SyncRun
  BY <1>5, SyncRunStore, FloorKept
<1>6. CASE SyncData
  BY <1>6, SyncDataStore, FloorKept
<1>7. CASE SyncRoot
  BY <1>7, SyncRootStore, FloorKept
<1>8. CASE SyncReleases
  BY <1>8, SyncReleasesStore, FloorKept
<1>9. ASSUME NEW v \in MaybeVersion, v > fs.floor, PutFloor(v) PROVE Kept
  BY <1>9, PutFloorStore, FloorKept
<1> QED
  BY <1>1, <1>2, <1>3, <1>4, <1>5, <1>6, <1>7, <1>8, <1>9

Moved(p) == \E l : \E x : Went(p, l, x)

LEMMA RemovesKeeps ==
    ASSUME TypeInv, NEW p \in Procs, NEW v \in Versions, NEW l, Removes(p, v, l)
    PROVE  Kept /\ Moved(p)
<1>1. {"partial", "absent"} \subseteq ReleaseState
  BY DEF ReleaseState
<1> QED
  BY <1>1, SafeWrites DEF TypeInv, Removes, Moved, Goes

LEMMA RecoverTypes ==
    ASSUME TypeInv, NEW p \in Procs, Recover(p)
    PROVE  StoreInv' /\ Kept /\ Moved(p)
<1>0. StoreInv /\ (FailsTo(p) => Kept /\ Moved(p))
  BY SafeWrites DEF TypeInv, FailsTo, Moved
<1>1. CASE RecoverLoad(p)
  BY <1>0, <1>1, RecoverLoadStep, SafeWrites DEF Moved
<1>2. CASE RecoverFloor(p)
  <2>1. loc[p].txn.version \in MaybeVersion
    BY <1>2, LoadedTypes DEF RecoverFloor, RecoverLabels
  <2> QED
    BY <1>0, <1>2, <2>1, RecoverFloorStep, SafeWrites DEF Moved, Goes
<1>3. CASE RecoverFloorSync(p)
  BY <1>0, <1>3, RecoverFloorSyncStep, SafeWrites DEF Moved, Goes
<1>4. CASE RollbackRead(p)
  BY <1>0, <1>4, RollbackReadStep, SafeWrites DEF Moved
<1>5. CASE RollbackLink(p)
  <2>1. loc[p].txn.prev \in MaybeVersion
    BY <1>5, LoadedTypes DEF RollbackLink, RecoverLabels
  <2> QED
    BY <1>0, <1>5, <2>1, RollbackLinkStep, SafeWrites DEF Moved, Goes
<1>6. CASE RollbackRemove(p)
  BY <1>0, <1>6, RollbackRemoveStep, RemovesKeeps, SafeWrites DEF Moved, Goes
<1>7. CASE RollbackSyncRoot(p)
  BY <1>0, <1>7, RollbackSyncRootStep, SafeWrites DEF Moved, Goes
<1>8. CASE RollbackSyncReleases(p)
  BY <1>0, <1>8, RollbackSyncReleasesStep, SafeWrites DEF Moved, Goes
<1>9. CASE RecoverRemoveCandidate(p)
  <2>1. loc[p].txn.version \in Versions
    BY <1>9, LoadedTypes DEF RecoverRemoveCandidate, RecoverLabels
  <2> QED
    BY <1>0, <1>9, <2>1, RecoverRemoveCandidateStep, RemovesKeeps
<1>10. CASE RecoverSyncCandidate(p)
  BY <1>0, <1>10, RecoverSyncCandidateStep, SafeWrites DEF Moved, Goes
<1>11. CASE RecoverRemoveTxn(p)
  BY <1>0, <1>11, RecoverRemoveTxnStep, SafeWrites, TxnTypes DEF Moved, Goes
<1>12. CASE RecoverSyncRun(p)
  BY <1>0, <1>12, RecoverSyncRunStep, SafeWrites DEF Moved
<1> QED
  BY <1>1, <1>2, <1>3, <1>4, <1>5, <1>6, <1>7, <1>8, <1>9, <1>10, <1>11, <1>12 DEF Recover

LEMMA InstallTypesKept ==
    ASSUME TypeInv, NEW p \in Procs, InstallUpgrade(p)
    PROVE  StoreInv' /\ Kept /\ Moved(p)
<1>0. StoreInv /\ (CallsTo(p, "i_fail") => Kept /\ Moved(p))
  BY SafeWrites DEF TypeInv, CallsTo, Moved
<1>1. CASE InstallCheck(p)
  BY <1>0, <1>1, InstallCheckStep, SafeWrites DEF Moved, Goes
<1>2. CASE InstallPrepare(p)
  BY <1>0, <1>2, InstallPrepareStep, InstallTypes, SafeWrites
     DEF Moved, Goes, InstallPrepare, InstallLabels
<1>3. CASE InstallPrepareSync(p)
  BY <1>0, <1>3, InstallPrepareSyncStep, SafeWrites DEF Moved, Goes
<1>4. CASE InstallerFails(p)
  BY <1>0, <1>4, InstallerFailsStep
<1>5. CASE InstallMkdir(p)
  BY <1>0, <1>5, InstallMkdirStep, InstallTypes, SafeWrites
     DEF Moved, Goes, InstallMkdir, InstallLabels, ReleaseState
<1>6. CASE InstallCopy(p)
  BY <1>0, <1>6, InstallCopyStep, FloorKept DEF Moved, Goes
<1>7. CASE InstallLink(p)
  BY <1>0, <1>7, InstallLinkStep, InstallTypes, SafeWrites
     DEF Moved, Goes, InstallLink, InstallLabels
<1>8. CASE InstallSync(p)
  BY <1>0, <1>8, InstallSyncStep, FloorKept DEF Moved, Goes
<1>9. CASE InstallVerify(p)
  BY <1>0, <1>9, InstallVerifyStep, SafeWrites DEF Moved, Goes
<1>10. CASE InstallActivate(p)
  BY <1>0, <1>10, InstallActivateStep, InstallTypes, SafeWrites
     DEF Moved, Goes, InstallActivate, InstallLabels
<1>11. CASE InstallActivateSync(p)
  BY <1>0, <1>11, InstallActivateSyncStep, SafeWrites DEF Moved, Goes
<1> QED
  BY <1>1, <1>2, <1>3, <1>4, <1>5, <1>6, <1>7, <1>8, <1>9, <1>10, <1>11 DEF InstallUpgrade

LEMMA ConfirmTypes ==
    ASSUME TypeInv, NEW p \in Procs, ConfirmUpgrade(p)
    PROVE  StoreInv' /\ Kept /\ Moved(p)
<1>0. /\ StoreInv /\ (ConfirmFails(p) => Kept /\ Moved(p))
      /\ loc[p].txn \in Txns /\ loc[p].txn.version \in MaybeVersion
  BY SafeWrites, TxnTypes DEF TypeInv, ConfirmFails, Moved, Shape, Typed, Locals
<1>1. CASE ConfirmLoad(p)
  BY <1>0, <1>1, ConfirmLoadStep, SafeWrites DEF Moved
<1>2. CASE ConfirmSave(p)
  BY <1>0, <1>2, ConfirmSaveStep, SafeWrites DEF Moved, Goes
<1>3. CASE ConfirmSaveSync(p)
  BY <1>0, <1>3, ConfirmSaveSyncStep, SafeWrites DEF Moved, Goes
<1>4. CASE ConfirmFloor(p)
  BY <1>0, <1>4, ConfirmFloorStep, SafeWrites DEF Moved, Goes
<1>5. CASE ConfirmFloorSync(p)
  BY <1>0, <1>5, ConfirmFloorSyncStep, SafeWrites DEF Moved, Goes
<1>6. CASE ConfirmRemoveTxn(p)
  BY <1>0, <1>6, ConfirmRemoveTxnStep, SafeWrites, TxnTypes DEF Moved, Goes
<1>7. CASE ConfirmSyncRun(p)
  BY <1>0, <1>7, ConfirmSyncRunStep, SafeWrites DEF Moved
<1> QED
  BY <1>1, <1>2, <1>3, <1>4, <1>5, <1>6, <1>7 DEF ConfirmUpgrade

LEMMA LibraryTypes ==
    ASSUME TypeInv, NEW p \in Procs, Library(p)
    PROVE  TypeInv' /\ Kept
<1>1. StoreInv' /\ Kept /\ Moved(p)
  BY RecoverTypes, InstallTypesKept, ConfirmTypes DEF Library, TxnNext
<1>2. OrchTypeOK'
  BY DEF Library, orchVars, TypeInv, OrchTypeOK
<1> QED
  BY <1>1, <1>2, Went2Shape DEF Moved

-----------------------------------------------------------------------------
(* The steps of safe-ota, Navigator and the upgrader module: types, and    *)
(* where the two processes are afterwards.                                 *)

To(lo, xo, lu, xu) ==
    pc'["ota"] = lo /\ loc'["ota"] = xo /\ pc'["upg"] = lu /\ loc'["upg"] = xu
OtaTo(l, x) == To(l, x, pc["upg"], loc["upg"])
UpgTo(l, x) == To(pc["ota"], loc["ota"], l, x)

LEMMA OtaGo ==
    ASSUME Shape, NEW l, NEW x, StepTo("ota", l, x), Typed(l, x)
    PROVE  Shape' /\ OtaTo(l, x)
BY ShapeKept DEF OtaTo, To, Procs

LEMMA UpgGo ==
    ASSUME Shape, NEW l, NEW x, StepTo("upg", l, x), Typed(l, x)
    PROVE  Shape' /\ UpgTo(l, x)
BY ShapeKept DEF UpgTo, To, Procs

LEMMA BothGo ==
    ASSUME Shape, NEW lo, NEW xo, NEW lu, NEW xu, Typed(lo, xo), Typed(lu, xu),
           pc' = [pc EXCEPT !["ota"] = lo, !["upg"] = lu],
           loc' = [loc EXCEPT !["ota"] = xo, !["upg"] = xu]
    PROVE  Shape' /\ To(lo, xo, lu, xu)
<1>1. DOMAIN pc = Procs /\ DOMAIN loc = Procs
  BY DEF Shape
<1>2. /\ DOMAIN pc' = Procs /\ DOMAIN loc' = Procs /\ To(lo, xo, lu, xu)
      /\ pc' = [p \in Procs |-> pc'[p]] /\ loc' = [p \in Procs |-> loc'[p]]
  BY <1>1 DEF To, Procs
<1>3. \A p \in Procs : Typed(pc'[p], loc'[p])
  BY <1>2 DEF To, Procs
<1> QED
  BY <1>2, <1>3 DEF Shape

LEMMA StayShape ==
    ASSUME Shape, UNCHANGED <<pc, loc>>
    PROVE  Shape' /\ UpgTo(pc["upg"], loc["upg"])
BY DEF Shape, UpgTo, To

LEMMA LocalTypes ==
    /\ NoLoc \in Locals
    /\ \A v \in MaybeVersion : /\ [NoLoc EXCEPT !.ver = v] \in Locals
                               /\ [NoLoc EXCEPT !.ver = v].ver = v
    /\ \A v \in MaybeVersion, r \in RecoverReturns :
          /\ [NoLoc EXCEPT !.ver = v, !.ret = r] \in Locals
          /\ [NoLoc EXCEPT !.ver = v, !.ret = r].ver = v
          /\ [NoLoc EXCEPT !.ver = v, !.ret = r].ret = r
    /\ \A x \in Locals, r \in RecoverReturns :
          /\ [x EXCEPT !.ret = r] \in Locals /\ [x EXCEPT !.ret = r].ret = r
          /\ [x EXCEPT !.ret = r].ver = x.ver
    /\ \A x \in Locals, b \in BOOLEAN :
          /\ [x EXCEPT !.cancel = b] \in Locals /\ [x EXCEPT !.cancel = b].ret = x.ret
          /\ [x EXCEPT !.cancel = b].ver = x.ver /\ [x EXCEPT !.cancel = b].txn = x.txn
          /\ [x EXCEPT !.cancel = b].act = x.act /\ [x EXCEPT !.cancel = b].prev = x.prev
<1>1. PICK b \in BOOLEAN : b = FALSE
  OBVIOUS
<1>2. NoLoc \in Locals
  <2>1. [ver |-> NoVersion, prev |-> NoVersion, txn |-> NoTxn, act |-> NoVersion,
         ret |-> "idle", cancel |-> b] \in Locals
    BY TxnTypes, VersionTypes DEF Locals
  <2> QED
    BY <1>1, <2>1 DEF NoLoc
<1>3. ASSUME NEW v \in MaybeVersion
      PROVE  [NoLoc EXCEPT !.ver = v] \in Locals /\ [NoLoc EXCEPT !.ver = v].ver = v
  BY <1>2 DEF Locals
<1>4. ASSUME NEW v \in MaybeVersion, NEW r \in RecoverReturns
      PROVE  /\ [NoLoc EXCEPT !.ver = v, !.ret = r] \in Locals
             /\ [NoLoc EXCEPT !.ver = v, !.ret = r].ver = v
             /\ [NoLoc EXCEPT !.ver = v, !.ret = r].ret = r
  BY <1>2 DEF Locals
<1>5. ASSUME NEW x \in Locals, NEW r \in RecoverReturns
      PROVE  /\ [x EXCEPT !.ret = r] \in Locals /\ [x EXCEPT !.ret = r].ret = r
             /\ [x EXCEPT !.ret = r].ver = x.ver
  BY DEF Locals
<1>6. ASSUME NEW x \in Locals, NEW c \in BOOLEAN
      PROVE  /\ [x EXCEPT !.cancel = c] \in Locals /\ [x EXCEPT !.cancel = c].ret = x.ret
             /\ [x EXCEPT !.cancel = c].ver = x.ver /\ [x EXCEPT !.cancel = c].txn = x.txn
             /\ [x EXCEPT !.cancel = c].act = x.act /\ [x EXCEPT !.cancel = c].prev = x.prev
  BY DEF Locals
<1> QED
  BY <1>2, <1>3, <1>4, <1>5, <1>6

(* Outside a recovery and an install any locals do.                        *)
LEMMA RestTyped ==
    ASSUME NEW l \in OtaLabels \cup UpgLabels \cup ConfirmLabels \cup ReturnLabels,
           NEW x \in Locals
    PROVE  Typed(l, x)
BY LabelTypes DEF Typed

LEMMA CheckTyped ==
    ASSUME NEW x \in Locals
    PROVE  Typed("i_check", x)
BY LabelTypes DEF Typed, InstallLabels

LEMMA LoadTyped ==
    ASSUME NEW x \in Locals, x.ret \in RecoverReturns
    PROVE  Typed("r_load", x)
<1>1. "r_load" \in RecoverLabels /\ "r_load" \notin InstallLabels
  BY DEF RecoverLabels, InstallLabels
<1> QED
  BY <1>1, LabelTypes DEF Typed

(* safe-ota calls a recovery that returns to l.                            *)
LEMMA OtaCalls ==
    ASSUME TypeInv, NEW l \in RecoverReturns, CallRecover("ota", l)
    PROVE  /\ Shape' /\ Same /\ StoreInv'
           /\ OtaTo("r_load", [loc["ota"] EXCEPT !.ret = l])
<1> DEFINE x == [loc["ota"] EXCEPT !.ret = l]
<1>1. loc["ota"] \in Locals
  BY DEF TypeInv, Shape, Typed, Procs
<1>2. x \in Locals /\ x.ret = l
  BY <1>1, LocalTypes
<1>3. Typed("r_load", x)
  BY <1>2, LoadTyped
<1>4. StepTo("ota", "r_load", x)
  BY DEF TypeInv, Shape, CallRecover, Goto, StepTo, Procs
<1> QED
  BY <1>3, <1>4, OtaGo, StayStore DEF TypeInv, CallRecover

LEMMA OtaMoves ==
    ASSUME TypeInv, NEW l \in OtaLabels \cup ConfirmLabels \cup ReturnLabels \cup {"i_check"},
           Goto("ota", l), SameLoc
    PROVE  Shape' /\ OtaTo(l, loc["ota"])
<1>1. loc["ota"] \in Locals /\ StepTo("ota", l, loc["ota"])
  BY Moves DEF TypeInv, Shape, Typed, Procs
<1>2. Typed(l, loc["ota"])
  BY <1>1, RestTyped, CheckTyped
<1> QED
  BY <1>1, <1>2, OtaGo DEF TypeInv

LEMMA ExitGo ==
    ASSUME TypeInv, Exit
    PROVE  Shape' /\ OtaTo("idle", NoLoc)
<1>1. Typed("idle", NoLoc)
  BY LocalTypes, RestTyped DEF OtaLabels
<1>2. StepTo("ota", "idle", NoLoc)
  BY DEF Exit, Goto, StepTo
<1> QED
  BY <1>1, <1>2, OtaGo DEF TypeInv

LEMMA UpgraderGoneGo ==
    ASSUME TypeInv, NEW l \in UpgLabels, UpgraderGone(l)
    PROVE  Shape' /\ UpgTo(l, NoLoc)
<1>1. Typed(l, NoLoc)
  BY LocalTypes, RestTyped
<1>2. StepTo("upg", l, NoLoc)
  BY DEF UpgraderGone, Goto, StepTo
<1> QED
  BY <1>1, <1>2, UpgGo DEF TypeInv

LEMMA StartUpgraderGo ==
    ASSUME TypeInv, NEW l, Typed(l, loc["ota"]), StartUpgrader(l)
    PROVE  Shape' /\ To(l, loc["ota"], "i_check", [NoLoc EXCEPT !.ver = request])
<1> DEFINE x == [NoLoc EXCEPT !.ver = request]
<1>1. x \in Locals /\ Typed("i_check", x)
  BY LocalTypes, CheckTyped DEF TypeInv, OrchTypeOK
<1>2. /\ pc' = [pc EXCEPT !["ota"] = l, !["upg"] = "i_check"]
      /\ loc' = [loc EXCEPT !["ota"] = loc["ota"], !["upg"] = x]
  BY DEF StartUpgrader, TypeInv, Shape, Procs
<1> HIDE DEF x
<1>3. Shape' /\ To(l, loc["ota"], "i_check", x)
  BY <1>1, <1>2, BothGo DEF TypeInv
<1> QED
  BY <1>3 DEF x

LEMMA SameStore ==
    ASSUME TypeInv, UNCHANGED <<fs, may>>
    PROVE  StoreInv' /\ Same
BY DEF TypeInv, StoreInv, StoreTypeOK, Visible, Same

LEMMA NavBootStep ==
    ASSUME TypeInv, NavBoot
    PROVE  TypeInv' /\ Same /\ UpgTo(pc["upg"], loc["upg"])
<1>1. StoreInv' /\ Same /\ Shape' /\ UpgTo(pc["upg"], loc["upg"])
  BY SameStore, StayShape DEF NavBoot, TypeInv
<1>2. OrchTypeOK'
  BY DEF NavBoot, TypeInv, OrchTypeOK, StoreInv, StoreTypeOK, NavModes
<1> QED
  BY <1>1, <1>2 DEF TypeInv

LEMMA UpgraderRestartStep ==
    ASSUME TypeInv, UpgraderRestart
    PROVE  /\ TypeInv' /\ Same
           /\ UpgTo("i_check", [NoLoc EXCEPT !.ver = request])
<1>1. StoreInv' /\ Same
  BY SameStore DEF UpgraderRestart
<1>2. Typed(pc["ota"], loc["ota"])
  BY DEF TypeInv, Shape, Procs
<1>3. Shape' /\ To(pc["ota"], loc["ota"], "i_check", [NoLoc EXCEPT !.ver = request])
  BY <1>2, StartUpgraderGo DEF UpgraderRestart
<1>4. OrchTypeOK'
  BY DEF UpgraderRestart, StartUpgrader, TypeInv, OrchTypeOK, Results
<1> QED
  BY <1>1, <1>3, <1>4 DEF TypeInv, UpgTo

LEMMA UpgraderPublishStep ==
    ASSUME TypeInv, UpgraderPublish
    PROVE  /\ TypeInv' /\ Same
           /\ \/ UpgTo("u_done", NoLoc)
                 /\ result' = IF pc["upg"] = "i_ok" THEN "activated" ELSE "failed"
              \/ UpgTo("u_dead", NoLoc) /\ result' = result
<1>1. StoreInv' /\ Same
  BY SameStore DEF UpgraderPublish
<1>2. OrchTypeOK'
  BY DEF UpgraderPublish, TypeInv, OrchTypeOK, Results
<1>3. CASE /\ UpgraderGone("u_done")
           /\ result' = IF pc["upg"] = "i_ok" THEN "activated" ELSE "failed"
  BY <1>1, <1>2, <1>3, UpgraderGoneGo DEF TypeInv, UpgLabels
<1>4. CASE UpgraderGone("u_dead") /\ result' = result
  BY <1>1, <1>2, <1>4, UpgraderGoneGo DEF TypeInv, UpgLabels
<1> QED
  BY <1>3, <1>4 DEF UpgraderPublish

LEMMA StartStep ==
    ASSUME TypeInv, NEW j \in Jobs, NEW v \in MaybeVersion, Start(j, v)
    PROVE  /\ TypeInv' /\ Same
           /\ OtaTo("r_load", [NoLoc EXCEPT !.ver = v, !.ret = "o_recovered"])
<1> DEFINE x == [NoLoc EXCEPT !.ver = v, !.ret = "o_recovered"]
<1>1. StoreInv' /\ Same
  BY SameStore DEF Start
<1>2. OrchTypeOK'
  BY DEF Start, TypeInv, OrchTypeOK
<1>3. "o_recovered" \in RecoverReturns
  BY DEF RecoverReturns
<1>4. Typed("r_load", x)
  <2>1. x \in Locals /\ x.ret = "o_recovered"
    BY <1>3, LocalTypes
  <2> HIDE DEF x
  <2> QED
    BY <1>3, <2>1, LoadTyped
<1>5. StepTo("ota", "r_load", x)
  BY DEF Start, Goto, StepTo
<1> QED
  BY <1>1, <1>2, <1>4, <1>5, OtaGo DEF TypeInv

LEMMA OtaRecoveredStep ==
    ASSUME TypeInv, OtaRecovered
    PROVE  /\ TypeInv' /\ Same
           /\ \/ OtaTo("idle", NoLoc)
              \/ /\ job # "recover" /\ job' = job
                 /\ \E l \in {"i_check", "o_request"} : OtaTo(l, loc["ota"])
<1>1. StoreInv' /\ Same
  BY SameStore DEF OtaRecovered
<1>2. OrchTypeOK'
  BY DEF OtaRecovered, Exit, TypeInv, OrchTypeOK, Jobs
<1>3. CASE Exit
  BY <1>1, <1>2, <1>3, ExitGo DEF TypeInv
<1>4. CASE /\ job # "recover" /\ SameLoc /\ job' = job
           /\ Goto("ota", IF job = "standalone" THEN "i_check" ELSE "o_request")
  <2>1. PICK l \in {"i_check", "o_request"} : Goto("ota", l)
    BY <1>4
  <2>2. l \in OtaLabels \cup {"i_check"}
    BY DEF OtaLabels
  <2>3. Shape' /\ OtaTo(l, loc["ota"])
    BY <1>4, <2>1, <2>2, OtaMoves
  <2> QED
    BY <1>1, <1>2, <1>4, <2>3 DEF TypeInv
<1> QED
  BY <1>3, <1>4 DEF OtaRecovered, SameLoc

LEMMA OtaFailedStep ==
    ASSUME TypeInv, OtaFailed
    PROVE  TypeInv' /\ Same /\ OtaTo("idle", NoLoc)
<1>1. StoreInv' /\ Same
  BY SameStore DEF OtaFailed
<1>2. OrchTypeOK'
  BY VersionTypes DEF OtaFailed, Exit, TypeInv, OrchTypeOK, Jobs
<1> QED
  BY <1>1, <1>2, ExitGo DEF OtaFailed, TypeInv

LEMMA OtaInstalledStep ==
    ASSUME TypeInv, OtaInstalled
    PROVE  /\ TypeInv' /\ Same
           /\ \/ pc["ota"] = "i_ok" /\ OtaTo("o_health", loc["ota"])
              \/ pc["ota"] = "i_fail" /\ OtaTo("r_load", [loc["ota"] EXCEPT !.ret = "o_exit"])
<1>1. StoreInv' /\ Same
  BY SameStore DEF OtaInstalled
<1>2. OrchTypeOK'
  BY DEF OtaInstalled, TypeInv, OrchTypeOK, orchVars
<1>3. CASE pc["ota"] = "i_ok" /\ Goto("ota", "o_health") /\ SameLoc
  BY <1>1, <1>2, <1>3, OtaMoves DEF TypeInv, OtaLabels
<1>4. CASE pc["ota"] = "i_fail" /\ CallRecover("ota", "o_exit")
  BY <1>1, <1>2, <1>4, OtaCalls DEF TypeInv, RecoverReturns
<1> QED
  BY <1>3, <1>4 DEF OtaInstalled

LEMMA OtaRequestStep ==
    ASSUME TypeInv, OtaRequest
    PROVE  /\ TypeInv' /\ Same
           /\ \/ request' = loc["ota"].ver /\ OtaTo("o_switch", loc["ota"])
              \/ OtaTo("o_exit", loc["ota"])
<1>1. StoreInv' /\ Same
  BY SameStore DEF OtaRequest
<1>2. loc["ota"].ver \in MaybeVersion
  BY DEF TypeInv, Shape, Typed, Locals, Procs
<1>3. OrchTypeOK'
  BY <1>2 DEF OtaRequest, TypeInv, OrchTypeOK, Results
<1>4. CASE request' = loc["ota"].ver /\ Goto("ota", "o_switch")
  BY <1>1, <1>3, <1>4, OtaMoves DEF OtaRequest, SameLoc, TypeInv, OtaLabels
<1>5. CASE Goto("ota", "o_exit")
  BY <1>1, <1>3, <1>5, OtaMoves DEF OtaRequest, SameLoc, TypeInv, OtaLabels
<1> QED
  BY <1>4, <1>5 DEF OtaRequest

LEMMA OtaSwitchUpgradeStep ==
    ASSUME TypeInv, OtaSwitchUpgrade
    PROVE  /\ TypeInv' /\ Same
           /\ \/ /\ \E l \in SwitchAnswers :
                      To(l, loc["ota"], "i_check", [NoLoc EXCEPT !.ver = request])
                 /\ request # NoVersion /\ result' = "none" /\ nav'.mode = "upgrade"
              \/ /\ pc["upg"] \notin {"idle", "u_dead"} /\ UNCHANGED <<result, nav>>
                 /\ OtaTo("o_wait", loc["ota"])
              \/ OtaTo("o_failed", loc["ota"]) /\ UNCHANGED <<result, nav>>
<1>1. StoreInv' /\ Same
  BY SameStore DEF OtaSwitchUpgrade
<1>2. OrchTypeOK' /\ ([nav EXCEPT !.mode = "upgrade"].mode = "upgrade")
  BY DEF OtaSwitchUpgrade, StartUpgrader, TypeInv, OrchTypeOK, Results, NavModes
<1>3. ASSUME NEW l \in SwitchAnswers, StartUpgrader(l), nav' = [nav EXCEPT !.mode = "upgrade"]
      PROVE  /\ Shape' /\ To(l, loc["ota"], "i_check", [NoLoc EXCEPT !.ver = request])
             /\ request # NoVersion /\ result' = "none" /\ nav'.mode = "upgrade"
  <2>1. l \in OtaLabels /\ loc["ota"] \in Locals
    BY DEF SwitchAnswers, OtaLabels, TypeInv, Shape, Typed, Procs
  <2>2. Typed(l, loc["ota"])
    BY <2>1, RestTyped
  <2>3. Shape' /\ To(l, loc["ota"], "i_check", [NoLoc EXCEPT !.ver = request])
    BY <1>3, <2>2, StartUpgraderGo
  <2>4. request # NoVersion /\ result' = "none"
    BY <1>3 DEF StartUpgrader
  <2> QED
    BY <1>2, <1>3, <2>3, <2>4
<1>4. CASE /\ pc["upg"] \notin {"idle", "u_dead"} /\ Goto("ota", "o_wait")
           /\ UNCHANGED <<loc, result, nav>>
  BY <1>1, <1>2, <1>4, OtaMoves DEF SameLoc, TypeInv, OtaLabels
<1>5. CASE Goto("ota", "o_failed") /\ UNCHANGED <<loc, result, nav>>
  BY <1>1, <1>2, <1>5, OtaMoves DEF SameLoc, TypeInv, OtaLabels
<1> QED
  BY <1>1, <1>2, <1>3, <1>4, <1>5 DEF OtaSwitchUpgrade, TypeInv

LEMMA OtaWaitResultStep ==
    ASSUME TypeInv, OtaWaitResult
    PROVE  /\ TypeInv' /\ Same
           /\ \/ result = "activated" /\ OtaTo("o_reexec", loc["ota"])
              \/ OtaTo("o_back", loc["ota"])
           /\ \/ result # "none"
              \/ UNCHANGED <<request, result>> /\ OtaTo("o_back", loc["ota"])
<1>1. StoreInv' /\ Same
  BY SameStore DEF OtaWaitResult
<1>2. OrchTypeOK'
  BY VersionTypes DEF OtaWaitResult, TypeInv, OrchTypeOK, Results
<1>3. CASE result = "activated" /\ Goto("ota", "o_reexec")
  BY <1>1, <1>2, <1>3, OtaMoves DEF OtaWaitResult, SameLoc, TypeInv, OtaLabels
<1>4. CASE Goto("ota", "o_back") /\ (result # "none" \/ UNCHANGED <<request, result>>)
  BY <1>1, <1>2, <1>4, OtaMoves DEF OtaWaitResult, SameLoc, TypeInv, OtaLabels
<1> QED
  BY <1>3, <1>4 DEF OtaWaitResult

LEMMA OtaSwitchNormalStep ==
    ASSUME TypeInv, OtaSwitchNormal
    PROVE  /\ TypeInv' /\ Same
           /\ \/ /\ nav.mode = "upgrade"
                 /\ \E x : /\ x = [loc["upg"] EXCEPT !.cancel = TRUE]
                           /\ To("o_backwait", loc["ota"], pc["upg"], x)
              \/ /\ nav.mode # "upgrade"
                 /\ OtaTo("r_load", [loc["ota"] EXCEPT !.ret = "o_failed"])
<1>1. StoreInv' /\ Same
  BY StayStore DEF OtaSwitchNormal, CallRecover, Stay, TypeInv
<1>2. OrchTypeOK'
  BY DEF OtaSwitchNormal, TypeInv, OrchTypeOK, orchVars
<1>3. CASE nav.mode # "upgrade" /\ CallRecover("ota", "o_failed")
  BY <1>1, <1>2, <1>3, OtaCalls DEF TypeInv, RecoverReturns
<1>4. CASE /\ nav.mode = "upgrade" /\ loc' = [loc EXCEPT !["upg"].cancel = TRUE]
           /\ Goto("ota", "o_backwait")
  <2>1. PICK b \in BOOLEAN : b = TRUE
    OBVIOUS
  <2> DEFINE x == [loc["upg"] EXCEPT !.cancel = b]
  <2>2. loc["upg"] \in Locals /\ loc["ota"] \in Locals
    BY DEF TypeInv, Shape, Typed, Procs
  <2>3. Typed(pc["upg"], x)
    <3>1. Typed(pc["upg"], loc["upg"])
      BY DEF TypeInv, Shape, Procs
    <3>2. x \in Locals /\ x.ret = loc["upg"].ret /\ x.ver = loc["upg"].ver /\ x.txn = loc["upg"].txn
      BY <2>2, LocalTypes
    <3> HIDE DEF x
    <3> QED
      BY <3>1, <3>2 DEF Typed
  <2>4. Typed("o_backwait", loc["ota"])
    BY <2>2, RestTyped DEF OtaLabels
  <2>5. /\ pc' = [pc EXCEPT !["ota"] = "o_backwait", !["upg"] = pc["upg"]]
        /\ loc' = [loc EXCEPT !["ota"] = loc["ota"], !["upg"] = x]
    BY <1>4, <2>1 DEF TypeInv, Shape, Procs, Goto
  <2>6. x = [loc["upg"] EXCEPT !.cancel = TRUE]
    BY <2>1
  <2> HIDE DEF x
  <2>7. Shape' /\ To("o_backwait", loc["ota"], pc["upg"], x)
    BY <2>3, <2>4, <2>5, BothGo DEF TypeInv
  <2> QED
    BY <1>1, <1>2, <1>4, <2>6, <2>7 DEF TypeInv
<1> QED
  BY <1>3, <1>4 DEF OtaSwitchNormal

LEMMA OtaSwitchedNormalStep ==
    ASSUME TypeInv, OtaSwitchedNormal
    PROVE  /\ TypeInv' /\ Same
           /\ \E lu : \E xu :
                /\ To("r_load", [loc["ota"] EXCEPT !.ret = "o_failed"], lu, xu)
                /\ lu = "idle" \/ "orphan" \in Faults
<1>1. StoreInv' /\ Same
  BY SameStore DEF OtaSwitchedNormal
<1>2. PICK again \in RestoredUpgrade :
        /\ nav' = [nav EXCEPT !.mode = IF @ = "upgrade" /\ ~again THEN "normal" ELSE @]
        /\ pc' = [pc EXCEPT !["ota"] = "r_load", !["upg"] = IF again THEN "i_check" ELSE "idle"]
        /\ loc' = [loc EXCEPT !["ota"].ret = "o_failed",
                       !["upg"] = IF again THEN [NoLoc EXCEPT !.ver = request] ELSE NoLoc]
        /\ result' = IF again THEN "none" ELSE result
  BY DEF OtaSwitchedNormal
<1> DEFINE lu == IF again THEN "i_check" ELSE "idle"
           xu == IF again THEN [NoLoc EXCEPT !.ver = request] ELSE NoLoc
           xo == [loc["ota"] EXCEPT !.ret = "o_failed"]
<1>3. OrchTypeOK'
  BY <1>2 DEF OtaSwitchedNormal, TypeInv, OrchTypeOK, Results, NavModes
<1>4. xo \in Locals /\ xo.ret = "o_failed" /\ "o_failed" \in RecoverReturns
  <2>1. loc["ota"] \in Locals /\ "o_failed" \in RecoverReturns
    BY DEF TypeInv, Shape, Typed, Procs, RecoverReturns
  <2> QED
    BY <2>1, LocalTypes
<1>5. xu \in Locals
  BY LocalTypes DEF TypeInv, OrchTypeOK
<1>6. Typed("r_load", xo) /\ Typed(lu, xu)
  BY <1>4, <1>5, LoadTyped, RestTyped, CheckTyped DEF UpgLabels
<1>7. again => "orphan" \in Faults
  BY DEF RestoredUpgrade
<1>8. /\ pc' = [pc EXCEPT !["ota"] = "r_load", !["upg"] = lu]
      /\ loc' = [loc EXCEPT !["ota"] = xo, !["upg"] = xu]
  BY <1>2 DEF TypeInv, Shape, Procs
<1>9. lu = "idle" \/ "orphan" \in Faults
  BY <1>7
<1> HIDE DEF lu, xu, xo
<1>10. Shape' /\ To("r_load", xo, lu, xu)
  BY <1>6, <1>8, BothGo DEF TypeInv
<1> QED
  BY <1>1, <1>3, <1>9, <1>10 DEF TypeInv, xo

LEMMA SendReexecGo ==
    ASSUME TypeInv, NEW x \in Locals, NEW ok \in OtaLabels, NEW fail,
           Typed(fail, x), SendReexec(x, ok, fail)
    PROVE  /\ Shape'
           /\ nav' \in [mode : NavModes, exe : MaybeVersion]
           /\ \/ To(ok, x, "idle", NoLoc)
              \/ OtaTo(fail, x) /\ nav' = nav
<1>1. Typed(ok, x) /\ Typed("idle", NoLoc)
  BY LocalTypes, RestTyped DEF OtaLabels
<1>2. CASE /\ pc' = [pc EXCEPT !["ota"] = ok, !["upg"] = "idle"]
           /\ loc' = [loc EXCEPT !["ota"] = x, !["upg"] = NoLoc]
           /\ \/ nav' = [mode |-> "normal", exe |-> fs.current]
              \/ nav' = NavDown
  <2>1. Shape' /\ To(ok, x, "idle", NoLoc)
    BY <1>1, <1>2, BothGo DEF TypeInv
  <2>2. nav' \in [mode : NavModes, exe : MaybeVersion]
    BY <1>2, VersionTypes DEF TypeInv, StoreInv, StoreTypeOK, NavDown, NavModes
  <2> QED
    BY <2>1, <2>2
<1>3. CASE nav' = nav /\ Goto("ota", fail) /\ loc' = [loc EXCEPT !["ota"] = x]
  <2>1. StepTo("ota", fail, x)
    BY <1>3 DEF Goto, StepTo
  <2> QED
    BY <1>3, <2>1, OtaGo DEF TypeInv, OrchTypeOK
<1> QED
  BY <1>2, <1>3 DEF SendReexec

LEMMA OtaReexecStep ==
    ASSUME TypeInv, OtaReexec
    PROVE  /\ TypeInv' /\ Same
           /\ \E x : /\ x = [loc["ota"] EXCEPT !.ret = "o_restore"]
                     /\ \/ To("o_runtime", x, "idle", NoLoc)
                        \/ OtaTo("r_load", x) /\ nav' = nav
<1> DEFINE x == [loc["ota"] EXCEPT !.ret = "o_restore"]
<1>1. StoreInv' /\ Same
  BY SameStore DEF OtaReexec
<1>2. "o_restore" \in RecoverReturns /\ "o_runtime" \in OtaLabels
  BY DEF RecoverReturns, OtaLabels
<1>3. x \in Locals /\ x.ret = "o_restore"
  <2>1. loc["ota"] \in Locals
    BY DEF TypeInv, Shape, Typed, Procs
  <2> QED
    BY <1>2, <2>1, LocalTypes
<1>4. Typed("r_load", x) /\ SendReexec(x, "o_runtime", "r_load")
  BY <1>2, <1>3, LoadTyped DEF OtaReexec
<1>5. x = [loc["ota"] EXCEPT !.ret = "o_restore"]
  OBVIOUS
<1> HIDE DEF x
<1>6. /\ Shape' /\ nav' \in [mode : NavModes, exe : MaybeVersion]
      /\ \/ To("o_runtime", x, "idle", NoLoc)
         \/ OtaTo("r_load", x) /\ nav' = nav
  BY <1>2, <1>3, <1>4, SendReexecGo
<1>7. OrchTypeOK'
  BY <1>6 DEF OtaReexec, TypeInv, OrchTypeOK
<1> QED
  BY <1>1, <1>5, <1>6, <1>7 DEF TypeInv

LEMMA OtaWaitRuntimeStep ==
    ASSUME TypeInv, OtaWaitRuntime
    PROVE  /\ TypeInv' /\ Same
           /\ \/ OtaTo("o_health", loc["ota"])
              \/ OtaTo("r_load", [loc["ota"] EXCEPT !.ret = "o_unhealthy"])
<1>1. OrchTypeOK'
  BY DEF OtaWaitRuntime, TypeInv, OrchTypeOK, orchVars
<1>2. CASE Goto("ota", "o_health") /\ SameLoc /\ Stay
  BY <1>1, <1>2, OtaMoves, StayStore DEF TypeInv, OtaLabels
<1>3. CASE CallRecover("ota", "o_unhealthy")
  BY <1>1, <1>3, OtaCalls DEF TypeInv, RecoverReturns
<1> QED
  BY <1>2, <1>3 DEF OtaWaitRuntime

LEMMA OtaHealthStep ==
    ASSUME TypeInv, OtaHealth
    PROVE  /\ TypeInv' /\ Same
           /\ \/ OtaTo("c_load", loc["ota"])
              \/ OtaTo("r_load", [loc["ota"] EXCEPT !.ret = "o_unhealthy"])
<1>1. OrchTypeOK'
  BY DEF OtaHealth, TypeInv, OrchTypeOK, orchVars
<1>2. CASE Goto("ota", "c_load") /\ SameLoc /\ Stay
  BY <1>1, <1>2, OtaMoves, StayStore DEF TypeInv, ConfirmLabels
<1>3. CASE CallRecover("ota", "o_unhealthy")
  BY <1>1, <1>3, OtaCalls DEF TypeInv, RecoverReturns
<1> QED
  BY <1>2, <1>3 DEF OtaHealth

LEMMA OtaConfirmedStep ==
    ASSUME TypeInv, OtaConfirmed
    PROVE  /\ TypeInv' /\ Same
           /\ \/ OtaTo("idle", NoLoc)
              \/ /\ pc["ota"] = "c_fail"
                 /\ OtaTo("r_load", [loc["ota"] EXCEPT !.ret = "o_confirmfail"])
<1>1. OrchTypeOK'
  BY DEF OtaConfirmed, Exit, TypeInv, OrchTypeOK, Jobs
<1>2. CASE Exit /\ Stay
  BY <1>1, <1>2, ExitGo, StayStore DEF TypeInv
<1>3. CASE pc["ota"] = "c_fail" /\ CallRecover("ota", "o_confirmfail")
  BY <1>1, <1>3, OtaCalls DEF TypeInv, RecoverReturns
<1> QED
  BY <1>2, <1>3 DEF OtaConfirmed

LEMMA OtaRolledBackStep ==
    ASSUME TypeInv, OtaRolledBack
    PROVE  /\ TypeInv' /\ Same
           /\ \/ OtaTo("idle", NoLoc) /\ nav' = nav
              \/ To("idle", NoLoc, "idle", NoLoc)
<1>1. StoreInv' /\ Same
  BY SameStore DEF OtaRolledBack
<1>2. CASE Exit /\ nav' = nav
  <2>1. OrchTypeOK'
    BY <1>2 DEF OtaRolledBack, Exit, TypeInv, OrchTypeOK, Jobs
  <2> QED
    BY <1>1, <1>2, <2>1, ExitGo DEF TypeInv
<1>3. CASE job' = "none" /\ SendReexec(NoLoc, "idle", "idle")
  <2>1. Typed("idle", NoLoc) /\ "idle" \in OtaLabels /\ NoLoc \in Locals
    BY LocalTypes, RestTyped DEF OtaLabels
  <2>2. /\ Shape' /\ nav' \in [mode : NavModes, exe : MaybeVersion]
        /\ \/ To("idle", NoLoc, "idle", NoLoc)
           \/ OtaTo("idle", NoLoc) /\ nav' = nav
    BY <1>3, <2>1, SendReexecGo
  <2>3. OrchTypeOK'
    BY <1>3, <2>2 DEF OtaRolledBack, TypeInv, OrchTypeOK, Jobs
  <2> QED
    BY <1>1, <2>2, <2>3 DEF TypeInv
<1> QED
  BY <1>2, <1>3 DEF OtaRolledBack

LEMMA PowerLossStep ==
    ASSUME TypeInv, PowerLoss
    PROVE  TypeInv' /\ Kept /\ To("idle", NoLoc, "idle", NoLoc)
<1>1. StoreInv' /\ may'.floor = {fs'.floor} /\ fs'.floor \in may.floor
  BY LosePowerStore DEF PowerLoss, TypeInv
<1>2. Kept
  BY <1>1, VersionTypes DEF Kept, TypeInv, StoreInv, StoreTypeOK
<1>3. Typed("idle", NoLoc)
  BY LocalTypes, RestTyped DEF OtaLabels
<1>4. Shape' /\ To("idle", NoLoc, "idle", NoLoc)
  BY <1>3 DEF PowerLoss, Shape, To, Procs
<1>5. OrchTypeOK'
  BY MaxKillsAssumption, VersionTypes DEF PowerLoss, OrchTypeOK, Jobs, Results, NavDown, NavModes
<1> QED
  BY <1>1, <1>2, <1>4, <1>5 DEF TypeInv

LEMMA OneMoreKill ==
    ASSUME TypeInv, Kill
    PROVE  kills' \in 0 .. MaxKills
BY MaxKillsAssumption DEF Kill, TypeInv, OrchTypeOK

LEMMA KillSteps ==
    ASSUME TypeInv
    PROVE  /\ OtaKilled => TypeInv' /\ Same /\ OtaTo("idle", NoLoc)
           /\ UpgraderKilled => TypeInv' /\ Same /\ UpgTo("u_dead", NoLoc)
           /\ NavKilled => TypeInv' /\ Same /\ UpgTo("idle", NoLoc)
<1>1. ASSUME OtaKilled PROVE TypeInv' /\ Same /\ OtaTo("idle", NoLoc)
  <2>1. StoreInv' /\ Same /\ Shape' /\ OtaTo("idle", NoLoc)
    BY <1>1, SameStore, ExitGo DEF OtaKilled
  <2>2. OrchTypeOK'
    BY <1>1, OneMoreKill DEF OtaKilled, Exit, TypeInv, OrchTypeOK, Jobs
  <2> QED
    BY <2>1, <2>2 DEF TypeInv
<1>2. ASSUME UpgraderKilled PROVE TypeInv' /\ Same /\ UpgTo("u_dead", NoLoc)
  <2>1. StoreInv' /\ Same /\ Shape' /\ UpgTo("u_dead", NoLoc)
    BY <1>2, SameStore, UpgraderGoneGo DEF UpgraderKilled, UpgLabels
  <2>2. OrchTypeOK'
    BY <1>2, OneMoreKill DEF UpgraderKilled, TypeInv, OrchTypeOK
  <2> QED
    BY <2>1, <2>2 DEF TypeInv
<1>3. ASSUME NavKilled PROVE TypeInv' /\ Same /\ UpgTo("idle", NoLoc)
  <2>1. StoreInv' /\ Same /\ Shape' /\ UpgTo("idle", NoLoc)
    BY <1>3, SameStore, UpgraderGoneGo DEF NavKilled, UpgLabels
  <2>2. OrchTypeOK'
    BY <1>3, OneMoreKill, VersionTypes DEF NavKilled, TypeInv, OrchTypeOK, NavDown, NavModes
  <2> QED
    BY <2>1, <2>2 DEF TypeInv
<1> QED
  BY <1>1, <1>2, <1>3

LEMMA InitTypes ==
    ASSUME Init
    PROVE  TypeInv
<1>1. PICK v \in {NoVersion, 1} :
        fs = [txn |-> NoTxn, floor |-> NoVersion, current |-> v,
              rel |-> [r \in Versions |-> IF r = v THEN "complete" ELSE "absent"]]
  BY DEF Init, TxnInit, StoreInit
<1>2. v \in MaybeVersion
  BY MaxVersionAssumption DEF MaybeVersion, Versions
<1>3. StoreInv
  BY <1>1, <1>2, TxnTypes, VersionTypes
     DEF Init, TxnInit, StoreInit, StoreInv, StoreTypeOK, Visible, ReleaseState
<1>4. Typed("idle", NoLoc)
  BY LocalTypes, RestTyped DEF OtaLabels
<1>5. Shape
  BY <1>4 DEF Init, TxnInit, Shape
<1>6. OrchTypeOK
  BY MaxKillsAssumption, VersionTypes DEF Init, OrchTypeOK, Jobs, Results, NavDown, NavModes
<1> QED
  BY <1>3, <1>5, <1>6 DEF TypeInv

LEMMA SameKept ==
    ASSUME TypeInv, Same
    PROVE  Kept
BY SafeWrites DEF TypeInv

LEMMA NextTypes ==
    ASSUME TypeInv, [Next]_vars
    PROVE  TypeInv' /\ Kept
<1>1. CASE StartRun
  <2>1. PICK j \in Jobs, v \in MaybeVersion : Start(j, v)
    BY <1>1, VersionTypes DEF StartRun, Jobs
  <2> QED
    BY <2>1, StartStep, SameKept
<1>2. CASE NavBoot
  BY <1>2, NavBootStep, SameKept
<1>3. CASE UpgraderRestart
  BY <1>3, UpgraderRestartStep, SameKept
<1>4. CASE OtaRecovered \/ OtaFailed \/ OtaInstalled \/ OtaRequest
  BY <1>4, OtaRecoveredStep, OtaFailedStep, OtaInstalledStep, OtaRequestStep, SameKept
<1>5. CASE OtaSwitchUpgrade \/ OtaWaitResult \/ OtaSwitchNormal \/ OtaSwitchedNormal
  BY <1>5, OtaSwitchUpgradeStep, OtaWaitResultStep, OtaSwitchNormalStep,
     OtaSwitchedNormalStep, SameKept
<1>6. CASE OtaReexec \/ OtaWaitRuntime \/ OtaHealth \/ OtaConfirmed \/ OtaRolledBack
  BY <1>6, OtaReexecStep, OtaWaitRuntimeStep, OtaHealthStep, OtaConfirmedStep,
     OtaRolledBackStep, SameKept
<1>7. CASE Library("ota") \/ Library("upg")
  BY <1>7, LibraryTypes DEF Procs
<1>8. CASE UpgraderPublish
  BY <1>8, UpgraderPublishStep, SameKept
<1>9. CASE PowerLoss
  BY <1>9, PowerLossStep
<1>10. CASE OtaKilled \/ UpgraderKilled \/ NavKilled
  BY <1>10, KillSteps, SameKept
<1>11. CASE UNCHANGED vars
  <2>1. StoreInv' /\ Same /\ Shape'
    BY <1>11, SameStore, StayShape DEF vars, TypeInv
  <2>2. OrchTypeOK'
    BY <1>11 DEF vars, TypeInv, OrchTypeOK
  <2> QED
    BY <2>1, <2>2, SameKept DEF TypeInv
<1> QED
  BY <1>1, <1>2, <1>3, <1>4, <1>5, <1>6, <1>7, <1>8, <1>9, <1>10, <1>11
     DEF Next, OtaStep, UpgStep, Fault

(* Whatever fails and whenever: the disk, the processes' locals and        *)
(* Navigator are what the code's types allow, and what is visible is       *)
(* always among what a power loss may leave.                               *)
THEOREM OtaTypes == Spec => []TypeInv
<1>1. Init => TypeInv
  BY InitTypes
<1>2. TypeInv /\ [Next]_vars => TypeInv'
  BY NextTypes
<1> QED
  BY <1>1, <1>2, PTL DEF Spec

THEOREM OtaTypeOK == Spec => []TypeOK
<1>1. TypeInv => TypeOK
  BY DEF TypeInv, TypeOK, StoreInv, OrchTypeOK, Shape, Typed
<1> QED
  BY <1>1, OtaTypes, PTL

(* Anti-rollback never weakens: PersistVersionFloor raises the floor only, *)
(* and whatever image of the data directory a power loss brings back, its  *)
(* floor is no lower than one that could already come back.                *)
THEOREM FloorOnlyRises == Spec => FloorNeverLowered
<1>1. TypeInv /\ [Next]_vars => [\A g \in may'.floor : \E f \in may.floor : g >= f]_vars
  BY NextTypes DEF Kept
<1> QED
  BY <1>1, OtaTypes, PTL DEF Spec, FloorNeverLowered
=============================================================================
