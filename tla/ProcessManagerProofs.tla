------------------------ MODULE ProcessManagerProofs ------------------------
(***************************************************************************)
(* What Navigator's bookkeeping guarantees for every configuration: any    *)
(* number of modules, any modes, any restart limit.                        *)
(***************************************************************************)
EXTENDS ProcessManager, TLAPS

(* The part of the invariant that the calls of a command touch.            *)
Table ==
    /\ rec \in [Modules -> Records]
    /\ child \in [Modules -> {"none", "up", "exited"}]
    /\ RecordConsistent

(* Every update of one record with a consistent pair keeps the table.      *)
LEMMA UpdateTable ==
    ASSUME Table, NEW m, NEW r, NEW c \in {"none", "up", "exited"},
           m \in Modules =>
             /\ r \in Records
             /\ r.state = "running" <=> c # "none"
             /\ r.state = "restarting" <=> r.pending
             /\ r.pending => r.desired,
           rec' = [rec EXCEPT ![m] = r], child' = [child EXCEPT ![m] = c]
    PROVE  Table'
  <1>1. rec' \in [Modules -> Records]
    BY DEF Table
  <1>2. child' \in [Modules -> {"none", "up", "exited"}]
    BY DEF Table
  <1>3. RecordConsistent'
    BY DEF Table, RecordConsistent
  <1> QED BY <1>1, <1>2, <1>3 DEF Table

(* The fields of a record of the table.                                    *)
LEMMA RecFields ==
    ASSUME Table, NEW m \in Modules
    PROVE  /\ rec[m].state \in States /\ rec[m].desired \in BOOLEAN
           /\ rec[m].pending \in BOOLEAN /\ rec[m].restarts \in 0 .. RestartLimit
  BY DEF Table, Records

(* Start, from a record that will not be restarted.                        *)
LEMMA StartTable ==
    ASSUME Table, NEW m, NEW d, NEW n, NEW ok \in BOOLEAN, Start(m, d, n, ok),
           m \in Modules => d \in BOOLEAN /\ n \in 0 .. RestartLimit
    PROVE  Table'
  <1> DEFINE s == IF ok THEN "running" ELSE "failed"
  <1> DEFINE r == Rec(s, d, FALSE, n)
  <1> DEFINE c == IF ok THEN "up" ELSE "none"
  <1>1. rec' = [rec EXCEPT ![m] = r] /\ child' = [child EXCEPT ![m] = c]
    BY DEF Start
  <1>2. s \in States /\ (s = "running" <=> c # "none") /\ s # "restarting"
    BY DEF States
  <1>4. c \in {"none", "up", "exited"}
    OBVIOUS
  <1> HIDE DEF s, c
  <1>3. ASSUME m \in Modules
        PROVE  /\ r \in Records
               /\ r.state = "running" <=> c # "none"
               /\ r.state = "restarting" <=> r.pending
               /\ r.pending => r.desired
    <2>1. d \in BOOLEAN /\ n \in 0 .. RestartLimit
      BY <1>3
    <2>2. /\ r \in Records /\ r.state = s /\ r.pending = FALSE
      BY <2>1, <1>2 DEF Rec, Records
    <2> HIDE DEF r
    <2> QED BY <2>2, <1>2
  <1> HIDE DEF r
  <1> QED BY <1>1, <1>3, <1>4, UpdateTable

(* StartModule, whatever its result.                                       *)
LEMMA StartModuleTable ==
    ASSUME Table, NEW m \in Modules, NEW ok \in BOOLEAN, StartModule(m, ok)
    PROVE  Table'
  <1>0. 0 \in 0 .. RestartLimit
    BY SizeAssumption
  <1>1. CASE /\ rec[m].state = "running"
             /\ rec' = [rec EXCEPT ![m] = Rec("running", TRUE, rec[m].pending, rec[m].restarts)]
             /\ UNCHANGED child
    <2> DEFINE r == Rec("running", TRUE, rec[m].pending, rec[m].restarts)
    <2>1. /\ r \in Records /\ r.state = "running" /\ r.desired = TRUE
          /\ r.pending = rec[m].pending
      BY RecFields DEF Rec, Records, States
    <2>2. child[m] # "none" /\ ~rec[m].pending
      BY <1>1 DEF Table, RecordConsistent
    <2>3. child' = [child EXCEPT ![m] = child[m]]
      BY <1>1 DEF Table
    <2>4. rec' = [rec EXCEPT ![m] = r]
      BY <1>1
    <2>5. child[m] \in {"none", "up", "exited"}
      BY DEF Table
    <2> HIDE DEF r
    <2> QED BY <2>1, <2>2, <2>3, <2>4, <2>5, UpdateTable
  <1>2. CASE Start(m, TRUE, 0, ok)
    BY <1>0, <1>2, StartTable
  <1> QED BY <1>1, <1>2 DEF StartModule

(* StopModule, whatever its result: one that fails found a child, so the   *)
(* record that keeps its state says running.                               *)
LEMMA StopModuleTable ==
    ASSUME Table, NEW m, NEW ok \in BOOLEAN, StopModule(m, ok)
    PROVE  Table'
  <1>0. 0 \in 0 .. RestartLimit
    BY SizeAssumption
  <1>1. CASE rec' = [rec EXCEPT ![m] = Stopped] /\ child' = [child EXCEPT ![m] = "none"]
    <2>1. /\ Stopped \in Records /\ Stopped.state = "stopped"
          /\ Stopped.pending = FALSE
      BY <1>0 DEF Stopped, Rec, Records, States
    <2> QED BY <1>1, <2>1, UpdateTable
  <1>2. CASE /\ child[m] # "none" /\ UNCHANGED child
             /\ rec' = [rec EXCEPT ![m] = Rec(rec[m].state, FALSE, FALSE, 0)]
    <2>1. CASE m \notin Modules
      <3>1. rec' = rec
        BY <1>2, <2>1 DEF Table
      <3> QED BY <1>2, <3>1 DEF Table, RecordConsistent
    <2>2. CASE m \in Modules
      <3> DEFINE r == Rec(rec[m].state, FALSE, FALSE, 0)
      <3>1. /\ r \in Records /\ r.state = rec[m].state /\ r.pending = FALSE
        BY <1>0, <2>2, RecFields DEF Rec, Records
      <3>2. rec[m].state = "running"
        BY <1>2, <2>2 DEF Table, RecordConsistent
      <3>3. child' = [child EXCEPT ![m] = child[m]]
        BY <1>2, <2>2 DEF Table
      <3>4. rec' = [rec EXCEPT ![m] = r]
        BY <1>2
      <3>5. child[m] \in {"none", "up", "exited"}
        BY <2>2 DEF Table
      <3> HIDE DEF r
      <3>6. /\ r.state = "running" <=> child[m] # "none"
            /\ r.state # "restarting" /\ ~r.pending
        BY <1>2, <3>1, <3>2
      <3> QED BY <3>1, <3>3, <3>4, <3>5, <3>6, UpdateTable
    <2> QED BY <2>1, <2>2
  <1> QED BY <1>1, <1>2 DEF StopModule

(* HandleExit: the exited child is gone, and the record with it is         *)
(* stopped, given up or due for a restart.                                 *)
LEMMA HandleExitTable ==
    ASSUME Table, NEW m \in Modules, HandleExit(m)
    PROVE  Table'
  <1>0. /\ rec[m].state = "running" /\ ~rec[m].pending
        /\ child' = [child EXCEPT ![m] = "none"]
    BY DEF Table, RecordConsistent, HandleExit
  <1>1. CASE /\ ~rec[m].desired
             /\ rec' = [rec EXCEPT ![m] = Rec("stopped", FALSE, rec[m].pending, rec[m].restarts)]
    <2> DEFINE r == Rec("stopped", FALSE, rec[m].pending, rec[m].restarts)
    <2>1. r \in Records /\ r.state = "stopped" /\ r.pending = rec[m].pending
      BY RecFields DEF Rec, Records, States
    <2>2. rec' = [rec EXCEPT ![m] = r]
      BY <1>1
    <2> HIDE DEF r
    <2> QED BY <1>0, <2>1, <2>2, UpdateTable
  <1>2. ASSUME NEW kept \in 0 .. rec[m].restarts, kept >= RestartLimit,
               rec' = [rec EXCEPT ![m] = Rec("failed", TRUE, FALSE, kept)]
        PROVE  Table'
    <2> DEFINE r == Rec("failed", TRUE, FALSE, kept)
    <2>0. kept \in 0 .. RestartLimit
      BY <1>2, RecFields, SizeAssumption
    <2>1. r \in Records /\ r.state = "failed" /\ r.pending = FALSE
      BY <2>0 DEF Rec, Records, States
    <2>2. rec' = [rec EXCEPT ![m] = r]
      BY <1>2
    <2> HIDE DEF r
    <2> QED BY <1>0, <2>1, <2>2, UpdateTable
  <1>3. ASSUME NEW kept \in 0 .. rec[m].restarts, kept < RestartLimit,
               rec' = [rec EXCEPT ![m] = Rec("restarting", TRUE, TRUE, kept + 1)]
        PROVE  Table'
    <2> DEFINE r == Rec("restarting", TRUE, TRUE, kept + 1)
    <2>0. kept + 1 \in 0 .. RestartLimit
      BY <1>3, RecFields, SizeAssumption
    <2>1. /\ r \in Records /\ r.state = "restarting" /\ r.pending = TRUE
          /\ r.desired = TRUE
      BY <2>0 DEF Rec, Records, States
    <2>2. rec' = [rec EXCEPT ![m] = r]
      BY <1>3
    <2> HIDE DEF r
    <2> QED BY <1>0, <2>1, <2>2, UpdateTable
  <1> QED BY <1>1, <1>2, <1>3 DEF HandleExit

(* A child that exits by itself stays a zombie, so its record stays right. *)
LEMMA ChildExitsTable ==
    ASSUME Table, NEW m \in Modules, ChildExits(m)
    PROVE  Table'
  BY DEF Table, RecordConsistent, ChildExits

-----------------------------------------------------------------------------
(* The rest of the state: typed, and with the index of a loop in range.    *)
Rest ==
    /\ mode \in Modes \cup {""}
    /\ critical \in BOOLEAN
    /\ phase \in Phases
    /\ op \in Ops
    /\ phase \in {"start", "rb_start", "restart"} => op.i >= 1

Inv == Table /\ Rest

(* The fields of a running command's locals have their types.              *)
LEMMA OpFields ==
    ASSUME op \in Ops
    PROVE  /\ op.target \in Modes /\ op.prev \in SUBSET Modules /\ op.i \in Nat
           /\ op.next \in {"reap", "switch", "quit"}
           /\ op.outcome \in {"none", "ok", "restored", "failed"}
           /\ op.boot \in BOOLEAN
  BY DEF Ops

(* The locals between two commands are well typed.                         *)
LEMMA NoOpType == NoOp \in Ops
  BY ModesAssumption DEF NoOp, Ops

(* The module a switch starts next is a configured one.                    *)
LEMMA ModeModule ==
    ASSUME NEW t \in Modes, NEW i \in Nat, i >= 1, i <= Len(ModeModules[t])
    PROVE  ModeModules[t][i] \in Modules
  <1>1. ModeModules[t] \in Seq(Modules)
    BY ModesAssumption
  <1>2. Len(ModeModules[t]) \in Nat /\ i \in 1 .. Len(ModeModules[t])
    BY <1>1
  <1> QED BY <1>1, <1>2

(* The process table stays consistent across every step.                   *)
LEMMA NextTable ==
    ASSUME Inv, [Next]_vars
    PROVE  Table'
  <1> USE DEF Inv
  <1>0. /\ op.i \in Nat /\ op.target \in Modes /\ op.prev \in SUBSET Modules
        /\ 0 \in 0 .. RestartLimit
    <2>1. op \in Ops
      BY DEF Rest
    <2>2. 0 \in 0 .. RestartLimit
      BY SizeAssumption
    <2> QED BY <2>1, <2>2, OpFields
  <1>1. ASSUME UNCHANGED <<rec, child>> PROVE Table'
    BY <1>1 DEF Table, RecordConsistent
  <1>2. CASE UNCHANGED vars
    BY <1>1, <1>2 DEF vars
  <1>3. CASE NoCommand \/ SwitchDone \/ RollbackDone \/ StopAllDone \/ ReapDone
               \/ RestartSkip \/ RestartDone \/ CheckCritical \/ CmdReload \/ CmdQuit
    BY <1>1, <1>3 DEF NoCommand, SwitchDone, RollbackDone, StopAllDone, ReapDone,
         RestartSkip, RestartDone, CheckCritical, CmdReload, CmdQuit
  <1>4. ASSUME NEW t \in Modes, CmdSwitch(t) PROVE Table'
    BY <1>1, <1>4 DEF CmdSwitch
  <1>5. CASE SwitchStop
    BY <1>1, <1>5, StopModuleTable DEF SwitchStop
  <1>6. CASE SwitchStart
    <2> DEFINE m == ModeModules[op.target][op.i]
    <2>1. m \in Modules
      BY <1>0, <1>6, ModeModule DEF SwitchStart, Rest
    <2>2. UNCHANGED <<rec, child>> \/ \E ok \in BOOLEAN : StartModule(m, ok)
      BY <1>6 DEF SwitchStart
    <2> HIDE DEF m
    <2> QED BY <1>1, <2>1, <2>2, StartModuleTable
  <1>7. CASE RollbackStop
    BY <1>1, <1>7, StopModuleTable DEF RollbackStop
  <1>8. CASE RollbackStart
    <2>1. \/ UNCHANGED <<rec, child>>
          \/ op.i \in Modules /\ \E ok \in BOOLEAN : StartModule(op.i, ok)
      BY <1>0, <1>8 DEF RollbackStart
    <2> QED BY <1>1, <2>1, StartModuleTable
  <1>9. CASE StopAll
    <2>1. \/ UNCHANGED <<rec, child>>
          \/ \E ok \in BOOLEAN : StopModule(op.i - 1, ok)
      BY <1>9 DEF StopAll
    <2> QED BY <1>1, <2>1, StopModuleTable
  <1>10. ASSUME NEW m \in Modules, HandleExit(m) PROVE Table'
    BY <1>10, HandleExitTable
  <1>11. CASE RestartDue
    <2>1. \E ok \in BOOLEAN : Start(op.i, rec[op.i].desired, rec[op.i].restarts, ok)
      BY <1>11 DEF RestartDue
    <2> QED BY <2>1, RecFields, StartTable
  <1>12. ASSUME NEW m \in Modules, CmdStart(m) PROVE Table'
    BY <1>12, StartModuleTable DEF CmdStart
  <1>13. ASSUME NEW m \in Modules, CmdStop(m) PROVE Table'
    BY <1>13, StopModuleTable DEF CmdStop
  <1>14. ASSUME NEW m \in Modules, CmdRestart(m) PROVE Table'
    <2>1. \/ \E ok \in BOOLEAN : Start(m, TRUE, 0, ok)
          \/ StopModule(m, FALSE)
      BY <1>14 DEF CmdRestart
    <2> QED BY <1>0, <2>1, StartTable, StopModuleTable
  <1>15. ASSUME NEW m \in Modules, ChildExits(m) PROVE Table'
    BY <1>15, ChildExitsTable
  <1> QED BY <1>2, <1>3, <1>4, <1>5, <1>6, <1>7, <1>8, <1>9, <1>10, <1>11,
             <1>12, <1>13, <1>14, <1>15 DEF Next, Loop, Command

(* Changing fields of the command's locals keeps them typed.               *)
LEMMA OpUpdate ==
    ASSUME op \in Ops, NEW i \in Nat
    PROVE  /\ [op EXCEPT !.i = i] \in Ops
           /\ [op EXCEPT !.i = i].i = i
           /\ \A x \in {"restored", "failed"} : [op EXCEPT !.outcome = x] \in Ops
           /\ \A x \in {"restored", "failed"} :
                /\ [op EXCEPT !.i = i, !.outcome = x] \in Ops
                /\ [op EXCEPT !.i = i, !.outcome = x].i = i
  BY DEF Ops

(* The prologue of SwitchMode leaves well typed locals.                    *)
LEMMA SwitchToRest ==
    ASSUME NEW t \in Modes, SwitchTo(t)
    PROVE  op' \in Ops /\ phase' = "stop"
  <1>1. Desired \in SUBSET Modules
    BY DEF Desired
  <1> QED BY <1>1, NoOpType DEF SwitchTo, Ops

(* The end of SwitchMode goes on to the reaping or to StopAll.             *)
LEMMA FinishRest ==
    ASSUME Rest, NEW x \in {"none", "ok", "restored", "failed"}, Finish(x)
    PROVE  op' \in Ops /\ phase' \in {"stopall", "reap"}
  <1>1. N + 1 \in Nat
    BY SizeAssumption
  <1>2. phase' \in {"stopall", "reap"}
    BY DEF Finish
  <1>3. op' \in Ops
    BY <1>1 DEF Finish, Rest, Ops
  <1> QED BY <1>2, <1>3

(* Every step of Navigator keeps the part of the invariant that is not     *)
(* about the process table.                                                *)
LEMMA NextRest ==
    ASSUME Inv, [Next]_vars
    PROVE  Rest'
  <1> USE DEF Inv
  <1>0. /\ op \in Ops /\ op.i \in Nat /\ op.target \in Modes
        /\ mode \in Modes \cup {""} /\ phase \in Phases /\ critical \in BOOLEAN
        /\ N \in Nat
    <2>1. op \in Ops
      BY DEF Rest
    <2> QED BY <2>1, OpFields, SizeAssumption DEF Rest
  <1>o. op \in Ops
    BY <1>0
  <1>i. op.i \in Nat
    BY <1>o, OpFields
  <1>p. phase \in {"start", "rb_start", "restart"} => op.i >= 1
    BY DEF Rest
  <1>n. 1 \in Nat /\ N + 1 \in Nat
    BY SizeAssumption
  <1>z. [op EXCEPT !.i = 1] \in Ops /\ [op EXCEPT !.i = 1].i >= 1
    <2>1. [op EXCEPT !.i = 1] \in Ops /\ [op EXCEPT !.i = 1].i = 1
      BY <1>o, <1>n, OpUpdate
    <2> QED BY <2>1
  <1>c. ASSUME NEW m, MarkFailed(m) PROVE critical' \in BOOLEAN
    BY <1>c DEF MarkFailed
  <1>1. CASE UNCHANGED <<mode, critical, phase, op>>
    BY <1>1 DEF Rest
  <1>2. CASE UNCHANGED vars
    BY <1>1, <1>2 DEF vars
  <1>3. CASE NoCommand
    BY <1>0, <1>3 DEF NoCommand, Rest, Phases
  <1>4. ASSUME NEW t \in Modes, CmdSwitch(t) PROVE Rest'
    BY <1>0, <1>4, SwitchToRest DEF CmdSwitch, Rest, Phases
  <1>5. CASE SwitchStop
    <2>1. UNCHANGED <<mode, critical>>
      BY <1>5 DEF SwitchStop
    <2>2. \/ phase' = "start" /\ op' = [op EXCEPT !.i = 1]
          \/ UNCHANGED <<phase, op>>
          \/ phase' = "rb_stop" /\ op' = [op EXCEPT !.outcome = "restored"]
      BY <1>5 DEF SwitchStop
    <2>3. op' \in Ops
      BY <1>o, <1>n, <2>2, OpUpdate
    <2>4. phase' \in Phases
      BY <1>0, <2>2 DEF Phases
    <2>5. phase' \in {"start", "rb_start", "restart"} => op'.i >= 1
      BY <1>p, <1>z, <2>2
    <2> QED BY <1>0, <2>1, <2>3, <2>4, <2>5 DEF Rest
  <1>6. CASE SwitchStart
    <2>1. UNCHANGED <<mode, critical>> /\ phase = "start"
      BY <1>6 DEF SwitchStart
    <2>2. \/ UNCHANGED phase /\ op' = [op EXCEPT !.i = op.i + 1]
          \/ phase' = "rb_stop" /\ op' = [op EXCEPT !.outcome = "restored"]
      BY <1>6 DEF SwitchStart
    <2>3. op.i + 1 \in Nat /\ op.i + 1 >= 1
      BY <1>i
    <2> QED BY <1>0, <2>1, <2>2, <2>3, OpUpdate DEF Rest, Phases
  <1>7. CASE SwitchDone
    <2>1. mode' = op.target /\ critical' = FALSE /\ Finish("ok")
      BY <1>7 DEF SwitchDone
    <2> QED BY <1>0, <2>1, FinishRest DEF Rest, Phases
  <1>8. CASE RollbackStop
    <2>1. UNCHANGED <<mode, critical>> /\ phase = "rb_stop"
      BY <1>8 DEF RollbackStop
    <2>2. \/ phase' = "rb_start" /\ op' = [op EXCEPT !.i = 1]
          \/ UNCHANGED <<phase, op>>
          \/ UNCHANGED phase /\ op' = [op EXCEPT !.outcome = "failed"]
      BY <1>8 DEF RollbackStop
    <2>3. op' \in Ops
      BY <1>o, <1>n, <2>2, OpUpdate
    <2>4. phase' \in Phases
      BY <1>0, <2>2 DEF Phases
    <2>5. phase' \in {"start", "rb_start", "restart"} => op'.i >= 1
      BY <1>p, <1>z, <2>1, <2>2
    <2> QED BY <1>0, <2>1, <2>3, <2>4, <2>5 DEF Rest
  <1>9. CASE RollbackStart
    <2>1. UNCHANGED <<mode, critical, phase>>
      BY <1>9 DEF RollbackStart
    <2>2. \/ op' = [op EXCEPT !.i = op.i + 1]
          \/ op' = [op EXCEPT !.i = op.i + 1, !.outcome = "failed"]
      BY <1>9 DEF RollbackStart
    <2>3. op.i + 1 \in Nat /\ op.i + 1 >= 1
      BY <1>i
    <2> QED BY <1>0, <2>1, <2>2, <2>3, OpUpdate DEF Rest, Phases
  <1>10. CASE RollbackDone
    <2>1. UNCHANGED <<mode, critical>> /\ Finish(op.outcome)
      BY <1>10 DEF RollbackDone
    <2>2. op.outcome \in {"none", "ok", "restored", "failed"}
      BY <1>0, OpFields
    <2> QED BY <1>0, <2>1, <2>2, FinishRest DEF Rest, Phases
  <1>11. CASE StopAll
    <2>1. UNCHANGED <<mode, critical, phase>> /\ phase = "stopall"
      BY <1>11 DEF StopAll
    <2>2. op' = [op EXCEPT !.i = op.i - 1] /\ op.i > 1
      BY <1>11 DEF StopAll
    <2>3. op.i - 1 \in Nat
      BY <1>i, <2>2
    <2> QED BY <1>0, <2>1, <2>2, <2>3, OpUpdate DEF Rest, Phases
  <1>12. CASE StopAllDone
    <2>1. mode' = "" /\ critical' = FALSE
      BY <1>12 DEF StopAllDone
    <2>2. SwitchTo(op.target) \/ (phase' = "gone" /\ UNCHANGED op)
      BY <1>12 DEF StopAllDone
    <2> QED BY <1>0, <2>1, <2>2, SwitchToRest DEF Rest, Phases
  <1>13. ASSUME NEW m \in Modules, HandleExit(m) PROVE Rest'
    <2>1. UNCHANGED <<mode, phase, op>>
      BY <1>13 DEF HandleExit
    <2>2. UNCHANGED critical \/ MarkFailed(m)
      BY <1>13 DEF HandleExit
    <2>3. critical' \in BOOLEAN
      BY <1>0, <1>c, <2>2
    <2> QED BY <1>0, <2>1, <2>3 DEF Rest
  <1>14. CASE ReapDone
    <2>1. UNCHANGED <<mode, critical>> /\ phase' = "restart" /\ op' = [op EXCEPT !.i = 1]
      BY <1>14 DEF ReapDone
    <2>2. op' \in Ops /\ op'.i >= 1
      BY <1>z, <2>1
    <2> QED BY <1>0, <2>1, <2>2 DEF Rest, Phases
  <1>15. CASE RestartDue
    <2>1. UNCHANGED <<mode, phase>> /\ op' = [op EXCEPT !.i = op.i + 1]
      BY <1>15 DEF RestartDue
    <2>2. UNCHANGED critical \/ MarkFailed(op.i)
      BY <1>15 DEF RestartDue
    <2>3. critical' \in BOOLEAN
      BY <1>0, <1>c, <2>2
    <2>4. op.i + 1 \in Nat /\ op.i + 1 >= 1
      BY <1>i
    <2> QED BY <1>0, <2>1, <2>3, <2>4, OpUpdate DEF Rest
  <1>16. CASE RestartSkip
    <2>1. UNCHANGED <<mode, critical, phase>> /\ op' = [op EXCEPT !.i = op.i + 1]
      BY <1>16 DEF RestartSkip
    <2>2. op.i + 1 \in Nat /\ op.i + 1 >= 1
      BY <1>i
    <2> QED BY <1>0, <2>1, <2>2, OpUpdate DEF Rest
  <1>17. CASE RestartDone
    BY <1>0, <1>17 DEF RestartDone, Rest, Phases
  <1>18. CASE CheckCritical
    <2>1. UNCHANGED <<mode, critical>>
      BY <1>18 DEF CheckCritical
    <2>2. \/ phase' = "stopall" /\ op' = [NoOp EXCEPT !.i = N + 1, !.next = "quit"]
          \/ phase' = "command" /\ op' = NoOp
      BY <1>18 DEF CheckCritical
    <2>3. op' \in Ops
      BY <1>n, <2>2, NoOpType DEF Ops
    <2> QED BY <1>0, <2>1, <2>2, <2>3 DEF Rest, Phases
  <1>19. ASSUME NEW m \in Modules, CmdStart(m) \/ CmdStop(m) \/ CmdRestart(m)
         PROVE  Rest'
    <2>1. UNCHANGED <<mode, critical, op>> /\ phase' = "reap"
      BY <1>19 DEF CmdStart, CmdStop, CmdRestart
    <2> QED BY <1>0, <2>1 DEF Rest, Phases
  <1>20. CASE CmdReload
    <2>1. /\ UNCHANGED <<mode, critical>> /\ phase' = "stopall" /\ mode # ""
          /\ op' = [op EXCEPT !.target = mode, !.i = N + 1, !.next = "switch"]
      BY <1>20 DEF CmdReload
    <2>2. mode \in Modes
      BY <1>0, <2>1
    <2>3. op' \in Ops
      BY <1>o, <1>n, <2>1, <2>2 DEF Ops
    <2> QED BY <1>0, <2>1, <2>3 DEF Rest, Phases
  <1>21. CASE CmdQuit
    <2>1. /\ UNCHANGED <<mode, critical>> /\ phase' = "reap"
          /\ op' = [op EXCEPT !.next = "quit"]
      BY <1>21 DEF CmdQuit
    <2>2. op' \in Ops
      BY <1>o, <1>n, <2>1 DEF Ops
    <2> QED BY <1>0, <2>1, <2>2 DEF Rest, Phases
  <1>22. ASSUME NEW m \in Modules, ChildExits(m) PROVE Rest'
    BY <1>1, <1>22 DEF ChildExits
  <1> QED BY <1>2, <1>3, <1>4, <1>5, <1>6, <1>7, <1>8, <1>9, <1>10, <1>11, <1>12,
             <1>13, <1>14, <1>15, <1>16, <1>17, <1>18, <1>19, <1>20, <1>21, <1>22
          DEF Next, Loop, Command

(* The constructor establishes the inductive invariant.                    *)
LEMMA InitInv == Init => Inv
  <1> SUFFICES ASSUME Init PROVE Inv
    OBVIOUS
  <1>1. Stopped \in Records /\ Stopped.state = "stopped" /\ Stopped.pending = FALSE
    BY SizeAssumption DEF Stopped, Rec, Records, States
  <1>2. Table
    BY <1>1 DEF Init, Table, RecordConsistent
  <1>3. Rest
    BY NoOpType DEF Init, Rest, Phases, Ops
  <1> QED BY <1>2, <1>3 DEF Inv

(* The typing and consistency of Navigator's state for every configuration.*)
THEOREM Consistent == Spec => []Inv
  <1>1. Inv /\ [Next]_vars => Inv'
    BY NextTable, NextRest DEF Inv
  <1> QED BY <1>1, InitInv, PTL DEF Spec

(* Navigator's variables stay in their types: restarts never exceed the    *)
(* limit HandleExit counts against.                                        *)
THEOREM TypeCorrect == Spec => []TypeOK
  <1>1. Inv => TypeOK
    BY DEF Inv, Table, Rest, TypeOK
  <1> QED BY <1>1, Consistent, PTL

(* Records and children agree in every reachable state.                    *)
THEOREM RecordsConsistent == Spec => []RecordConsistent
  <1>1. Inv => RecordConsistent
    BY DEF Inv, Table
  <1> QED BY <1>1, Consistent, PTL

-----------------------------------------------------------------------------
(* A critical module that has used up its restarts is either still to be   *)
(* found by the check at the end of this round of the loop, or Navigator   *)
(* is already on its way out.                                              *)

Spent(m) == rec[m].restarts > 0 /\ rec[m].state = "failed"
NoneSpent == \A m \in Critical : ~Spent(m)
Noticed ==
    \/ phase \in {"reap", "restart", "check"} /\ critical = TRUE
    \/ phase \in {"stopall", "gone"} /\ op.next = "quit"
CriticalNoted == NoneSpent \/ Noticed


(* Replacing a record by one that is not spent leaves none spent.          *)
LEMMA UpdateSpent ==
    ASSUME Table, NoneSpent, NEW m, NEW r, rec' = [rec EXCEPT ![m] = r],
           r.restarts = 0 \/ r.state # "failed"
    PROVE  NoneSpent'
  BY OptionsAssumption DEF Table, NoneSpent, Spent

(* StartModule and StopModule forget the restarts of what they touch.      *)
LEMMA StartModuleSpent ==
    ASSUME Table, NoneSpent, NEW m, NEW ok, StartModule(m, ok)
    PROVE  NoneSpent'
  BY UpdateSpent DEF StartModule, Start, Rec

(* StopModule clears the restart history, so it cannot make a spent        *)
(* critical module appear.                                                 *)
LEMMA StopModuleSpent ==
    ASSUME Table, NoneSpent, NEW m, NEW ok, StopModule(m, ok)
    PROVE  NoneSpent'
  BY UpdateSpent DEF StopModule, Stopped, Rec

(* A record that fails is that of a module that is not critical, or the    *)
(* failure is remembered.                                                  *)
LEMMA UpdateMarked ==
    ASSUME Table, NEW m, NEW r, rec' = [rec EXCEPT ![m] = r],
           NoneSpent \/ critical = TRUE, MarkFailed(m)
    PROVE  NoneSpent' \/ critical' = TRUE
  <1>1. CASE critical = TRUE \/ m \in Critical
    BY <1>1 DEF MarkFailed
  <1>2. CASE NoneSpent /\ m \notin Critical
    BY <1>2, OptionsAssumption DEF Table, NoneSpent, Spent
  <1> QED BY <1>1, <1>2

(* Every step keeps a critical failure noticed: the step that causes one   *)
(* sets critical_failure_, and only a switch that restarts the module, or  *)
(* the exit, clears it.                                                    *)
LEMMA NextNoted ==
    ASSUME Inv, CriticalNoted, [Next]_vars
    PROVE  CriticalNoted'
  <1> USE DEF Inv
  <1>o. op \in Ops
    BY DEF Rest
  <1>r. ASSUME NoneSpent, UNCHANGED rec PROVE NoneSpent'
    BY <1>r DEF NoneSpent, Spent
  <1>s. ASSUME phase \in {"command", "stop", "start", "rb_stop", "rb_start"}
        PROVE  NoneSpent
    BY <1>s DEF CriticalNoted, Noticed
  <1>g. ASSUME NoneSpent' PROVE CriticalNoted'
    BY <1>g DEF CriticalNoted
  <1>1. CASE UNCHANGED <<rec, critical, phase, op>>
    BY <1>1, <1>r DEF CriticalNoted, Noticed
  <1>2. CASE UNCHANGED vars
    BY <1>1, <1>2 DEF vars
  <1>3. ASSUME NoCommand \/ (\E t \in Modes : CmdSwitch(t)) \/ SwitchDone
               \/ RollbackDone \/ CmdReload \/ CmdQuit
        PROVE  CriticalNoted'
    <2>1. UNCHANGED rec /\ phase \in {"command", "stop", "start", "rb_stop", "rb_start"}
      BY <1>3 DEF NoCommand, CmdSwitch, SwitchDone, RollbackDone, CmdReload, CmdQuit
    <2> QED BY <2>1, <1>s, <1>r, <1>g
  <1>4. ASSUME NEW m \in Modules, CmdStart(m) \/ CmdStop(m) \/ CmdRestart(m)
        PROVE  CriticalNoted'
    <2>1. NoneSpent
      BY <1>4, <1>s DEF CmdStart, CmdStop, CmdRestart
    <2>2. \/ \E ok : StartModule(m, ok)
          \/ \E ok : StopModule(m, ok)
          \/ \E ok : Start(m, TRUE, 0, ok)
      BY <1>4 DEF CmdStart, CmdStop, CmdRestart
    <2>3. ASSUME NEW ok, Start(m, TRUE, 0, ok) PROVE NoneSpent'
      <3> DEFINE r == Rec(IF ok THEN "running" ELSE "failed", TRUE, FALSE, 0)
      <3>1. rec' = [rec EXCEPT ![m] = r] /\ r.restarts = 0
        BY <2>3 DEF Start, Rec
      <3> HIDE DEF r
      <3> QED BY <2>1, <3>1, UpdateSpent
    <2> QED BY <2>1, <2>2, <2>3, <1>g, StartModuleSpent, StopModuleSpent
  <1>5. ASSUME SwitchStop \/ SwitchStart \/ RollbackStop \/ RollbackStart
        PROVE  CriticalNoted'
    <2>1. NoneSpent
      BY <1>5, <1>s DEF SwitchStop, SwitchStart, RollbackStop, RollbackStart
    <2>2. \/ UNCHANGED rec
          \/ \E m, ok : StartModule(m, ok)
          \/ \E m, ok : StopModule(m, ok)
      BY <1>5 DEF SwitchStop, SwitchStart, RollbackStop, RollbackStart
    <2> QED BY <2>1, <2>2, <1>g, <1>r, StartModuleSpent, StopModuleSpent
  <1>6. CASE StopAll
    <2>1. UNCHANGED rec \/ \E m, ok : StopModule(m, ok)
      BY <1>6 DEF StopAll
    <2>2. NoneSpent => NoneSpent'
      BY <2>1, <1>r, StopModuleSpent
    <2>3. op' = [op EXCEPT !.i = op.i - 1] /\ UNCHANGED phase /\ phase = "stopall"
      BY <1>6 DEF StopAll
    <2>4. op'.next = op.next
      BY <1>o, <2>3 DEF Ops
    <2> QED BY <2>2, <2>3, <2>4 DEF CriticalNoted, Noticed
  <1>7. CASE StopAllDone
    <2>1. UNCHANGED rec /\ phase = "stopall"
      BY <1>7 DEF StopAllDone
    <2>2. op.next = "quit" => phase' = "gone" /\ op' = op
      BY <1>7 DEF StopAllDone
    <2> QED BY <2>1, <2>2, <1>r DEF CriticalNoted, Noticed
  <1>8. ASSUME NEW m \in Modules, HandleExit(m) PROVE CriticalNoted'
    <2>1. phase = "reap" /\ phase' = "reap"
      BY <1>8 DEF HandleExit
    <2>2. NoneSpent \/ critical = TRUE
      BY <2>1 DEF CriticalNoted, Noticed
    <2>3. \/ \E p, n : /\ rec' = [rec EXCEPT ![m] = Rec("stopped", FALSE, p, n)]
                       /\ UNCHANGED critical
          \/ \E n : rec' = [rec EXCEPT ![m] = Rec("failed", TRUE, FALSE, n)] /\ MarkFailed(m)
          \/ \E n : /\ rec' = [rec EXCEPT ![m] = Rec("restarting", TRUE, TRUE, n)]
                    /\ UNCHANGED critical
      BY <1>8 DEF HandleExit
    <2>4. ASSUME NEW r, rec' = [rec EXCEPT ![m] = r], r.state # "failed", UNCHANGED critical
          PROVE  NoneSpent' \/ critical' = TRUE
      BY <2>2, <2>4, UpdateSpent
    <2>6. ASSUME NEW r, rec' = [rec EXCEPT ![m] = r], MarkFailed(m)
          PROVE  NoneSpent' \/ critical' = TRUE
      BY <2>2, <2>6, UpdateMarked
    <2>7. NoneSpent' \/ critical' = TRUE
      <3>1. ASSUME NEW p, NEW n, rec' = [rec EXCEPT ![m] = Rec("stopped", FALSE, p, n)],
                   UNCHANGED critical
            PROVE  NoneSpent' \/ critical' = TRUE
        <4> DEFINE r == Rec("stopped", FALSE, p, n)
        <4>1. r.state # "failed"
          BY DEF Rec
        <4>2. rec' = [rec EXCEPT ![m] = r]
          BY <3>1
        <4> HIDE DEF r
        <4> QED BY <2>4, <3>1, <4>1, <4>2
      <3>2. ASSUME NEW n, rec' = [rec EXCEPT ![m] = Rec("failed", TRUE, FALSE, n)],
                   MarkFailed(m)
            PROVE  NoneSpent' \/ critical' = TRUE
        BY <2>6, <3>2
      <3>3. ASSUME NEW n, rec' = [rec EXCEPT ![m] = Rec("restarting", TRUE, TRUE, n)],
                   UNCHANGED critical
            PROVE  NoneSpent' \/ critical' = TRUE
        <4> DEFINE r == Rec("restarting", TRUE, TRUE, n)
        <4>1. r.state # "failed"
          BY DEF Rec
        <4>2. rec' = [rec EXCEPT ![m] = r]
          BY <3>3
        <4> HIDE DEF r
        <4> QED BY <2>4, <3>3, <4>1, <4>2
      <3> QED BY <2>3, <3>1, <3>2, <3>3
    <2> QED BY <2>1, <2>7 DEF CriticalNoted, Noticed
  <1>9. ASSUME ReapDone \/ RestartSkip \/ RestartDone PROVE CriticalNoted'
    <2>1. /\ UNCHANGED <<rec, critical>> /\ phase \in {"reap", "restart"}
          /\ phase' \in {"restart", "check"}
      BY <1>9 DEF ReapDone, RestartSkip, RestartDone
    <2> QED BY <2>1, <1>r DEF CriticalNoted, Noticed
  <1>10. CASE RestartDue
    <2>1. phase = "restart" /\ phase' = "restart"
      BY <1>10 DEF RestartDue
    <2>2. NoneSpent \/ critical = TRUE
      BY <2>1 DEF CriticalNoted, Noticed
    <2>3. \E d, n : \/ /\ rec' = [rec EXCEPT ![op.i] = Rec("running", d, FALSE, n)]
                       /\ UNCHANGED critical
                    \/ /\ rec' = [rec EXCEPT ![op.i] = Rec("failed", d, FALSE, n)]
                       /\ MarkFailed(op.i)
      BY <1>10 DEF RestartDue, Start
    <2>4. ASSUME NEW r, rec' = [rec EXCEPT ![op.i] = r], r.state # "failed", UNCHANGED critical
          PROVE  NoneSpent' \/ critical' = TRUE
      BY <2>2, <2>4, UpdateSpent
    <2>6. ASSUME NEW r, rec' = [rec EXCEPT ![op.i] = r], MarkFailed(op.i)
          PROVE  NoneSpent' \/ critical' = TRUE
      BY <2>2, <2>6, UpdateMarked
    <2>7. NoneSpent' \/ critical' = TRUE
      <3>1. ASSUME NEW d, NEW n, rec' = [rec EXCEPT ![op.i] = Rec("running", d, FALSE, n)],
                   UNCHANGED critical
            PROVE  NoneSpent' \/ critical' = TRUE
        <4> DEFINE r == Rec("running", d, FALSE, n)
        <4>1. r.state # "failed"
          BY DEF Rec
        <4>2. rec' = [rec EXCEPT ![op.i] = r]
          BY <3>1
        <4> HIDE DEF r
        <4> QED BY <2>4, <3>1, <4>1, <4>2
      <3>2. ASSUME NEW d, NEW n, rec' = [rec EXCEPT ![op.i] = Rec("failed", d, FALSE, n)],
                   MarkFailed(op.i)
            PROVE  NoneSpent' \/ critical' = TRUE
        BY <2>6, <3>2
      <3> QED BY <2>3, <3>1, <3>2
    <2> QED BY <2>1, <2>7 DEF CriticalNoted, Noticed
  <1>11. CASE CheckCritical
    <2>1. phase = "check" /\ UNCHANGED rec
      BY <1>11 DEF CheckCritical
    <2>2. CASE critical
      <3>1. phase' = "stopall" /\ op' = [NoOp EXCEPT !.i = N + 1, !.next = "quit"]
        BY <1>11, <2>2 DEF CheckCritical
      <3>2. op'.next = "quit"
        BY <3>1 DEF NoOp
      <3> QED BY <3>1, <3>2 DEF CriticalNoted, Noticed
    <2>3. CASE ~critical
      BY <2>1, <2>3, <1>r DEF CriticalNoted, Noticed
    <2> QED BY <2>2, <2>3
  <1>12. ASSUME NEW m \in Modules, ChildExits(m) PROVE CriticalNoted'
    BY <1>1, <1>12 DEF ChildExits
  <1> QED BY <1>2, <1>3, <1>4, <1>5, <1>6, <1>7, <1>8, <1>9, <1>10, <1>11, <1>12
          DEF Next, Loop, Command

(* For every configuration, Navigator takes no command while a critical    *)
(* module is out of restarts: HandleExit and RestartPending set            *)
(* critical_failure_, and Run tests it before it waits for a command.      *)
THEOREM CriticalFailureNoticed == Spec => []CriticalNotIgnored
  <1>1. Init => CriticalNoted
    <2>1. Stopped.state # "failed"
      BY DEF Stopped, Rec
    <2> QED BY <2>1, OptionsAssumption DEF Init, CriticalNoted, NoneSpent, Spent
  <1>2. Inv /\ CriticalNoted /\ [Next]_vars => CriticalNoted'
    BY NextNoted
  <1>3. CriticalNoted => CriticalNotIgnored
    BY DEF CriticalNoted, Noticed, NoneSpent, Spent, CriticalNotIgnored
  <1> QED BY <1>1, <1>2, <1>3, Consistent, PTL DEF Spec

-----------------------------------------------------------------------------
(* How far a mode switch, or its rollback, has come.                       *)

InMode(m) == rec[m].desired /\ rec[m].state = "running"
StartProgress ==
    phase = "start" =>
        /\ Desired \subseteq ModeSet(op.target)
        /\ \A k \in 1 .. Len(ModeModules[op.target]) :
             k < op.i => InMode(ModeModules[op.target][k])
RollbackProgress ==
    /\ phase \in {"rb_stop", "rb_start"} => op.outcome \in {"restored", "failed"}
    /\ phase = "rb_start" =>
         /\ Desired \subseteq op.prev
         /\ \A m \in op.prev : m < op.i =>
              /\ rec[m].desired
              /\ op.outcome # "failed" => rec[m].state = "running"
Progress == StartProgress /\ RollbackProgress

(* StartModule makes one module desired, running if it came up, and leaves *)
(* the other records alone.                                                *)
LEMMA StartModuleEffect ==
    ASSUME Table, NEW m \in Modules, NEW ok, StartModule(m, ok)
    PROVE  /\ rec'[m].desired
           /\ ok => rec'[m].state = "running"
           /\ \A k \in Modules : k # m => rec'[k] = rec[k]
           /\ Desired' = Desired \cup {m}
  <1>1. CASE rec[m].state = "running"
    <2> DEFINE r == Rec("running", TRUE, rec[m].pending, rec[m].restarts)
    <2>1. r.state = "running" /\ r.desired
      BY DEF Rec
    <2>2. rec' = [rec EXCEPT ![m] = r]
      BY <1>1 DEF StartModule
    <2> HIDE DEF r
    <2> QED BY <2>1, <2>2 DEF Table, Desired
  <1>2. CASE rec[m].state # "running"
    <2> DEFINE r == Rec(IF ok THEN "running" ELSE "failed", TRUE, FALSE, 0)
    <2>1. (ok => r.state = "running") /\ r.desired
      BY DEF Rec
    <2>2. rec' = [rec EXCEPT ![m] = r]
      BY <1>2 DEF StartModule, Start
    <2> HIDE DEF r
    <2> QED BY <2>1, <2>2 DEF Table, Desired
  <1> QED BY <1>1, <1>2

(* SwitchMode's progress and that of its rollback, kept by every step.     *)
LEMMA NextProgress ==
    ASSUME Inv, Progress, [Next]_vars
    PROVE  Progress'
  <1> USE DEF Inv
  <1>o. op \in Ops
    BY DEF Rest
  <1>i. op.i \in Nat
    BY <1>o, OpFields
  <1>1. CASE UNCHANGED <<rec, phase, op>>
    BY <1>1 DEF Progress, StartProgress, RollbackProgress, InMode, Desired
  <1>2. CASE UNCHANGED vars
    BY <1>1, <1>2 DEF vars
  <1>3. ASSUME phase' \notin {"start", "rb_stop", "rb_start"} PROVE Progress'
    BY <1>3 DEF Progress, StartProgress, RollbackProgress
  <1>r. ASSUME phase' = "rb_stop", op' = [op EXCEPT !.outcome = "restored"]
        PROVE  Progress'
    <2>1. op'.outcome = "restored"
      BY <1>o, <1>r DEF Ops
    <2> QED BY <1>r, <2>1 DEF Progress, StartProgress, RollbackProgress
  <1>4. CASE SwitchStop
    <2>1. CASE Undesired = {}
      <3>1. phase' = "start" /\ op' = [op EXCEPT !.i = 1] /\ UNCHANGED rec
        BY <1>4, <2>1 DEF SwitchStop
      <3>2. op'.target = op.target /\ op'.i = 1
        BY <1>o, <3>1 DEF Ops
      <3>3. Desired' \subseteq ModeSet(op'.target)
        BY <2>1, <3>1, <3>2 DEF Undesired, Desired
      <3>4. ASSUME NEW k \in 1 .. Len(ModeModules[op'.target]) PROVE ~(k < op'.i)
        BY <3>2
      <3> QED BY <3>1, <3>3, <3>4 DEF Progress, StartProgress, RollbackProgress
    <2>2. CASE Undesired # {}
      <3>1. \/ phase' = "stop"
            \/ phase' = "rb_stop" /\ op' = [op EXCEPT !.outcome = "restored"]
        BY <1>4, <2>2 DEF SwitchStop
      <3> QED BY <1>3, <1>r, <3>1
    <2> QED BY <2>1, <2>2
  <1>5. CASE SwitchStart
    <2>p. PICK t, i, m : t = op.target /\ i = op.i /\ m = ModeModules[t][i]
      OBVIOUS
    <2>1. phase = "start" /\ i <= Len(ModeModules[t])
      BY <1>5, <2>p DEF SwitchStart
    <2>0. i >= 1
      BY <2>1, <2>p DEF Rest
    <2>2. t \in Modes /\ i \in Nat /\ ModeModules[t] \in Seq(Modules)
      BY <1>o, <2>p, OpFields, ModesAssumption
    <2>3. m \in Modules /\ m \in ModeSet(t)
      BY <2>0, <2>1, <2>2, <2>p DEF ModeSet
    <2>4. \/ InMode(m) /\ UNCHANGED <<rec, phase>> /\ op' = [op EXCEPT !.i = i + 1]
          \/ StartModule(m, TRUE) /\ UNCHANGED phase /\ op' = [op EXCEPT !.i = i + 1]
          \/ phase' = "rb_stop" /\ op' = [op EXCEPT !.outcome = "restored"]
      BY <1>5, <2>p DEF SwitchStart, InMode
    <2>5. ASSUME UNCHANGED phase, op' = [op EXCEPT !.i = i + 1],
                 InMode(m)', Desired' \subseteq Desired \cup {m},
                 \A k \in Modules : k # m => rec'[k] = rec[k]
          PROVE  Progress'
      <3>1. op'.target = t /\ op'.i = i + 1
        BY <1>o, <2>5, <2>p DEF Ops
      <3>2. Desired' \subseteq ModeSet(t)
        BY <2>1, <2>3, <2>5, <2>p DEF Progress, StartProgress
      <3>3. ASSUME NEW k \in 1 .. Len(ModeModules[t]), k < i + 1
            PROVE  InMode(ModeModules[t][k])'
        <4>1. ModeModules[t][k] \in Modules
          BY <2>2
        <4>2. CASE ModeModules[t][k] = m
          BY <2>5, <4>2
        <4>3. CASE ModeModules[t][k] # m
          <5>1. k < i
            BY <2>2, <3>3, <4>3, <2>p
          <5>2. InMode(ModeModules[t][k])
            BY <2>1, <5>1, <2>p DEF Progress, StartProgress
          <5> QED BY <2>5, <4>1, <4>3, <5>2 DEF InMode
        <4> QED BY <4>2, <4>3
      <3>4. StartProgress'
        BY <3>1, <3>2, <3>3 DEF StartProgress
      <3> QED BY <2>1, <2>5, <3>4 DEF Progress, RollbackProgress
    <2>6. ASSUME StartModule(m, TRUE)
          PROVE  /\ InMode(m)' /\ Desired' \subseteq Desired \cup {m}
                 /\ \A k \in Modules : k # m => rec'[k] = rec[k]
      BY <2>3, <2>6, StartModuleEffect DEF InMode
    <2>7. ASSUME InMode(m), UNCHANGED rec
          PROVE  /\ InMode(m)' /\ Desired' \subseteq Desired \cup {m}
                 /\ \A k \in Modules : k # m => rec'[k] = rec[k]
      BY <2>7 DEF InMode, Desired
    <2> QED BY <2>4, <2>5, <2>6, <2>7, <1>r
  <1>6. CASE RollbackStop
    <2>1. phase = "rb_stop"
      BY <1>6 DEF RollbackStop
    <2>2. op.outcome \in {"restored", "failed"}
      BY <2>1 DEF Progress, RollbackProgress
    <2>3. CASE Desired \ op.prev = {}
      <3>1. phase' = "rb_start" /\ op' = [op EXCEPT !.i = 1] /\ UNCHANGED rec
        BY <1>6, <2>3 DEF RollbackStop
      <3>2. op'.prev = op.prev /\ op'.i = 1 /\ op'.outcome = op.outcome
        BY <1>o, <3>1 DEF Ops
      <3>3. Desired' \subseteq op'.prev
        BY <2>3, <3>1, <3>2 DEF Desired
      <3>4. op'.prev \subseteq Modules
        BY <1>o, <3>2 DEF Ops
      <3>5. ASSUME NEW k \in op'.prev PROVE ~(k < op'.i)
        BY <3>2, <3>4 DEF Modules
      <3> QED BY <2>2, <3>1, <3>2, <3>3, <3>5 DEF Progress, StartProgress, RollbackProgress
    <2>4. CASE Desired \ op.prev # {}
      <3>1. phase' = "rb_stop" /\ (op' = op \/ op' = [op EXCEPT !.outcome = "failed"])
        BY <1>6, <2>1, <2>4 DEF RollbackStop
      <3>2. op'.outcome \in {"restored", "failed"}
        BY <1>o, <2>2, <3>1 DEF Ops
      <3> QED BY <3>1, <3>2 DEF Progress, StartProgress, RollbackProgress
    <2> QED BY <2>3, <2>4
  <1>7. CASE RollbackStart
    <2>p. PICK i, prev : i = op.i /\ prev = op.prev
      OBVIOUS
    <2>1. /\ phase = "rb_start" /\ phase' = "rb_start" /\ i <= N
          /\ op.outcome \in {"restored", "failed"}
      BY <1>7, <2>p DEF RollbackStart, Progress, RollbackProgress
    <2>0. i >= 1
      BY <2>1, <2>p DEF Rest
    <2>2. i \in Modules /\ prev \subseteq Modules
      BY <1>i, <1>o, <2>0, <2>1, <2>p, SizeAssumption DEF Modules, Ops
    <2>3. \/ /\ i \in prev /\ StartModule(i, TRUE) /\ op' = [op EXCEPT !.i = i + 1]
          \/ /\ i \in prev /\ StartModule(i, FALSE)
             /\ op' = [op EXCEPT !.i = i + 1, !.outcome = "failed"]
          \/ i \notin prev /\ UNCHANGED rec /\ op' = [op EXCEPT !.i = i + 1]
      BY <1>7, <2>p DEF RollbackStart
    <2>4. /\ op'.prev = prev /\ op'.i = i + 1
          /\ op'.outcome \in {"restored", "failed"}
          /\ op'.outcome # "failed" => op.outcome # "failed"
      BY <1>o, <2>1, <2>3, <2>p DEF Ops
    <2>5. Desired' \subseteq prev
      <3>1. Desired \subseteq prev
        BY <2>1, <2>p DEF Progress, RollbackProgress
      <3>2. CASE UNCHANGED rec
        BY <3>1, <3>2 DEF Desired
      <3>3. ASSUME NEW ok, i \in prev, StartModule(i, ok) PROVE Desired' \subseteq prev
        BY <2>2, <3>1, <3>3, StartModuleEffect
      <3> QED BY <2>3, <3>2, <3>3
    <2>6. ASSUME NEW k \in prev, k < i + 1
          PROVE  rec'[k].desired /\ (op'.outcome # "failed" => rec'[k].state = "running")
      <3>1. k \in Modules
        BY <2>2
      <3>2. CASE k = i
        <4>1. StartModule(i, TRUE) \/ (StartModule(i, FALSE) /\ op'.outcome = "failed")
          BY <1>o, <2>3, <2>6, <3>2 DEF Ops
        <4> QED BY <2>2, <3>2, <4>1, StartModuleEffect
      <3>3. CASE k # i
        <4>1. k < i
          BY <2>2, <2>6, <3>1, <3>3 DEF Modules
        <4>2. rec[k].desired /\ (op.outcome # "failed" => rec[k].state = "running")
          BY <2>1, <4>1, <2>p DEF Progress, RollbackProgress
        <4>3. rec'[k] = rec[k]
          BY <2>2, <2>3, <3>1, <3>3, StartModuleEffect
        <4> QED BY <2>4, <4>2, <4>3
      <3> QED BY <3>2, <3>3
    <2>7. RollbackProgress'
      BY <2>4, <2>5, <2>6 DEF RollbackProgress
    <2> QED BY <2>1, <2>7 DEF Progress, StartProgress
  <1>8. ASSUME \/ SwitchDone \/ RollbackDone \/ NoCommand \/ StopAll \/ StopAllDone
               \/ (\E m \in Modules : HandleExit(m)) \/ ReapDone \/ RestartDue
               \/ RestartSkip \/ RestartDone \/ CheckCritical \/ Command
        PROVE  Progress'
    <2>1. phase' \notin {"start", "rb_stop", "rb_start"}
      BY <1>8 DEF SwitchDone, RollbackDone, NoCommand, StopAll, StopAllDone, HandleExit,
         ReapDone, RestartDue, RestartSkip, RestartDone, CheckCritical, Command, Finish,
         SwitchTo, CmdSwitch, CmdStart, CmdStop, CmdRestart, CmdReload, CmdQuit
    <2> QED BY <2>1, <1>3
  <1>9. ASSUME NEW m \in Modules, ChildExits(m) PROVE Progress'
    BY <1>1, <1>9 DEF ChildExits
  <1> QED BY <1>2, <1>4, <1>5, <1>6, <1>7, <1>8, <1>9 DEF Next, Loop

(* For every configuration and wherever it fails, SwitchMode ends with     *)
(* exactly the modules of the new mode desired and running, or, after      *)
(* restore_previous_mode, with exactly those that were desired before.     *)
THEOREM SwitchIsAllOrNothing == Spec => SwitchAllOrNothing
  <1>1. Init => Progress
    BY DEF Init, Progress, StartProgress, RollbackProgress
  <1>2. Inv /\ Progress /\ [Next]_vars => Progress'
    BY NextProgress
  <1>3. Inv /\ Progress /\ [Next]_vars => [SwitchEnds => SwitchResult]_vars
    <2> SUFFICES ASSUME Inv, Progress, Next, SwitchEnds PROVE SwitchResult
      OBVIOUS
    <2>o. op \in Ops
      BY DEF Inv, Rest
    <2>1. SwitchDone \/ RollbackDone
      BY DEF SwitchEnds, Next, Loop, Command, NoCommand, SwitchStop, SwitchStart,
         RollbackStop, RollbackStart, StopAll, StopAllDone, HandleExit, ReapDone,
         RestartDue, RestartSkip, RestartDone, CheckCritical, CmdSwitch, CmdStart,
         CmdStop, CmdRestart, CmdReload, CmdQuit, ChildExits
    <2>2. CASE SwitchDone
      <3>1. /\ phase = "start" /\ op.i > Len(ModeModules[op.target])
            /\ mode' = op.target /\ UNCHANGED rec
        BY <2>2 DEF SwitchDone
      <3>2. op'.outcome = "ok"
        BY <2>o, <2>2 DEF SwitchDone, Finish, Ops
      <3>3. \A k \in 1 .. Len(ModeModules[op.target]) : InMode(ModeModules[op.target][k])
        <4>1. op.i \in Nat /\ ModeModules[op.target] \in Seq(Modules)
          BY <2>o, OpFields, ModesAssumption
        <4>2. Len(ModeModules[op.target]) \in Nat
          BY <4>1
        <4> QED BY <3>1, <4>1, <4>2 DEF Progress, StartProgress
      <3>4. \A m \in ModeSet(op.target) : m \in Modules /\ InMode(m)
        <4>1. ModeModules[op.target] \in Seq(Modules)
          BY <2>o, OpFields, ModesAssumption
        <4> QED BY <3>3, <4>1 DEF ModeSet
      <3>5. Desired = ModeSet(op.target)
        BY <3>1, <3>4 DEF Progress, StartProgress, Desired, InMode
      <3> QED BY <3>1, <3>2, <3>4, <3>5 DEF SwitchResult, Desired, InMode
    <2>3. CASE RollbackDone
      <3>1. /\ phase = "rb_start" /\ op.i > N /\ UNCHANGED <<rec, mode>>
        BY <2>3 DEF RollbackDone
      <3>2. op'.outcome = op.outcome /\ op.outcome \in {"restored", "failed"}
        BY <2>o, <2>3, <3>1 DEF RollbackDone, Finish, Ops, Progress, RollbackProgress
      <3>3. op.prev \subseteq Modules
        BY <2>o DEF Ops
      <3>4. \A m \in op.prev : m < op.i
        <4>1. op.i \in Nat
          BY <2>o, OpFields
        <4> QED BY <3>1, <3>3, <4>1, SizeAssumption DEF Modules
      <3>5. /\ Desired = op.prev
            /\ op.outcome # "failed" => \A m \in op.prev : rec[m].state = "running"
        BY <3>1, <3>3, <3>4 DEF Progress, RollbackProgress, Desired
      <3> QED BY <3>1, <3>2, <3>5 DEF SwitchResult, Desired
    <2> QED BY <2>1, <2>2, <2>3
  <1> QED BY <1>1, <1>2, <1>3, Consistent, PTL DEF Spec, SwitchAllOrNothing

-----------------------------------------------------------------------------
(* When every stop succeeds (StopMayFail FALSE: neither kill nor waitpid   *)
(* reports an error), no process runs outside what is desired, and StopAll *)
(* leaves none of those it has passed.                                     *)

Wanted == \A m \in Modules : child[m] # "none" => rec[m].desired
Swept ==
    /\ phase = "stopall" => \A m \in Modules : m >= op.i => child[m] = "none"
    /\ phase = "gone" => \A m \in Modules : child[m] = "none"

(* A record updated together with its process stays the owner of it.       *)
LEMMA UpdateWanted ==
    ASSUME Table, Wanted, NEW m, NEW r, NEW c, c # "none" => r.desired,
           rec' = [rec EXCEPT ![m] = r], child' = [child EXCEPT ![m] = c]
    PROVE  Wanted'
  BY DEF Table, Wanted

(* A stop that cannot fail leaves no process and no wish for one.          *)
LEMMA StopModuleOwned ==
    ASSUME Table, Wanted, ~StopMayFail, NEW m, NEW ok, StopModule(m, ok)
    PROVE  /\ Wanted'
           /\ child' = [child EXCEPT ![m] = "none"]
  <1>1. rec' = [rec EXCEPT ![m] = Stopped] /\ child' = [child EXCEPT ![m] = "none"]
    BY DEF StopModule
  <1> QED BY <1>1, UpdateWanted

(* What a start spawns is desired.                                         *)
LEMMA StartOwned ==
    ASSUME Table, Wanted, NEW m, NEW n, NEW ok, NEW d, d = TRUE, Start(m, d, n, ok)
    PROVE  Wanted'
  <1> DEFINE r == Rec(IF ok THEN "running" ELSE "failed", d, FALSE, n)
  <1> DEFINE c == IF ok THEN "up" ELSE "none"
  <1>1. rec' = [rec EXCEPT ![m] = r] /\ child' = [child EXCEPT ![m] = c]
    BY DEF Start
  <1>2. r.desired
    BY DEF Rec
  <1> HIDE DEF r, c
  <1> QED BY <1>1, <1>2, UpdateWanted

(* The same of StartModule, which may find the process there already.      *)
LEMMA StartModuleOwned ==
    ASSUME Table, Wanted, NEW m \in Modules, NEW ok, StartModule(m, ok)
    PROVE  Wanted'
  <1>1. CASE /\ rec' = [rec EXCEPT ![m] = Rec("running", TRUE, rec[m].pending, rec[m].restarts)]
             /\ UNCHANGED child
    <2> DEFINE r == Rec("running", TRUE, rec[m].pending, rec[m].restarts)
    <2>1. r.desired
      BY DEF Rec
    <2>2. rec' = [rec EXCEPT ![m] = r] /\ child' = [child EXCEPT ![m] = child[m]]
      BY <1>1 DEF Table
    <2> HIDE DEF r
    <2> QED BY <2>1, <2>2, UpdateWanted
  <1>2. CASE Start(m, TRUE, 0, ok)
    BY <1>2, StartOwned
  <1> QED BY <1>1, <1>2 DEF StartModule

(* Every step keeps the processes owned: RestartPending starts what is     *)
(* pending, and only a desired module is.                                  *)
LEMMA NextWanted ==
    ASSUME Inv, Wanted, ~StopMayFail, [Next]_vars
    PROVE  Wanted'
  <1> USE DEF Inv
  <1>1. ASSUME UNCHANGED <<rec, child>> PROVE Wanted'
    BY <1>1 DEF Wanted
  <1>2. CASE UNCHANGED vars
    BY <1>1, <1>2 DEF vars
  <1>3. CASE NoCommand \/ SwitchDone \/ RollbackDone \/ StopAllDone \/ ReapDone
               \/ RestartSkip \/ RestartDone \/ CheckCritical \/ CmdReload \/ CmdQuit
    BY <1>1, <1>3 DEF NoCommand, SwitchDone, RollbackDone, StopAllDone, ReapDone,
         RestartSkip, RestartDone, CheckCritical, CmdReload, CmdQuit
  <1>4. ASSUME NEW t \in Modes, CmdSwitch(t) PROVE Wanted'
    BY <1>1, <1>4 DEF CmdSwitch
  <1>5. CASE SwitchStop
    <2>1. UNCHANGED <<rec, child>> \/ \E m, ok : StopModule(m, ok)
      BY <1>5 DEF SwitchStop
    <2> QED BY <1>1, <2>1, StopModuleOwned
  <1>6. CASE SwitchStart
    <2> DEFINE m == ModeModules[op.target][op.i]
    <2>1. m \in Modules
      BY <1>6, ModeModule, OpFields DEF SwitchStart, Rest
    <2>2. UNCHANGED <<rec, child>> \/ \E ok : StartModule(m, ok)
      BY <1>6 DEF SwitchStart
    <2> HIDE DEF m
    <2> QED BY <1>1, <2>1, <2>2, StartModuleOwned
  <1>7. CASE RollbackStop
    <2>1. UNCHANGED <<rec, child>> \/ \E m, ok : StopModule(m, ok)
      BY <1>7 DEF RollbackStop
    <2> QED BY <1>1, <2>1, StopModuleOwned
  <1>8. CASE RollbackStart
    <2>1. \/ UNCHANGED <<rec, child>>
          \/ op.i \in Modules /\ \E ok : StartModule(op.i, ok)
      BY <1>8, OpFields DEF RollbackStart, Rest
    <2> QED BY <1>1, <2>1, StartModuleOwned
  <1>9. CASE StopAll
    <2>1. UNCHANGED <<rec, child>> \/ \E m, ok : StopModule(m, ok)
      BY <1>9 DEF StopAll
    <2> QED BY <1>1, <2>1, StopModuleOwned
  <1>10. ASSUME NEW m \in Modules, HandleExit(m) PROVE Wanted'
    <2>1. /\ child' = [child EXCEPT ![m] = "none"]
          /\ \E r : rec' = [rec EXCEPT ![m] = r]
      BY <1>10 DEF HandleExit
    <2> QED BY <2>1, UpdateWanted
  <1>11. CASE RestartDue
    <2>1. PICK ok : Start(op.i, rec[op.i].desired, rec[op.i].restarts, ok)
      BY <1>11 DEF RestartDue
    <2>0. op.i \in Nat
      BY OpFields DEF Rest
    <2>a. phase = "restart" /\ op.i <= N /\ rec[op.i].pending
      BY <1>11 DEF RestartDue
    <2>b. op.i >= 1
      BY <2>a DEF Rest
    <2>2. rec[op.i].pending /\ op.i \in Modules
      BY <2>a, <2>b, <2>0, SizeAssumption DEF Modules
    <2>3. rec[op.i].desired = TRUE
      BY <2>2, RecFields DEF Table, RecordConsistent
    <2> QED BY <2>1, <2>3, StartOwned
  <1>12. ASSUME NEW m \in Modules, CmdStart(m) PROVE Wanted'
    BY <1>12, StartModuleOwned DEF CmdStart
  <1>13. ASSUME NEW m \in Modules, CmdStop(m) PROVE Wanted'
    BY <1>13, StopModuleOwned DEF CmdStop
  <1>14. ASSUME NEW m \in Modules, CmdRestart(m) PROVE Wanted'
    <2>1. (\E ok : Start(m, TRUE, 0, ok)) \/ StopModule(m, FALSE)
      BY <1>14 DEF CmdRestart
    <2> QED BY <2>1, StartOwned, StopModuleOwned
  <1>15. ASSUME NEW m \in Modules, ChildExits(m) PROVE Wanted'
    <2>1. child' = [child EXCEPT ![m] = "exited"] /\ child[m] = "up" /\ UNCHANGED rec
      BY <1>15 DEF ChildExits
    <2> QED BY <2>1 DEF Table, Wanted
  <1> QED BY <1>2, <1>3, <1>4, <1>5, <1>6, <1>7, <1>8, <1>9, <1>10, <1>11,
             <1>12, <1>13, <1>14, <1>15 DEF Next, Loop, Command

(* Every step keeps what StopAll has swept: it starts above the last       *)
(* module, and nothing is spawned before it is done.                       *)
LEMMA NextSwept ==
    ASSUME Inv, Wanted, Swept, ~StopMayFail, [Next]_vars
    PROVE  Swept'
  <1> USE DEF Inv
  <1>o. op \in Ops /\ op.i \in Nat /\ N \in Nat
    BY OpFields, SizeAssumption DEF Rest
  <1>1. ASSUME UNCHANGED <<child, phase, op>> PROVE Swept'
    BY <1>1 DEF Swept
  <1>2. CASE UNCHANGED vars
    BY <1>1, <1>2 DEF vars
  <1>3. ASSUME phase' \notin {"stopall", "gone"} PROVE Swept'
    BY <1>3 DEF Swept
  <1>4. ASSUME phase' = "stopall", op'.i = N + 1 PROVE Swept'
    BY <1>o, <1>4 DEF Swept, Modules
  <1>5. ASSUME \/ NoCommand \/ SwitchStop \/ SwitchStart \/ RollbackStop \/ RollbackStart
               \/ (\E m \in Modules : HandleExit(m)) \/ ReapDone \/ RestartDue
               \/ RestartSkip \/ RestartDone
               \/ (\E t \in Modes : CmdSwitch(t))
               \/ (\E m \in Modules : CmdStart(m) \/ CmdStop(m) \/ CmdRestart(m))
               \/ CmdQuit
        PROVE  Swept'
    <2>1. phase' \notin {"stopall", "gone"}
      BY <1>5 DEF NoCommand, SwitchStop, SwitchStart, RollbackStop, RollbackStart,
         HandleExit, ReapDone, RestartDue, RestartSkip, RestartDone, SwitchTo,
         CmdSwitch, CmdStart, CmdStop, CmdRestart, CmdQuit
    <2> QED BY <2>1, <1>3
  <1>6. ASSUME NEW x, Finish(x) PROVE Swept'
    <2>1. op'.i = N + 1
      BY <1>o, <1>6 DEF Finish, Ops
    <2>2. phase' \in {"stopall", "reap"}
      BY <1>6 DEF Finish
    <2> QED BY <2>1, <2>2, <1>3, <1>4
  <1>7. CASE SwitchDone \/ RollbackDone
    BY <1>6, <1>7 DEF SwitchDone, RollbackDone
  <1>8. CASE CmdReload
    <2>1. phase' = "stopall" /\ op'.i = N + 1
      BY <1>o, <1>8 DEF CmdReload, Ops
    <2> QED BY <2>1, <1>4
  <1>9. CASE CheckCritical
    <2>1. \/ phase' = "command"
          \/ phase' = "stopall" /\ op' = [NoOp EXCEPT !.i = N + 1, !.next = "quit"]
      BY <1>9 DEF CheckCritical
    <2>2. phase' = "command" \/ (phase' = "stopall" /\ op'.i = N + 1)
      BY <2>1 DEF NoOp
    <2> QED BY <2>2, <1>3, <1>4
  <1>10. CASE StopAll
    <2> DEFINE n == op.i - 1
    <2>1. phase = "stopall" /\ UNCHANGED phase /\ op.i > 1 /\ n \in Nat
      BY <1>o, <1>10 DEF StopAll
    <2>2. op'.i = n
      BY <1>o, <1>10 DEF StopAll, Ops
    <2>3. \/ child[n] = "none" /\ UNCHANGED child
          \/ \E ok : StopModule(n, ok)
      BY <1>10 DEF StopAll
    <2>4. \/ child[n] = "none" /\ UNCHANGED child
          \/ child' = [child EXCEPT ![n] = "none"]
      BY <2>3, StopModuleOwned
    <2>5. \A m \in Modules : m > n => child[m] = "none"
      BY <1>o, <2>1 DEF Swept, Modules
    <2> HIDE DEF n
    <2>6. ASSUME NEW m \in Modules, m >= n PROVE child'[m] = "none"
      <3>1. m > n \/ m = n
        BY <2>1, <2>6 DEF Modules
      <3> QED BY <3>1, <2>4, <2>5 DEF Table
    <2> QED BY <2>1, <2>2, <2>6 DEF Swept
  <1>11. CASE StopAllDone
    <2>1. /\ phase = "stopall" /\ op.i <= 1 /\ UNCHANGED child
          /\ phase' \in {"stop", "gone"}
      BY <1>11 DEF StopAllDone, SwitchTo
    <2>2. \A m \in Modules : child[m] = "none"
      BY <1>o, <2>1 DEF Swept, Modules
    <2> QED BY <2>1, <2>2 DEF Swept
  <1>12. ASSUME NEW m \in Modules, ChildExits(m) PROVE Swept'
    <2>1. /\ child[m] = "up" /\ child' = [child EXCEPT ![m] = "exited"]
          /\ UNCHANGED <<phase, op>>
      BY <1>12 DEF ChildExits
    <2>2. ASSUME NEW k \in Modules, child[k] = "none" PROVE child'[k] = "none"
      BY <2>1, <2>2 DEF Table
    <2> QED BY <2>1, <2>2 DEF Swept
  <1> QED BY <1>2, <1>5, <1>7, <1>8, <1>9, <1>10, <1>11, <1>12 DEF Next, Loop, Command

(* With Inv, both hold in every state.                                     *)
LEMMA Owned ==
    ASSUME ~StopMayFail
    PROVE  Spec => [](Wanted /\ Swept)
  <1>1. Init => Wanted /\ Swept
    <2>1. SUFFICES ASSUME Init PROVE Wanted /\ Swept
      OBVIOUS
    <2> QED BY <2>1 DEF Init, Wanted, Swept
  <1>2. Inv /\ Wanted /\ Swept /\ [Next]_vars => (Wanted /\ Swept)'
    BY NextWanted, NextSwept
  <1> QED BY <1>1, <1>2, Consistent, PTL DEF Spec

(* Where the system reports no error of a stop, no module process survives *)
(* Run: StopAll passes every module, in whatever state it finds it.        *)
THEOREM NoModuleSurvives ==
    ASSUME ~StopMayFail
    PROVE  Spec => []NothingLeftBehind
  <1>1. Swept => NothingLeftBehind
    BY DEF Swept, NothingLeftBehind
  <1> QED BY <1>1, Owned, PTL

(* Under the same condition a switch that succeeds leaves no process of a  *)
(* module that is not of the mode: SwitchMode's last loop ends with        *)
(* nothing else desired, and only what is desired has a process.           *)
THEOREM SwitchIsExclusive ==
    ASSUME ~StopMayFail
    PROVE  Spec => ModeIsExclusive
  <1>1. Init => Progress
    BY DEF Init, Progress, StartProgress, RollbackProgress
  <1>2. Inv /\ Progress /\ [Next]_vars => Progress'
    BY NextProgress
  <1> DEFINE Exclusive == phase = "start" /\ phase' = "reap" =>
                            \A m \in Modules \ ModeSet(op.target) : child'[m] = "none"
  <1>3. Inv /\ Progress /\ Wanted /\ [Next]_vars => [Exclusive]_vars
    <2> SUFFICES ASSUME Inv, Progress, Wanted, Next, phase = "start", phase' = "reap",
                        NEW m \in Modules, m \notin ModeSet(op.target)
                 PROVE  child'[m] = "none"
      OBVIOUS
    <2>1. SwitchDone
      BY DEF Next, Loop, Command, NoCommand, SwitchStop, SwitchStart, RollbackStop,
         RollbackStart, RollbackDone, StopAll, StopAllDone, HandleExit, ReapDone,
         RestartDue, RestartSkip, RestartDone, CheckCritical, CmdSwitch, CmdStart,
         CmdStop, CmdRestart, CmdReload, CmdQuit, ChildExits
    <2>2. ~rec[m].desired
      BY DEF Progress, StartProgress, Desired
    <2> QED BY <2>1, <2>2 DEF Wanted, SwitchDone
  <1> HIDE DEF Exclusive
  <1>4. Spec => [][Exclusive]_vars
    BY <1>1, <1>2, <1>3, Consistent, Owned, PTL DEF Spec
  <1> QED BY <1>4 DEF Exclusive, ModeIsExclusive
=============================================================================
