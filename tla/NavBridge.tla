------------------------------ MODULE NavBridge ------------------------------
(***************************************************************************)
(* The ROS bridge: BridgeService, whose calls exclude each other, over     *)
(* Ros2Nav2Provider, which sends goals to the Nav2 action server.  The     *)
(* provider's callbacks run on its executor thread, so a goal's answer, a  *)
(* cancellation's answer and a goal's result can arrive at any point of a  *)
(* call, or after the call has given up waiting for them.                  *)
(***************************************************************************)
EXTENDS Naturals, FiniteSets, Scene

CONSTANT MaxGoals      \* how many goals are ever sent
ASSUME NavAssumption == MaxGoals \in Nat \ {0}

VARIABLES
    brg,   \* BridgeService: its status and the call that holds its mutex
    nav    \* the provider, the action client's futures and the Nav2 server

navVars == <<brg, nav>>
Goals == 1..MaxGoals
Active(st) == st \in {"accepted", "executing"}
Terminal(st) == st \in {"cancelled", "failed", "succeeded"}

NavInit ==
    /\ brg = [st |-> "idle", goal |-> 0, since |-> "no", asked |-> FALSE,
              pc |-> "idle", op |-> "none", arg |-> 0]
    /\ nav = [st |-> "disconnected", goal |-> 0, gen |-> 0, ack |-> FALSE,
              cancelling |-> FALSE, handle |-> 0, overtaken |-> FALSE,
              phase |-> [g \in Goals |-> "none"],       \* at the server
              answer |-> [g \in Goals |-> "none"],      \* the goal's future
              callback |-> [g \in Goals |-> FALSE],     \* queued at the executor
              result |-> [g \in Goals |-> "none"],
              ending |-> {},                            \* cancellations accepted
              call |-> "none", auto |-> "none", about |-> 0]

(*** The provider ***)

(* A late acceptance is taken over without being cancelled.                 *)
LateGoalKept(n, g) ==
    IF g # n.gen THEN n
    ELSE IF n.answer[g] = "null"
    THEN [n EXCEPT !.ack = FALSE, !.st = "rejected"]
    ELSE [n EXCEPT !.ack = FALSE, !.handle = g]

(* HandleGoalResponseLocked: a goal that is accepted after its caller has   *)
(* given up is cancelled.                                                   *)
HandleGoalResponse(n, g) ==
    IF g # n.gen THEN n
    ELSE IF n.answer[g] = "null"
    THEN [n EXCEPT !.ack = FALSE, !.st = "rejected"]
    ELSE IF n.st = "disconnected"
    THEN [n EXCEPT !.ack = FALSE, !.handle = g, !.cancelling = TRUE, !.auto = "asked"]
    ELSE [n EXCEPT !.ack = FALSE, !.handle = g]

ResolvePendingAck(n) ==
    IF ~n.ack \/ n.answer[n.gen] = "none" THEN n
    ELSE IF n.answer[n.gen] = "null" THEN [n EXCEPT !.ack = FALSE, !.st = "rejected"]
    ELSE [n EXCEPT !.ack = FALSE, !.handle = n.gen, !.cancelling = TRUE,
                   !.auto = "asked", !.st = "disconnected"]

AutoCancelAnswered(n) ==
    IF ~n.cancelling \/ n.auto \notin {"yes", "no"} THEN n
    ELSE [n EXCEPT !.auto = "none", !.st = IF n.auto = "no" THEN "disconnected" ELSE @]

ServerSeen(n, ready) ==
    IF n.ack \/ n.cancelling THEN n
    ELSE IF n.st = "idle" /\ ~ready THEN [n EXCEPT !.st = "disconnected"]
    ELSE IF n.st = "disconnected" /\ ready THEN [n EXCEPT !.st = "idle", !.goal = 0]
    ELSE n

ProviderStatus(n, ready) == ServerSeen(AutoCancelAnswered(ResolvePendingAck(n)), ready)

(*** BridgeService, one call at a time ***)

BrgAt(p) == brg.pc = p

(* The call returns: its operation's last assignments to status_.           *)
Return(b) == brg' = [b EXCEPT !.pc = "idle", !.op = "none", !.arg = 0]

CallBridge(op, g) ==
    /\ BrgAt("idle") /\ Use("goal")
    /\ op = "submit" => nav.gen < MaxGoals
    /\ brg' = [brg EXCEPT !.pc = "refresh", !.op = op, !.arg = g]
    /\ UNCHANGED nav

GoalTimesOut ==
    /\ brg.since = "yes" /\ Use("expire")
    /\ brg' = [brg EXCEPT !.since = "expired"]
    /\ UNCHANGED nav

TimedOut(b) == IF b.st = "cancelled" THEN [b EXCEPT !.st = "timedOut"] ELSE b

(* What RefreshLocked takes over from the provider.                         *)
Merged(b, n) ==
    LET other == b.goal # 0 /\ n.goal # 0 /\ b.goal # n.goal
        unclear == b.asked /\ ~Active(n.st) /\ ~Terminal(n.st)
    IN IF other \/ unclear THEN b
       ELSE [b EXCEPT !.st = n.st, !.goal = n.goal,
                      !.since = IF Active(n.st) THEN @ ELSE "no"]

RefreshFrozen ==
    /\ BrgAt("refresh") /\ brg.st = "timedOut"
    /\ brg' = [brg EXCEPT !.pc = "act"]
    /\ UNCHANGED nav

Refresh(ready) ==
    /\ BrgAt("refresh") /\ brg.st # "timedOut"
    /\ nav' = ProviderStatus(nav, ready)
    /\ LET b == Merged(brg, nav')
       IN brg' = IF b.asked /\ Terminal(b.st)
                 THEN [TimedOut(b) EXCEPT !.since = "no", !.pc = "act"]
                 ELSE IF Active(b.st) /\ b.since = "expired" /\ ~b.asked
                 THEN [b EXCEPT !.pc = "expire"]
                 ELSE [b EXCEPT !.pc = "act"]

(* Provider's CancelNavigationGoal begins, from Refresh (pc expire) or from *)
(* the call: it may return at once, or wait for the server.                 *)
Cancelled(b, n) ==
    LET done == Terminal(n.st)
        taken == [b EXCEPT !.st = n.st, !.goal = n.goal, !.since = "no"]
    IN IF b.pc \in {"expire", "expireAnswer", "expireEnd"}
       THEN brg' = [(IF done THEN TimedOut(taken) ELSE b) EXCEPT !.asked = TRUE, !.pc = "act"]
       ELSE Return(IF done THEN [taken EXCEPT !.asked = FALSE] ELSE b)

CancelBegins(ready) ==
    /\ \/ BrgAt("expire")
       \/ BrgAt("act") /\ brg.op = "cancel" /\ Active(brg.st) /\ brg.arg = brg.goal
    /\ IF brg.goal # nav.goal \/ ~Active(nav.st)
       THEN Cancelled(brg, nav) /\ UNCHANGED nav
       ELSE IF nav.handle = 0
       THEN nav' = ProviderStatus(nav, ready) /\ Cancelled(brg, nav')
       ELSE /\ nav' = [nav EXCEPT !.call = "asked", !.about = nav.handle]
            /\ brg' = [brg EXCEPT !.pc = IF BrgAt("expire") THEN "expireAnswer" ELSE "answer"]

CancelAnswered ==
    /\ brg.pc \in {"expireAnswer", "answer"} /\ nav.call \in {"yes", "no"}
    /\ nav' = [nav EXCEPT !.call = "none"]
    /\ IF nav.call = "no" THEN Cancelled(brg, nav)
       ELSE brg' = [brg EXCEPT !.pc = IF BrgAt("answer") THEN "end" ELSE "expireEnd"]

(* The wait for the answer or for the result ends, by timeout or because    *)
(* the goal is no longer active.                                            *)
CancelWaitEnds ==
    /\ \/ brg.pc \in {"expireAnswer", "answer"} /\ Use("slow")
       \/ brg.pc \in {"expireEnd", "end"} /\ (Use("slow") \/ ~Active(nav.st))
    /\ nav' = [nav EXCEPT !.call = "none"]
    /\ Cancelled(brg, nav)

BridgeRefuses ==
    /\ BrgAt("act")
    /\ \/ brg.op = "get"
       \/ brg.op = "submit" /\ (brg.st = "disconnected" \/ Active(brg.st))
       \/ brg.op = "cancel" /\ (~Active(brg.st) \/ brg.arg # brg.goal)
    /\ Return(brg)
    /\ UNCHANGED nav

(* BridgeService takes over what the provider's Submit returned.            *)
Submitted(b, n) ==
    Return([b EXCEPT !.st = n.st, !.goal = n.goal, !.asked = FALSE,
                     !.since = IF Active(n.st) THEN "yes" ELSE "no"])

Submitting == BrgAt("act") /\ brg.op = "submit" /\ brg.st # "disconnected" /\ ~Active(brg.st)

ServerUnavailable ==
    /\ Submitting /\ Use("slow")
    /\ nav' = [nav EXCEPT !.st = "disconnected", !.goal = brg.arg]
    /\ Submitted(brg, nav')

Guarded(n) == n.ack \/ n.cancelling \/ Active(n.st)

(* Two locked sections and the send are one step: the first has raised the  *)
(* generation, the bridge has no other call, and what comes of an earlier    *)
(* goal in between looks at neither pending_ack_ nor the status.             *)
GoalSent ==
    /\ Submitting
    /\ IF Guarded(nav) THEN Submitted(brg, nav) /\ UNCHANGED nav
       ELSE /\ nav' = [nav EXCEPT !.gen = @ + 1, !.st = "accepted", !.goal = brg.arg,
                                  !.ack = TRUE, !.phase[nav.gen + 1] = "asked"]
            /\ brg' = [brg EXCEPT !.pc = "wait"]

AckReady ==
    /\ BrgAt("wait") /\ nav.answer[nav.gen] # "none"
    /\ nav' = IF nav.ack THEN HandleGoalResponse(nav, nav.gen) ELSE nav
    /\ Submitted(brg, nav')

(* wait_for has timed out; the lock is taken only in the next step.         *)
AckLate ==
    /\ BrgAt("wait") /\ Use("slow") /\ nav.answer[nav.gen] = "none"
    /\ brg' = [brg EXCEPT !.pc = "late"]
    /\ UNCHANGED nav

GaveUp(n) == [n EXCEPT !.st = "disconnected", !.overtaken = @ \/ ~n.ack]

SubmitGivesUp ==
    /\ BrgAt("late")
    /\ nav' = GaveUp(nav)
    /\ Submitted(brg, nav')

(*** The executor thread ***)

GoalResponse(g) ==
    /\ nav.callback[g]
    /\ nav' = [HandleGoalResponse(nav, g) EXCEPT !.callback[g] = FALSE]
    /\ UNCHANGED brg

Feedback(g) ==
    /\ nav.phase[g] = "live" /\ ~nav.callback[g] /\ g = nav.gen /\ Active(nav.st)
    /\ nav' = [nav EXCEPT !.st = "executing"]
    /\ UNCHANGED brg

ResultArrives(g) ==
    /\ nav.result[g] \notin {"none", "taken"} /\ ~nav.callback[g]
    /\ LET n == [nav EXCEPT !.result[g] = "taken"]
       IN nav' = IF g # nav.gen THEN n
                 ELSE [n EXCEPT !.cancelling = FALSE, !.auto = "none",
                                !.st = nav.result[g], !.handle = 0]
    /\ UNCHANGED brg

(*** The Nav2 action server ***)

NavAnswers(g, ok) ==
    /\ nav.phase[g] = "asked"
    /\ nav' = [nav EXCEPT !.phase[g] = IF ok THEN "live" ELSE "ended",
                          !.answer[g] = IF ok THEN "handle" ELSE "null",
                          !.callback[g] = TRUE]
    /\ UNCHANGED brg

NavCancels(ok) ==
    /\ UNCHANGED brg
    /\ \/ /\ nav.call = "asked" /\ (ok => nav.phase[nav.about] = "live")
          /\ nav' = [nav EXCEPT !.call = IF ok THEN "yes" ELSE "no",
                                !.ending = IF ok THEN @ \cup {nav.about} ELSE @]
       \/ /\ nav.auto = "asked" /\ (ok => nav.phase[nav.handle] = "live")
          /\ nav' = [nav EXCEPT !.auto = IF ok THEN "yes" ELSE "no",
                                !.ending = IF ok THEN @ \cup {nav.handle} ELSE @]

NavEnds(g, how) ==
    /\ nav.phase[g] = "live" /\ (how = "cancelled" => g \in nav.ending)
    /\ nav' = [nav EXCEPT !.phase[g] = "ended", !.result[g] = how]
    /\ UNCHANGED brg

BridgeStep ==
    \/ GoalTimesOut \/ RefreshFrozen \/ CancelAnswered \/ CancelWaitEnds \/ BridgeRefuses
    \/ ServerUnavailable \/ GoalSent \/ AckReady \/ AckLate \/ SubmitGivesUp
    \/ \E ready \in BOOLEAN : Refresh(ready) \/ CancelBegins(ready)

NavNext ==
    \/ \E op \in {"submit", "cancel", "get"} : CallBridge(op, IF op = "submit" THEN nav.gen + 1 ELSE brg.goal)
    \/ BridgeStep
    \/ \E g \in Goals : GoalResponse(g) \/ Feedback(g) \/ ResultArrives(g)
    \/ \E ok \in BOOLEAN : NavCancels(ok) \/ \E g \in Goals : NavAnswers(g, ok)
    \/ \E g \in Goals, how \in {"succeeded", "cancelled", "failed"} : NavEnds(g, how)

(* Nav2 never holds two goals of the bridge that have not ended, nor one    *)
(* while another is on its way: a goal whose acknowledgement, cancellation  *)
(* or result is late goes on blocking the next one (pending_ack_,           *)
(* pending_cancel_ and the generation of Ros2Nav2Provider).  The one gap    *)
(* the code has is left out by name: an acknowledgement handled between the *)
(* end of the wait at line 173 and the lock at 174 is overwritten.          *)
OneGoalAtATime ==
    nav.overtaken \/ Cardinality({g \in Goals : nav.phase[g] \in {"asked", "live"}}) <= 1
=============================================================================
