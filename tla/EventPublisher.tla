---------------------------- MODULE EventPublisher ----------------------------
(***************************************************************************)
(* RecordingEventPublisher, by which the voice service and the camera send *)
(* events and files to the recorder: a bounded queue, a worker that sends  *)
(* one request at a time and drops the rest for a while when the recorder  *)
(* is away, and Stop.  Unlike the stream clients it publishes its context  *)
(* under the lock that guards stopping_, so Stop cannot miss it.           *)
(***************************************************************************)
EXTENDS Naturals, Sequences, Scene

CONSTANTS
    PublishCapacity,   \* kQueueCapacity
    MaxRequests        \* bound: requests published

VARIABLE pub   \* queue, worker, context, back-off, and where Stop is

PublisherInit ==
    pub = [queue |-> << >>, next |-> 1, pc |-> "wait", request |-> 0, away |-> FALSE,
           ctx |-> FALSE, cancelled |-> FALSE, stopping |-> FALSE, stop |-> "none"]

PubGoto(r) == pub' = r
PubAt(p) == pub.pc = p

(* Publish, PublishDataFile and Enqueue; a request that does not fit is lost. *)
Enqueue ==
    /\ Use("publish") /\ pub.next <= MaxRequests
    /\ PubGoto([pub EXCEPT !.next = @ + 1,
                           !.queue = IF pub.stopping \/ Len(@) >= PublishCapacity THEN @
                                     ELSE Append(@, pub.next)])

(* The worker: Run.                                                          *)
PublisherTakes ==
    /\ PubAt("wait") /\ (pub.stopping \/ pub.queue # << >>)
    /\ PubGoto(IF pub.stopping THEN [pub EXCEPT !.pc = "ended"]
               ELSE [pub EXCEPT !.pc = "taken", !.request = Head(pub.queue), !.queue = Tail(@)])
PublisherDrops == PubAt("taken") /\ pub.away /\ PubGoto([pub EXCEPT !.pc = "wait", !.request = 0])

(* The context is published in a block of its own, after a stop could have   *)
(* passed.                                                                   *)
PublisherArms ==
    /\ PubAt("taken") /\ ~pub.away
    /\ PubGoto(IF pub.stopping THEN [pub EXCEPT !.pc = "ended"]
               ELSE [pub EXCEPT !.pc = "call", !.ctx = TRUE])
RetryDelayPasses == pub.away /\ PubGoto([pub EXCEPT !.away = FALSE])

(* The context of a call that has ended stays published.                     *)
ContextStays(away) ==
    /\ PubAt("call") /\ PubGoto([pub EXCEPT !.pc = "wait", !.request = 0, !.away = away])

(* AppendEvent or AppendDataFile answers, or its deadline passes; a failure  *)
(* of the transport starts the back-off.                                     *)
PublisherAnswered(away) ==
    /\ PubAt("call")
    /\ PubGoto([pub EXCEPT !.pc = "wait", !.ctx = FALSE, !.request = 0, !.away = away])

PublisherStop ==
    /\ Use("publish") /\ ~pub.stopping
    /\ PubGoto([pub EXCEPT !.stopping = TRUE, !.queue = << >>, !.cancelled = pub.ctx, !.stop = "join"])
PublisherJoins ==
    pub.stop = "join" /\ PubAt("ended") /\ PubGoto([pub EXCEPT !.stop = "returned"])

PublisherSteps ==
    \/ PublisherTakes \/ PublisherDrops \/ PublisherArms \/ PublisherJoins
    \/ \E away \in BOOLEAN : PublisherAnswered(away)
PublisherNext == Enqueue \/ PublisherSteps \/ RetryDelayPasses \/ PublisherStop
PublisherFairness == WF_pub(PublisherSteps)

(* Stop returned, with nothing in flight or waiting.                         *)
PublisherStopped == pub.stopping => pub.stop = "returned" /\ ~pub.ctx /\ pub.queue = << >>
=============================================================================
