-------------------------- MODULE VoiceResponseSink --------------------------
(***************************************************************************)
(* cockpit/voice/domain/responses/async_voice_response_sink.cc: a bounded  *)
(* queue of spoken responses in front of one playback worker.  An output   *)
(* is [id, gen]: the response id and the interrupt generation its          *)
(* completion callback was bound to.                                       *)
(***************************************************************************)
EXTENDS Integers, Sequences, FiniteSets

CONSTANTS
    Capacity,   \* capacity_ of the queue
    MaxId       \* bound: response ids handed out

ASSUME SinkAssumption == Capacity \in Nat \ {0} /\ MaxId \in Nat

VARIABLE sink

NoOutput == [id |-> 0, gen |-> 0]
Outputs == [id : 1 .. MaxId, gen : Nat]

SinkTypeOK ==
    /\ sink.queue \in Seq(Outputs) /\ Len(sink.queue) <= Capacity
    /\ sink.active \in Outputs \cup {NoOutput}
    /\ sink.cancel \in BOOLEAN /\ sink.stop \in BOOLEAN
    /\ sink.accepted \subseteq 1 .. MaxId
    /\ sink.done \in [1 .. MaxId -> Nat]

SinkInit ==
    sink = [queue |-> << >>,        \* queue_
            active |-> NoOutput,    \* active_
            cancel |-> FALSE,       \* active_->cancellation
            stop |-> FALSE,         \* stop_requested_
            accepted |-> {},        \* ids Submit returned true for
            done |-> [i \in 1 .. MaxId |-> 0]]  \* callbacks per id

(* Mutant: one output more than the queue holds.                           *)
SinkAcceptsOneMore == ~sink.stop /\ Len(sink.queue) <= Capacity

SinkAccepts == ~sink.stop /\ Len(sink.queue) < Capacity

SinkSubmit(o) ==
    sink' = [sink EXCEPT !.queue = Append(@, o), !.accepted = @ \cup {o.id}]

(* Run: take the head.                                                     *)
SinkTake ==
    /\ ~sink.stop /\ sink.queue # << >>
    /\ sink' = [sink EXCEPT !.active = Head(sink.queue), !.queue = Tail(@),
                            !.cancel = FALSE]

(* CancelPending: the queue is swapped out, the active output is told.     *)
CancelPending(stopping) ==
    IF sink.stop THEN sink
    ELSE [sink EXCEPT !.stop = stopping, !.queue = << >>,
                      !.cancel = sink.active # NoOutput]

(* Mutant: completed is not tested and set.                                *)
CompleteAgain(o) == [sink EXCEPT !.done[o.id] = @ + 1]

(* Complete: only the first call for an output invokes its callback.       *)
Complete(o) == [sink EXCEPT !.done[o.id] = IF @ = 0 THEN 1 ELSE @]

SinkClearActive == sink' = [sink EXCEPT !.active = NoOutput, !.cancel = FALSE]

(* Submit's contract, on which the conversation relies to leave `speaking':*)
(* an accepted output is reported at most once, and never one that was     *)
(* rejected.                                                               *)
CompletedAtMostOnce ==
    \A i \in 1 .. MaxId : sink.done[i] <= IF i \in sink.accepted THEN 1 ELSE 0
=============================================================================
