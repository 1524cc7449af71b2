--------------------------- MODULE PlaybackDriver ---------------------------
(***************************************************************************)
(* driver/audio/runtime/playback/audio_playback.cc behind the handlers of  *)
(* audio_grpc_server.cc: a bounded queue of PCM buffers, one worker that   *)
(* plays them, and a bounded table of results by playback id.  Every       *)
(* operation holds mutex_ from its first read to its last write, so each   *)
(* is one action; playing itself (AlsaAudioPlayer::Play) is not under the  *)
(* mutex, and lies between PlayNext and PlayEnds.                          *)
(***************************************************************************)
EXTENDS Integers, Sequences, FiniteSets

CONSTANTS
    Playbacks,        \* playback ids, positive
    QueueCapacity,    \* kQueueCapacity (8)
    ResultCapacity    \* kResultCapacity (64)

ASSUME DriverAssumption ==
    /\ Playbacks \subseteq Nat \ {0}
    /\ QueueCapacity \in Nat \ {0}
    /\ ResultCapacity \in Nat /\ ResultCapacity >= QueueCapacity

VARIABLE drv

EndStates == {"completed", "failed", "cancelled", "dropped"}

Members(s) == {s[k] : k \in 1 .. Len(s)}

DriverTypeOK ==
    /\ drv.running \in BOOLEAN /\ drv.stop \in BOOLEAN /\ drv.cancelled \in BOOLEAN
    /\ drv.worker \in {"busy", "done"}
    /\ drv.queue \in Seq(Playbacks) /\ drv.finals \in Seq(Playbacks)
    /\ drv.active \in Playbacks \cup {0}
    /\ drv.results \in [Playbacks -> EndStates \cup {"none", "pending"}]

(* After Start: AudioRuntime makes a new AudioPlayback each time, starts   *)
(* it before it serves, and stops it once.                                 *)
DriverInit ==
    drv = [running |-> TRUE,        \* running_
           stop |-> FALSE,          \* stop_requested_
           worker |-> "busy",       \* worker_
           queue |-> << >>,         \* queue_
           active |-> 0,            \* active_->playback_id
           cancelled |-> FALSE,     \* active_->cancelled
           results |-> [i \in Playbacks |-> "none"],    \* results_
           finals |-> << >>]        \* final_result_ids_

(* Mutant: a forgotten id stays in the table.                              *)
RememberForever(d, ids, s, careful) ==
    LET all == d.finals \o ids
        cut == IF Len(all) > ResultCapacity THEN Len(all) - ResultCapacity ELSE 0
    IN  [d EXCEPT
            !.finals = SubSeq(all, cut + 1, Len(all)),
            !.results = [i \in Playbacks |-> IF i \in Members(ids) THEN s ELSE d.results[i]]]

(* Append ended ids and forget the oldest beyond the capacity.  The loop   *)
(* in FinalizeLocked spares an id that is pending again (careful), the one *)
(* in Cancel does not.                                                     *)
Remember(d, ids, s, careful) ==
    LET all  == d.finals \o ids
        cut  == IF Len(all) > ResultCapacity THEN Len(all) - ResultCapacity ELSE 0
        gone == {all[k] : k \in 1 .. cut}
        set  == [i \in Playbacks |-> IF i \in Members(ids) THEN s ELSE d.results[i]]
    IN  [d EXCEPT
            !.finals = SubSeq(all, cut + 1, Len(all)),
            !.results = [i \in Playbacks |->
                IF i \in gone /\ (careful => set[i] # "pending") THEN "none" ELSE set[i]]]

FinalizeLocked(d, i, s) ==
    IF d.results[i] = "pending" THEN Remember(d, <<i>>, s, TRUE) ELSE d

(* The queued requests FinalizeLocked acts on, in the order of the queue.  *)
PendingOf(d) ==
    LET at == {k \in 1 .. Len(d.queue) : d.results[d.queue[k]] = "pending"}
    IN  [n \in 1 .. Cardinality(at) |->
            d.queue[CHOOSE k \in at : Cardinality({j \in at : j <= k}) = n]]

(* queue_.erase of the request that find_if found.                         *)
Erase(q, i) ==
    LET at == CHOOSE k \in 1 .. Len(q) : q[k] = i /\ \A j \in 1 .. k - 1 : q[j] # i
    IN  SubSeq(q, 1, at - 1) \o SubSeq(q, at + 1, Len(q))

(* Stop, up to the join: everything queued is dropped, the active playback *)
(* is told.                                                                *)
DriverStop ==
    /\ drv.running /\ ~drv.stop
    /\ drv' = [Remember(drv, PendingOf(drv), "dropped", TRUE) EXCEPT
                  !.stop = TRUE, !.queue = << >>, !.cancelled = drv.active # 0]

DriverJoin ==
    /\ drv.stop /\ drv.worker = "done" /\ drv.running
    /\ drv' = [drv EXCEPT !.running = FALSE]

(* Submit, as PlayPcm calls it: with an id of the client's.                *)
DriverAccepts(i) ==
    /\ drv.running /\ ~drv.stop /\ Len(drv.queue) < QueueCapacity
    /\ drv.results[i] = "none"

DriverSubmit(i) ==
    [drv EXCEPT !.results[i] = "pending", !.queue = Append(@, i)]

(* Mutant: an ended playback can be cancelled.                             *)
CancelAnyEnd(i) ==
    IF i = drv.active THEN [drv EXCEPT !.cancelled = TRUE]
    ELSE IF i \in Members(drv.queue)
    THEN [FinalizeLocked(drv, i, "cancelled") EXCEPT !.queue = Erase(drv.queue, i)]
    ELSE Remember(drv, <<i>>, "cancelled", FALSE)

(* Cancel: the state it leaves, and what it returns.                       *)
CancelEffect(i) ==
    IF drv.results[i] \in EndStates THEN drv
    ELSE IF i = drv.active THEN [drv EXCEPT !.cancelled = TRUE]
    ELSE IF i \in Members(drv.queue)
    THEN [FinalizeLocked(drv, i, "cancelled") EXCEPT !.queue = Erase(drv.queue, i)]
    ELSE Remember(drv, <<i>>, "cancelled", FALSE)      \* the tombstone

CancelAccepted(i) == drv.results[i] \in {"none", "pending", "cancelled"}

(* Run: the worker takes the head; later the player returns.  The cancelled*)
(* flag decides before the player's own answer.                            *)
PlayNext ==
    /\ drv.worker = "busy" /\ drv.active = 0 /\ drv.queue # << >>
    /\ drv' = [drv EXCEPT !.active = Head(drv.queue), !.queue = Tail(@),
                          !.cancelled = FALSE]

PlayEnds ==
    /\ drv.active # 0
    /\ \E played \in {"completed", "failed"} :
         drv' = [FinalizeLocked(drv, drv.active,
                                IF drv.cancelled THEN "cancelled" ELSE played)
                   EXCEPT !.active = 0, !.cancelled = FALSE]

WorkerExits ==
    /\ drv.worker = "busy" /\ drv.active = 0 /\ drv.queue = << >> /\ drv.stop
    /\ drv' = [drv EXCEPT !.worker = "done"]

(* WaitForResult answers at once when the playback is not pending, else    *)
(* when it ends or the timeout passes.                                     *)
WaitAnswer(i) ==
    CASE drv.results[i] = "none" -> "not_found"
      [] drv.results[i] = "pending" -> "timeout"
      [] OTHER -> drv.results[i]

-----------------------------------------------------------------------------
Contract == INSTANCE PlaybackContract
            WITH status <- drv.results, sounding <- drv.active

(* audio_playback.cc keeps the promise of PlaybackContract: FinalizeLocked *)
(* acts on pending results only, Cancel leaves ended ones alone, and a     *)
(* tombstone keeps a cancelled playback from being queued later.           *)
DriverKeepsContract == Contract!ContractSpec

(* The two loops that bound the table may forget an id only if it has      *)
(* ended: final_result_ids_ is exactly the ended results, each once; and   *)
(* what is pending is queued or being played, once.                        *)
TableConsistent ==
    /\ Members(drv.finals) = {i \in Playbacks : drv.results[i] \in EndStates}
    /\ \A j, k \in 1 .. Len(drv.finals) : drv.finals[j] = drv.finals[k] => j = k
    /\ Len(drv.finals) <= ResultCapacity
    /\ {i \in Playbacks : drv.results[i] = "pending"}
         = Members(drv.queue) \cup ({drv.active} \ {0})
    /\ \A j, k \in 1 .. Len(drv.queue) : drv.queue[j] = drv.queue[k] => j = k
    /\ drv.active \notin Members(drv.queue)
=============================================================================
