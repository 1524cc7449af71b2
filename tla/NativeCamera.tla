---------------------------- MODULE NativeCamera ----------------------------
(***************************************************************************)
(* driver/camera, the native Argus pipeline: the buffer pool of            *)
(* native_argus_capture.cc, the frame broker between one producer and two  *)
(* consumers, the preview source that runs them and the tuning requests.   *)
(* A buffer is leased from the daemon, shared through the broker, and goes *)
(* back when its last holder lets go.  Consumers and producer interleave   *)
(* at the broker's critical sections.                                      *)
(***************************************************************************)
EXTENDS Naturals, Sequences, FiniteSets, Scene

CONSTANTS
    Slots,               \* the buffers of a session's pool (pool_size)
    CaptureReserve,      \* buffers consumers may never hold
    TransformCapacity,   \* frames waiting for the encoder
    TuningClients,       \* callers of the tuning RPCs
    MaxNativeSessions,   \* bound: starts of the source
    MaxRevisions         \* bound: tuning requests submitted

None == 0             \* no buffer

ASSUME NativeAssumption ==
    /\ IsFiniteSet(Slots) /\ Cardinality(Slots) >= 2 /\ None \notin Slots
    /\ CaptureReserve \in 1 .. Cardinality(Slots) - 1
    /\ TransformCapacity \in 1 .. Cardinality(Slots) - 1

(* nat: running, session, stop, encoding: the Run and who stops it; slot:    *)
(*      the pool; preview, transform, retired: frames in the broker, and     *)
(*      those an eviction took out; shared, retained: wrapped frames and the *)
(*      epoch's counter; the three threads' places and frames.               *)
(* tune: revision and next number of the session, the fault, what each       *)
(*      client read; sent: ghost, revisions submitted with a second content. *)
VARIABLES nat, tune

nativeVars == <<nat, tune>>
Threads == {"producer", "preview", "encode"}
Budget == Cardinality(Slots) - CaptureReserve

(* The pool of a new session: every buffer is with the daemon.               *)
FullPool == [s \in Slots |-> "argus"]

(* The defaults are repeated as revision 1.                                   *)
FirstRequest(t) == [t EXCEPT !.revision = 1, !.next = 2, !.fault = FALSE]

NativeInit ==
    /\ nat = [running |-> FALSE, session |-> 0, alive |-> FALSE, stop |-> "none",
              encoding |-> FALSE, slot |-> FullPool, preview |-> << >>,
              transform |-> << >>, retired |-> {}, shared |-> {}, retained |-> 0,
              at |-> [t \in Threads |-> "off"], has |-> [t \in Threads |-> None],
              starved |-> FALSE, stuck |-> FALSE]
    /\ tune = [revision |-> 0, next |-> 0, fault |-> FALSE, sent |-> {}, reused |-> FALSE,
               read |-> [c \in TuningClients |-> <<0, 0>>]]

Range2(s) == {s[i] : i \in DOMAIN s}
Holders(n) == {n.has[t] : t \in Threads} \cup Range2(n.preview) \cup Range2(n.transform)
              \cup n.retired

(* Session::Return for these buffers, and ~SharedNativeFrame for every frame *)
(* that nobody holds any more.                                               *)
Return(n, gone) ==
    [n EXCEPT !.slot = [s \in Slots |-> IF s \in gone THEN "pending" ELSE @[s]]]
Settle(n) ==
    LET gone == {s \in Slots : n.slot[s] = "leased" /\ s \notin Holders(n)}
    IN  [Return(n, gone) EXCEPT
                  !.retained = @ - Cardinality(gone \cap n.shared),
                  !.shared = @ \ gone]

FlushReturns(n) ==
    [n EXCEPT !.slot = [s \in Slots |-> IF @[s] = "pending" THEN "argus" ELSE @[s]]]

Outstanding(n) == {s \in Slots : n.slot[s] = "leased"}
ThreadAt(t, label) == nat.at[t] = label
Fail(n, t) == Settle([n EXCEPT !.running = FALSE, !.at[t] = "exit", !.has[t] = None])

-----------------------------------------------------------------------------
(* NativeArgusPreviewSource: Start after its Stop, and Stop.                 *)

NativeStart ==
    /\ Use("native") /\ nat.stop = "none" /\ nat.session < MaxNativeSessions
    /\ \A t \in Threads : ThreadAt(t, "off")
    /\ nat' = [nat EXCEPT !.running = TRUE, !.session = @ + 1, !.alive = TRUE,
                          !.encoding = Use("encode"), !.retained = 0,
                          !.slot = FullPool,
                          !.at = [t \in Threads |-> IF t = "producer" THEN "acquire"
                                   ELSE IF t = "preview" \/ Use("encode") THEN "pop" ELSE "exit"]]
    /\ tune' = FirstRequest(tune)

NativeStop ==
    /\ Use("native") /\ nat.stop = "none" /\ nat.alive
    /\ nat' = [nat EXCEPT !.running = FALSE, !.stop = "join"] /\ UNCHANGED tune

(* The broker is closed only when no thread can touch a frame.               *)
BrokerClose ==
    /\ nat.stop = "join" /\ \A t \in Threads : ThreadAt(t, "exit")
    /\ nat' = Settle([nat EXCEPT !.stop = "capture", !.preview = << >>, !.transform = << >>])
    /\ UNCHANGED tune

(* Session::Stop: a lease that is still out keeps the session.               *)
CaptureStop ==
    /\ nat.stop = "capture"
    /\ LET n == FlushReturns(nat)
       IN  nat' = [n EXCEPT !.stop = "none", !.at = [t \in Threads |-> "off"],
                            !.alive = Outstanding(n) # {},
                            !.stuck = @ \/ Outstanding(n) # {}]
    /\ tune' = [tune EXCEPT !.read = [c \in TuningClients |-> <<0, 0>>]]

-----------------------------------------------------------------------------
(* Produce.  Acquire returns what consumers gave back before it waits; which *)
(* of its buffers the daemon fills makes no difference.                      *)

Acquire ==
    /\ ThreadAt("producer", "acquire") /\ nat.running
    /\ LET n == FlushReturns(nat) IN
       IF tune.fault THEN nat' = Fail(n, "producer")
       ELSE IF Outstanding(n) = Slots
       THEN nat' = [Fail(n, "producer") EXCEPT !.starved = TRUE]
       ELSE LET s == CHOOSE x \in Slots : n.slot[x] = "argus" IN
              nat' = [n EXCEPT !.slot[s] = "leased", !.has["producer"] = s,
                               !.at["producer"] = "publish"]
    /\ UNCHANGED tune

(* The daemon ends the stream, fails, or a buffer cannot be given back.      *)
AcquireFails ==
    /\ ThreadAt("producer", "acquire") /\ nat.running /\ Use("lost")
    /\ nat' = Fail(nat, "producer") /\ UNCHANGED tune

ProducerStops ==
    /\ nat.at["producer"] \in {"acquire", "publish"} /\ ~nat.running
    /\ nat' = Fail(nat, "producer") /\ UNCHANGED tune

(* Publish, first section: make room.  What is evicted is let go outside the *)
(* lock.                                                                     *)
PublishEvict ==
    /\ ThreadAt("producer", "publish") /\ nat.running
    /\ LET full == Len(nat.transform) = TransformCapacity
           over == nat.retained >= Budget
           kept == IF over THEN << >> ELSE IF full THEN Tail(nat.transform) ELSE nat.transform
       IN  nat' = [nat EXCEPT !.retired = (Range2(nat.preview) \cup Range2(nat.transform)) \ Range2(kept),
                              !.preview = << >>, !.transform = kept,
                              !.at["producer"] = "reserve"]
    /\ UNCHANGED tune

(* Second section: reserve against the budget, or drop the frame.            *)
ReserveUnchecked ==
    /\ ThreadAt("producer", "reserve")
    /\ LET n == Settle([nat EXCEPT !.retired = {}])
       IN  nat' = [n EXCEPT !.retained = @ + 1, !.shared = @ \cup {n.has["producer"]},
                            !.at["producer"] = "enqueue"]
    /\ UNCHANGED tune

PublishReserve ==
    /\ ThreadAt("producer", "reserve")
    /\ LET n == Settle([nat EXCEPT !.retired = {}])
       IN  nat' = IF n.retained >= Budget
                  THEN Settle([n EXCEPT !.has["producer"] = None, !.at["producer"] = "acquire"])
                  ELSE [n EXCEPT !.retained = @ + 1, !.shared = @ \cup {n.has["producer"]},
                                 !.at["producer"] = "enqueue"]
    /\ UNCHANGED tune

(* Third section.  Nobody else publishes, so the queues still have room.     *)
PublishEnqueue ==
    /\ ThreadAt("producer", "enqueue")
    /\ nat' = [nat EXCEPT !.preview = << nat.has["producer"] >>,
                          !.transform = Append(@, nat.has["producer"]),
                          !.has["producer"] = None,
                          !.at["producer"] = IF nat.encoding THEN "acquire" ELSE "discard"]
    /\ UNCHANGED tune

DiscardTransform ==
    /\ ThreadAt("producer", "discard")
    /\ nat' = Settle([nat EXCEPT !.transform = << >>, !.at["producer"] = "acquire"])
    /\ UNCHANGED tune

-----------------------------------------------------------------------------
(* Preview and Encode: pop, convert to memory of their own, let go.          *)

Queue(t) == IF t = "preview" THEN nat.preview ELSE nat.transform
WaitPop(t) ==
    /\ ThreadAt(t, "pop") /\ nat.running /\ Queue(t) # << >>
    /\ nat' = [nat EXCEPT !.has[t] = Head(Queue(t)), !.at[t] = "convert",
                          !.preview = IF t = "preview" THEN Tail(@) ELSE @,
                          !.transform = IF t = "encode" THEN Tail(@) ELSE @]
    /\ UNCHANGED tune

Convert(t) ==
    /\ ThreadAt(t, "convert")
    /\ nat' = Settle([nat EXCEPT !.has[t] = None, !.at[t] = "use"])
    /\ UNCHANGED tune

(* The transform, the encoder or a writer fails: the whole preview stops.    *)
ConsumerFails(t) ==
    /\ nat.at[t] \in {"convert", "use", "write"} /\ Use("lost")
    /\ nat' = Fail(nat, t) /\ UNCHANGED tune

MoveOn(t, from, to) == ThreadAt(t, from) /\ nat' = [nat EXCEPT !.at[t] = to] /\ UNCHANGED tune
DeliverFrame == MoveOn("preview", "use", "pop")
EncodeFrame == MoveOn("encode", "use", "write")
WritePackets == MoveOn("encode", "write", "pop")

(* The loops end; the encoder is flushed first.                              *)
PreviewStops == ~nat.running /\ MoveOn("preview", "pop", "exit")
EncodeFlushes == ~nat.running /\ MoveOn("encode", "pop", "exit")

-----------------------------------------------------------------------------
(* Tuning.  A caller names the session and revision it read last.            *)

Tunable == nat.alive /\ nat.running /\ nat.stop = "none"
GetTuning(c) ==
    /\ Use("tuning") /\ Tunable
    /\ tune' = [tune EXCEPT !.read[c] = <<nat.session, tune.revision>>]
    /\ UNCHANGED nat

(* Check, then Session::SetTuning: the number is used up before the daemon   *)
(* answers.  A refused request is replaced by the old one, or the session is *)
(* faulted.                                                                  *)
Submit(t, c) == <<nat.session, t.next>>
SetTuning(c, outcome) ==
    /\ Tunable /\ ~tune.fault /\ tune.next <= MaxRevisions
    /\ tune.read[c] = <<nat.session, tune.revision>>
    /\ LET id == Submit(tune, c)
           t == [tune EXCEPT !.next = @ + 1, !.sent = @ \cup {id},
                             !.reused = @ \/ id \in tune.sent]
       IN  tune' = CASE outcome = "accepted" -> [t EXCEPT !.revision = tune.next,
                                                          !.read[c] = id]
                     [] outcome = "refused" -> t
                     [] outcome = "broken" -> [t EXCEPT !.fault = TRUE]
    /\ UNCHANGED nat

Producer ==
    Acquire \/ AcquireFails \/ ProducerStops \/ PublishEvict \/ PublishReserve
    \/ PublishEnqueue \/ DiscardTransform
Consumer(t) == WaitPop(t) \/ Convert(t) \/ ConsumerFails(t)
PreviewThread == Consumer("preview") \/ DeliverFrame \/ PreviewStops
EncodeThread == Consumer("encode") \/ EncodeFrame \/ WritePackets \/ EncodeFlushes
Stopper == BrokerClose \/ CaptureStop

NativeNext ==
    \/ NativeStart \/ NativeStop \/ Stopper \/ Producer
    \/ PreviewThread \/ EncodeThread

NativeFairness ==
    /\ WF_nativeVars(Producer) /\ WF_nativeVars(Stopper)
    /\ WF_nativeVars(PreviewThread) /\ WF_nativeVars(EncodeThread)

-----------------------------------------------------------------------------
(* The capture reserve does its work: however slowly the consumers convert,  *)
(* the producer never finds every buffer leased (which ends the preview with *)
(* kNoBuffer), and the broker's counter is the number of wrapped frames.     *)
ReserveHolds ==
    ~nat.starved /\ nat.retained = Cardinality(nat.shared) /\ nat.retained <= Budget

(* Stop, at any moment, finds every lease returned: it never ends with       *)
(* kLeasesOutstanding, which would leave the session and refuse a new start. *)
StopFindsNoLease == ~nat.stuck

(* No two tuning requests of a session are submitted under one revision,     *)
(* also when the first was refused ("Never reuse its clientData").           *)
RevisionNamesOneRequest == ~tune.reused

(* A Stop ends.                                                              *)
NativeStopReturns == nat.stop # "none" ~> nat.stop = "none"
=============================================================================
