---------------------------- MODULE Conversation ----------------------------
(***************************************************************************)
(* cockpit/voice/conversation/conversation_state_machine.cc: the state of  *)
(* the one voice conversation and the events that move it.  An event is    *)
(* accepted when NextState names a target and IsTransitionAllowed admits   *)
(* the pair; a rejected event leaves the state as it is.                   *)
(***************************************************************************)

InteractionState ==
    {"idle", "waking", "listening", "recognizing", "routing", "executing",
     "thinking", "speaking", "follow_up", "cancelled", "error_recovery",
     "shutting_down"}

IsActive(s) ==
    s \in {"waking", "listening", "recognizing", "routing", "executing",
           "thinking", "speaking", "follow_up"}

(* <<states the event is taken in, state it leads to>>                     *)
EventTable ==
    [WakeWordDetected    |-> <<{"idle", "follow_up"}, "waking">>,
     WakePromptCompleted |-> <<{"waking"}, "listening">>,
     SpeechSegmentReady  |-> <<{"idle", "listening", "follow_up"}, "recognizing">>,
     TranscriptReady     |-> <<{"recognizing"}, "routing">>,
     ActionSelected      |-> <<{"routing"}, "executing">>,
     OpenRequestSelected |-> <<{"routing"}, "thinking">>,
     ResponseReady       |-> <<{"routing", "executing", "thinking"}, "speaking">>,
     PlaybackCompleted   |-> <<{"speaking"}, "follow_up">>,
     RequestCompleted    |-> <<{"routing", "executing", "thinking", "speaking"}, "idle">>,
     FollowUpExpired     |-> <<{"follow_up"}, "idle">>,
     CancelRequested     |-> <<{s \in InteractionState : IsActive(s)}, "cancelled">>,
     Failure             |-> <<{s \in InteractionState : IsActive(s)}, "error_recovery">>,
     RecoveryCompleted   |-> <<{"cancelled", "error_recovery"}, "idle">>,
     ShutdownRequested   |-> <<InteractionState \ {"shutting_down"}, "shutting_down">>]

IsTransitionAllowed(from, to) ==
    /\ from # to /\ from # "shutting_down"
    /\ \/ to = "shutting_down"
       \/ IsActive(from) /\ to \in {"cancelled", "error_recovery"}
       \/ from \in {"idle", "follow_up"} /\ to \in {"waking", "listening", "recognizing"}
       \/ from = "waking" /\ to = "listening"
       \/ from = "listening" /\ to \in {"recognizing", "idle"}
       \/ from = "recognizing" /\ to = "routing"
       \/ from = "routing" /\ to \in {"executing", "thinking", "speaking", "idle"}
       \/ from \in {"executing", "thinking", "speaking"} /\ to \in {"follow_up", "idle"}
       \/ from \in {"executing", "thinking"} /\ to = "speaking"
       \/ from \in {"follow_up", "cancelled", "error_recovery"} /\ to = "idle"

Accepts(s, e) ==
    s \in EventTable[e][1] /\ IsTransitionAllowed(s, EventTable[e][2])

Handle(s, e) == IF Accepts(s, e) THEN EventTable[e][2] ELSE s
=============================================================================
