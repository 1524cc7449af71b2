------------------------------ MODULE Services ------------------------------
(***************************************************************************)
(* The services around the voice agent: the recorder and its publishers,   *)
(* the navigation bridge, chassis safety, the vehicle's streams with the   *)
(* sentinel that listens to them, the local language model, the camera's   *)
(* video for RTSP, music, the HMI's panels and Navigator's command socket. *)
(* Each has its scenes; the sentinel shares the vehicle driver of the      *)
(* streams.                                                                *)
(***************************************************************************)
EXTENDS Recording, NavBridge, Chassis, Sentinel, Llm, EventPublisher, VideoStream, Media,
        HmiPanels, NavigatorSocket

driving == <<navVars, chassisVars, sentinelVars>>
helping == <<recordingVars, llmVars, pub>>
showing == <<videoVars, mediaVars, panelVars, socketVars>>

Init ==
    /\ SceneInit /\ RecordingInit /\ NavInit /\ ChassisInit /\ StreamsInit /\ SentinelInit
    /\ LlmInit /\ PublisherInit /\ VideoInit /\ MediaInit /\ PanelsInit /\ SocketInit

Driving ==
    /\ \/ NavNext /\ UNCHANGED <<chassisVars, sentinelVars>>
       \/ ChassisNext /\ UNCHANGED <<navVars, sentinelVars>>
       \/ SentinelNext /\ UNCHANGED <<navVars, chassisVars>>
    /\ UNCHANGED <<helping, showing>>
Helping ==
    /\ \/ RecordingNext /\ UNCHANGED <<llmVars, pub>>
       \/ LlmNext /\ UNCHANGED <<recordingVars, pub>>
       \/ PublisherNext /\ UNCHANGED <<recordingVars, llmVars>>
    /\ UNCHANGED <<driving, showing>>
Showing ==
    /\ \/ VideoNext /\ UNCHANGED <<mediaVars, panelVars, socketVars>>
       \/ MediaNext /\ UNCHANGED <<videoVars, panelVars, socketVars>>
       \/ PanelsNext /\ UNCHANGED <<videoVars, mediaVars, socketVars>>
       \/ SocketNext /\ UNCHANGED <<videoVars, mediaVars, panelVars>>
    /\ UNCHANGED <<driving, helping>>

Next == (Driving \/ Helping \/ Showing) /\ UNCHANGED scene

Spec ==
    /\ Init /\ [][Next]_<<driving, helping, showing, scene>>
    /\ RecordingFairness /\ SentinelFairness /\ LlmFairness /\ PublisherFairness
    /\ VideoFairness /\ MediaFairness /\ PanelsFairness

(* There is one goal in Nav2 at a time, and one Navigator on the socket.     *)
OneAtATime == OneGoalAtATime /\ NavigatorReachable

(* What subscribers of the vehicle get and what RTSP viewers get comes whole  *)
(* and in order.                                                             *)
AllStreamsInOrder == StreamsInOrder /\ VideoInOrder

(* Every service that is told to stop stops, for good: the streams, the      *)
(* sentinel, the language model with its server, the recording publisher and *)
(* the RTSP server (their Stop, Shutdown and Cancel, each against the thread *)
(* it has to bring to an end).  The HMI ends with the music silent, and      *)
(* until then no button stays blocked and its panels come to show what is.   *)
ServicesStop ==
    <>[](/\ StreamsStopped /\ SentinelStopped /\ LlmStopped /\ PublisherStopped
         /\ VideoStopped /\ MusicEnded /\ PanelsSettled)
=============================================================================
