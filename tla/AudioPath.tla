----------------------------- MODULE AudioPath ------------------------------
(***************************************************************************)
(* The two directions of sound between the voice agent and the audio       *)
(* driver: PlaybackClient with PlaybackDriver, and SpeechInput with        *)
(* AudioCapture; and VoiceAgent, which starts and stops the voice side of  *)
(* both.  Each is checked in scenes of its own.                            *)
(***************************************************************************)
EXTENDS PlaybackClient, SpeechInput, VoiceAgent

audioVars == <<playbackVars, speechVars, agentVars, scene>>

AudioInit == SceneInit /\ PlaybackInit /\ SpeechInit /\ AgentInit

AudioNext ==
    \/ PlaybackNext /\ UNCHANGED <<speechVars, agentVars, scene>>
    \/ SpeechNext /\ UNCHANGED <<playbackVars, agentVars, scene>>
    \/ AgentNext /\ UNCHANGED <<playbackVars, speechVars, scene>>

AudioSpec ==
    /\ AudioInit /\ [][AudioNext]_audioVars
    /\ PlaybackFairness /\ SpeechFairness /\ AgentFairness

(* Calls come back: a playback that was accepted ends, a Stop or a Cancel    *)
(* returns, capture and the speech pipeline stop when told to, and the agent *)
(* around them comes down (the joins of AudioPlaybackClient, SpeechPipeline, *)
(* AudioCaptureStream and AgentRuntime).                                     *)
AudioCallsReturn == PlaybackCallsReturn /\ CaptureCallsReturn /\ AgentComesDown
=============================================================================
