----------------------------- MODULE CameraPath -----------------------------
(***************************************************************************)
(* The camera driver: the preview service over its sources, the native     *)
(* pipeline and the tool that tunes it, and the frames that the HMI and    *)
(* the photo service read.                                                 *)
(***************************************************************************)
EXTENDS CameraPreview, TuningTool, SharedFrame

cameraPathVars == <<cameraVars, nativeVars, toolVars, sharedVars, scene>>

Init == SceneInit /\ CameraInit /\ NativeInit /\ ToolInit /\ SharedInit

Next ==
    /\ \/ CameraNext /\ UNCHANGED <<nativeVars, toolVars, sharedVars>>
       \/ NativeNext /\ UNCHANGED <<cameraVars, toolVars, sharedVars>>
       \/ ToolNext /\ UNCHANGED <<cameraVars, sharedVars>>
       \/ SharedNext /\ UNCHANGED <<cameraVars, nativeVars, toolVars>>
    /\ UNCHANGED scene

Spec ==
    /\ Init /\ [][Next]_cameraPathVars
    /\ CameraFairness /\ NativeFairness /\ ToolFairness /\ SharedFairness

(* However slowly its consumers convert, the native session never starves    *)
(* for buffers and never has to be abandoned, no two tuning requests of it   *)
(* share a revision, and what the tuning tool keeps or restores is whole and *)
(* was seen in frames (native_argus_capture.cc, frame_broker.cc,             *)
(* camera_tuning_ctl.cc, tuning_profile.cc).                                 *)
NativeSessionSound ==
    /\ ReserveHolds /\ StopFindsNoLease /\ RevisionNamesOneRequest
    /\ ProfileIsWhole /\ RollbackIsObserved

(* Every Start, Stop and health check of the preview, every Stop of the      *)
(* native pipeline and every tuning command returns, and a preview whose     *)
(* source is recovering does not go on being shown as running                *)
(* (CameraService, NativeArgusPreviewSource and their joins, Phase's frame   *)
(* budget).                                                                  *)
CameraCallsReturn == PreviewCallsReturn /\ NativeStopReturns /\ ToolReturns
=============================================================================
