-------------------------- MODULE PlaybackContract --------------------------
(***************************************************************************)
(* What the audio driver promises a client that submits playbacks by id:   *)
(* at most one is heard at a time, a playback ends once, the way it ended  *)
(* never changes, and one that has ended or was cancelled before it        *)
(* arrived is never heard.  A result may be forgotten, never rewritten.    *)
(***************************************************************************)
EXTENDS Integers

CONSTANT Playbacks      \* the playback ids, positive numbers

VARIABLES status,       \* what WaitPlayback would answer for each id
          sounding      \* the id the device is playing, or 0

Ended == {"completed", "failed", "cancelled", "dropped"}

ContractInit == status = [i \in Playbacks |-> "none"] /\ sounding = 0

(* The life of one playback.                                               *)
Lives(old, new) ==
    \/ old = new
    \/ old = "none" /\ new \in {"pending", "cancelled"}
    \/ old = "pending" /\ new \in Ended
    \/ old \in Ended /\ new = "none"

BeginsToSound(i) ==
    sounding = 0 /\ sounding' = i /\ status[i] = "pending" /\ status'[i] = "pending"

StopsSounding ==
    sounding \in Playbacks /\ sounding' = 0 /\ status'[sounding] \in Ended

ContractNext ==
    /\ \A i \in Playbacks : Lives(status[i], status'[i])
    /\ \/ sounding' = sounding /\ (sounding # 0 => status'[sounding] = "pending")
       \/ \E i \in Playbacks : BeginsToSound(i)
       \/ StopsSounding

ContractSpec == ContractInit /\ [][ContractNext]_<<status, sounding>>
=============================================================================
