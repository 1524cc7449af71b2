------------------------------- MODULE Scene --------------------------------
(***************************************************************************)
(* Several components that share no state are checked in one run.  What    *)
(* the environment asks of them in one behaviour, a scene, is chosen once: *)
(* the actions by which calls, devices and users begin something name the  *)
(* word that must be in the scene.  A component whose words are missing    *)
(* stays in its initial state, so the state spaces of the components add   *)
(* up instead of multiplying; threads that interact are always in the same *)
(* scene.                                                                  *)
(***************************************************************************)
CONSTANT Scenes       \* sets of words
VARIABLE scene

SceneInit == scene \in Scenes
Use(word) == word \in scene
=============================================================================
